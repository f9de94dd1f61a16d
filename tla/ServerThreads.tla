---------------------------- MODULE ServerThreads ----------------------------
(***************************************************************************)
(* The server's threads: the main thread, one thread per TCP connection    *)
(* and the thread that reaps closed connections.  They share the player    *)
(* list and the resources under two recursive mutexes, object              *)
(* (ObjectLists::mtx) and resource (ResourceSystem::mtx).                  *)
(*                                                                         *)
(* A step is what a thread does between two lock operations.  The mutex of *)
(* PlayerClient::tcp is only ever taken by a thread that holds object, and *)
(* is left out.  The queue of a player is a set: order and repetitions of  *)
(* announcements do not matter here.                                       *)
(***************************************************************************)
EXTENDS Naturals, FiniteSets

CONSTANTS
    Slots,         \* heap blocks for PlayerClients
    Nids,
    Conns,         \* heap blocks for TCP connections, and their threads
    Resources,
    Administered,  \* the resources somebody starts and stops; the others run
    Hosts, Home,   \* the host a connection comes from
    Main,          \* the main thread as the owner of a lock
    Null

ASSUME ThreadsAssumption ==
    /\ Main \notin Conns \union {Null}
    /\ Null \notin Slots \union Nids \union Conns \union Resources
    /\ Administered \subseteq Resources
    /\ Home \in [Conns -> Hosts]

VARIABLES
    object, resource,   \* the owners of the two mutexes
    at, todo, arg,      \* where the main thread is, players and argument left
    listed,             \* player_clients_set
    nid, ip,            \* per player
    tcp, queue,         \* PlayerClient::tcp, PlayerClient::resources_to_sync
    announced, synced,  \* SyncResource sent since StartupSync; StartupSync done
    status,             \* Resource::status, or "Absent"
    thread,             \* where the thread of a connection is
    userdata,           \* client_interface::userdata
    asks,               \* the NID in a StartupSync not yet handled
    offers,             \* resources the client may still request files of
    fault

mainVars == <<at, todo, arg>>
playerVars == <<listed, nid, ip, tcp, queue, announced, synced>>
connVars == <<thread, userdata, asks, offers>>
vars == <<object, resource, mainVars, playerVars, status, connVars, fault>>

\* Every variable has its type, and listed players have different NIDs.
TypeOK ==
    /\ object \in Conns \union {Main, Null}
    /\ resource \in Conns \union {Main, Null}
    /\ at \in {"Idle", "Syncing", "Sent", "Packets", "Starting", "Stopping"}
    /\ todo \subseteq Slots
    /\ arg \in Slots \union Resources \union {Null}
    /\ listed \subseteq Slots
    /\ nid \in [Slots -> Nids \union {Null}]
    /\ \A s, t \in listed : nid[s] # Null /\ (nid[s] = nid[t] => s = t)
    /\ ip \in [Slots -> Hosts \union {Null}]
    /\ tcp \in [Slots -> Conns \union {Null}]
    /\ queue \in [Slots -> SUBSET Resources]
    /\ announced \in [Slots -> SUBSET Resources]
    /\ synced \in [Slots -> BOOLEAN]
    /\ status \in [Resources -> {"Running", "Stopped", "Absent"}]
    /\ thread \in [Conns -> {"Free", "Fresh", "Reading", "Syncing", "Sending",
                             "Closed", "Reported"}]
    /\ userdata \in [Conns -> Slots \union {Null}]
    /\ asks \in [Conns -> Nids \union {Null}]
    /\ offers \in [Conns -> SUBSET Resources]
    /\ fault \in {"None", "InvalidNid", "WrongIp", "RunningFreed"}

\* ResourceSystem::init has started the startup resources.
Init ==
    /\ object = Null /\ resource = Null
    /\ at = "Idle" /\ todo = {} /\ arg = Null
    /\ listed = {}
    /\ nid = [s \in Slots |-> Null] /\ ip = [s \in Slots |-> Null]
    /\ tcp = [s \in Slots |-> Null]
    /\ queue = [s \in Slots |-> {}] /\ announced = [s \in Slots |-> {}]
    /\ synced = [s \in Slots |-> FALSE]
    /\ status = [r \in Resources |->
                   IF r \in Administered THEN "Stopped" ELSE "Running"]
    /\ thread = [c \in Conns |-> "Free"]
    /\ userdata = [c \in Conns |-> Null]
    /\ asks = [c \in Conns |-> Null]
    /\ offers = [c \in Conns |-> {}]
    /\ fault = "None"

Running == {r \in Resources : status[r] = "Running"}

-----------------------------------------------------------------------------
(* Main thread: sync_pending_resources of every player, then packets.      *)

Nobody == {}
Everybody == listed

SyncBegin ==
    /\ at = "Idle" /\ object = Null
    /\ object' = Main /\ at' = "Syncing" /\ todo' = Everybody
    /\ UNCHANGED <<resource, arg, playerVars, status, connVars>>

\* Nothing to send, or no connection to send it on.
SkipPlayer(s) ==
    /\ at = "Syncing" /\ s \in todo
    /\ tcp[s] = Null \/ queue[s] = {}
    /\ todo' = todo \ {s}
    /\ UNCHANGED <<object, resource, at, arg, playerVars, status, connVars>>

\* Under the resource lock: get_resource drops names that no longer exist.
Existing(s) == {r \in queue[s] : status[r] # "Absent"}

SendPending(s) ==
    /\ at = "Syncing" /\ s \in todo
    /\ tcp[s] # Null /\ queue[s] # {}
    /\ resource = Null
    /\ announced' = [announced EXCEPT ![s] = @ \union Existing(s)]
    /\ offers' = [offers EXCEPT ![tcp[s]] = @ \union Existing(s)]
    /\ at' = "Sent" /\ arg' = s
    /\ UNCHANGED <<object, resource, todo, listed, nid, ip, tcp, queue, synced,
                   status, thread, userdata, asks>>

\* resources_to_sync.clear(), when the resource lock is released again.
ClearPending ==
    /\ at = "Sent"
    /\ queue' = [queue EXCEPT ![arg] = {}]
    /\ at' = "Syncing" /\ todo' = todo \ {arg} /\ arg' = Null
    /\ UNCHANGED <<object, resource, listed, nid, ip, tcp, announced, synced,
                   status, connVars>>

SyncEnd ==
    /\ at = "Syncing" /\ todo = {}
    /\ object' = Null /\ at' = "Packets"
    /\ UNCHANGED <<resource, todo, arg, playerVars, status, connVars>>

TickEnd ==
    /\ at = "Packets"
    /\ at' = "Idle"
    /\ UNCHANGED <<object, resource, todo, arg, playerVars, status, connVars>>

AllNids == Nids
FreeNids == Nids \ {nid[s] : s \in listed}

\* A client whose TCP handshake is over on c connects and is told its NID,
\* which it then sends on c.
Connect(s, n, c) ==
    /\ at = "Packets" /\ object = Null
    /\ s \notin listed /\ n \in FreeNids /\ thread[c] = "Fresh"
    /\ listed' = listed \union {s}
    /\ nid' = [nid EXCEPT ![s] = n]
    /\ ip' = [ip EXCEPT ![s] = Home[c]]
    /\ thread' = [thread EXCEPT ![c] = "Reading"]
    /\ asks' = [asks EXCEPT ![c] = n]
    /\ UNCHANGED <<object, resource, mainVars, tcp, queue, announced, synced,
                   status, userdata, offers>>

\* remove_player_client: the block is free for the next player.
Disconnect(s) ==
    /\ at = "Packets" /\ object = Null
    /\ s \in listed
    /\ listed' = listed \ {s}
    /\ nid' = [nid EXCEPT ![s] = Null]
    /\ ip' = [ip EXCEPT ![s] = Null]
    /\ tcp' = [tcp EXCEPT ![s] = Null]
    /\ queue' = [queue EXCEPT ![s] = {}]
    /\ announced' = [announced EXCEPT ![s] = {}]
    /\ synced' = [synced EXCEPT ![s] = FALSE]
    /\ UNCHANGED <<object, resource, mainVars, status, connVars>>

\* start_resource up to sync_resource, which needs the object lock as well.
StartBegin(r) ==
    /\ at = "Packets" /\ resource = Null
    /\ r \in Administered /\ status[r] = "Stopped"
    /\ resource' = Main
    /\ status' = [status EXCEPT ![r] = "Running"]
    /\ announced' = [s \in Slots |-> announced[s] \ {r}]
    /\ at' = "Starting" /\ arg' = r
    /\ UNCHANGED <<object, todo, listed, nid, ip, tcp, queue, synced, connVars>>

StartSync ==
    /\ at = "Starting" /\ object = Null
    /\ queue' = [s \in Slots |-> IF s \in listed THEN queue[s] \union {arg}
                                 ELSE queue[s]]
    /\ resource' = Null /\ at' = "Packets" /\ arg' = Null
    /\ UNCHANGED <<object, todo, listed, nid, ip, tcp, announced, synced, status,
                   connVars>>

\* stop_resource up to the broadcast, which needs the object lock as well.
StopBegin(r) ==
    /\ at = "Packets" /\ resource = Null
    /\ r \in Administered /\ status[r] = "Running"
    /\ resource' = Main
    /\ status' = [status EXCEPT ![r] = "Stopped"]
    /\ at' = "Stopping" /\ arg' = r
    /\ UNCHANGED <<object, todo, playerVars, connVars>>

StopEnd ==
    /\ at = "Stopping" /\ object = Null
    /\ resource' = Null /\ at' = "Packets" /\ arg' = Null
    /\ UNCHANGED <<object, todo, playerVars, status, connVars>>

\* refresh: the folder of a resource has appeared or is gone.
Refresh(r) ==
    /\ at = "Packets" /\ resource = Null
    /\ r \in Administered /\ status[r] # "Running"
    /\ status' = [status EXCEPT ![r] =
                    IF @ = "Absent" THEN "Stopped" ELSE "Absent"]
    /\ UNCHANGED <<object, resource, mainVars, playerVars, connVars>>

\* A resource that runs is freed as well, and ~Resource checks that it does not.
RefreshRunning(r) ==
    /\ at = "Packets" /\ resource = Null
    /\ r \in Administered /\ status[r] = "Running"
    /\ fault' = "RunningFreed"
    /\ UNCHANGED <<object, resource, mainVars, playerVars, status, connVars>>

MainStep ==
    \/ SyncBegin \/ ClearPending \/ SyncEnd \/ TickEnd
    \/ \E s \in Slots : SkipPlayer(s) \/ SendPending(s)
    \/ StartSync \/ StopEnd

Packets ==
    \/ \E s \in Slots, n \in Nids, c \in Conns : Connect(s, n, c)
    \/ \E s \in Slots : Disconnect(s)
    \/ \E r \in Resources : StartBegin(r) \/ StopBegin(r) \/ Refresh(r)

-----------------------------------------------------------------------------
(* The thread of a connection.                                             *)

Accept(c) ==
    /\ thread[c] = "Free"
    /\ thread' = [thread EXCEPT ![c] = "Fresh"]
    /\ UNCHANGED <<object, resource, mainVars, playerVars, status, userdata, asks,
                   offers, fault>>

Named(n) == {s \in listed : nid[s] = n}

NoLockTaken == TRUE
ObjectFree == object = Null

\* StartupSync: two checks, then player and connection refer to each other.
StartupSync(c) ==
    /\ thread[c] = "Reading" /\ asks[c] # Null
    /\ ObjectFree
    /\ asks' = [asks EXCEPT ![c] = Null]
    /\ \/ /\ Named(asks[c]) = {}
          /\ fault' = "InvalidNid"
          /\ UNCHANGED <<object, tcp, userdata, thread>>
       \/ \E s \in Named(asks[c]) :
            \/ /\ ip[s] # Home[c]
               /\ fault' = "WrongIp"
               /\ UNCHANGED <<object, tcp, userdata, thread>>
            \/ /\ ip[s] = Home[c]
               /\ object' = c
               /\ userdata' = [userdata EXCEPT ![c] = s]
               /\ tcp' = [tcp EXCEPT ![s] = c]
               /\ thread' = [thread EXCEPT ![c] = "Syncing"]
               /\ UNCHANGED fault
    /\ UNCHANGED <<resource, mainVars, listed, nid, ip, queue, announced, synced,
                   status, offers>>

\* ... and the running resources are queued, under both locks.
QueueRunning(c) ==
    /\ thread[c] = "Syncing" /\ resource = Null
    /\ queue' = [queue EXCEPT ![userdata[c]] = @ \union Running]
    /\ announced' = [announced EXCEPT ![userdata[c]] = {}]
    /\ synced' = [synced EXCEPT ![userdata[c]] = TRUE]
    /\ object' = Null
    /\ thread' = [thread EXCEPT ![c] = "Reading"]
    /\ UNCHANGED <<resource, mainVars, listed, nid, ip, tcp, status, userdata,
                   asks, offers, fault>>

\* ResourceFile: files are read and sent under the resource lock.
FilesBegin(c) ==
    /\ thread[c] = "Reading" /\ resource = Null
    /\ \E r \in offers[c] : offers' = [offers EXCEPT ![c] = @ \ {r}]
    /\ resource' = c
    /\ thread' = [thread EXCEPT ![c] = "Sending"]
    /\ UNCHANGED <<object, mainVars, playerVars, status, userdata, asks, fault>>

FilesEnd(c) ==
    /\ thread[c] = "Sending"
    /\ resource' = Null
    /\ thread' = [thread EXCEPT ![c] = "Reading"]
    /\ UNCHANGED <<object, mainVars, playerVars, status, userdata, asks, offers,
                   fault>>

\* The read fails: what the client sent last is lost with the connection.
Close(c) ==
    /\ thread[c] \in {"Fresh", "Reading"}
    /\ thread' = [thread EXCEPT ![c] = "Closed"]
    /\ asks' = [asks EXCEPT ![c] = Null]
    /\ offers' = [offers EXCEPT ![c] = {}]
    /\ UNCHANGED <<object, resource, mainVars, playerVars, status, userdata, fault>>

ConnStep(c) == StartupSync(c) \/ QueueRunning(c) \/ FilesEnd(c)

-----------------------------------------------------------------------------
(* The update thread.                                                      *)

StillLinked(c) == tcp
Unlinked(c) == [s \in Slots |->
                  IF s = userdata[c] /\ s \in listed THEN Null ELSE tcp[s]]

\* on_client_tcp_disconnected, under the object lock.
Report(c) ==
    /\ thread[c] = "Closed" /\ object = Null
    /\ tcp' = Unlinked(c)
    /\ thread' = [thread EXCEPT ![c] = "Reported"]
    /\ UNCHANGED <<object, resource, mainVars, listed, nid, ip, queue, announced,
                   synced, status, userdata, asks, offers, fault>>

\* The connection leaves the list, and its block is free for the next one.
Reap(c) ==
    /\ thread[c] = "Reported"
    /\ thread' = [thread EXCEPT ![c] = "Free"]
    /\ userdata' = [userdata EXCEPT ![c] = Null]
    /\ UNCHANGED <<object, resource, mainVars, playerVars, status, asks, offers,
                   fault>>

UpdateStep(c) == Report(c) \/ Reap(c)

Next ==
    /\ fault = "None"
    /\ \/ (MainStep \/ Packets) /\ UNCHANGED fault
       \/ \E r \in Resources : RefreshRunning(r)
       \/ \E c \in Conns : \/ Accept(c) \/ ConnStep(c) \/ FilesBegin(c)
                           \/ Close(c) \/ UpdateStep(c)

Spec == Init /\ [][Next]_vars

Fairness ==
    /\ WF_vars(MainStep /\ UNCHANGED fault /\ fault = "None")
    /\ \A c \in Conns : WF_vars(ConnStep(c) /\ fault = "None")
    /\ \A c \in Conns : WF_vars(UpdateStep(c) /\ fault = "None")

LiveSpec == Spec /\ Fairness

-----------------------------------------------------------------------------
(* Properties                                                              *)

\* "associate this PlayerClient with the TCP client and viceversa": the
\* connection a player keeps a pointer to is not freed, and points back at it.
TcpAlive ==
    \A s \in listed : tcp[s] # Null =>
        /\ thread[tcp[s]] \notin {"Free", "Fresh", "Reported"}
        /\ userdata[tcp[s]] = s

\* No resource slips between StartupSync, start_resource and the clearing of a
\* queue: once a player is associated, what runs is queued for it or announced.
RunningAnnounced ==
    \A s \in listed, r \in Running :
        synced[s] /\ ~(at = "Starting" /\ arg = r)
        => r \in queue[s] \union announced[s]

\* Main thread and a StartupSync wait for each other's lock.
LockCycle ==
    \E c \in Conns : /\ at \in {"Starting", "Stopping"} /\ object = c
                     /\ thread[c] = "Syncing" /\ resource = Main

\* A resource that keeps running is announced to every player whose connection
\* lasts: but for the cycle of the two locks nothing makes a player wait for ever.
EveryResourceAnnounced ==
    \A s \in Slots, r \in Resources :
        (synced[s] /\ status[r] = "Running") ~>
        \/ r \in announced[s]
        \/ status[r] # "Running" \/ tcp[s] = Null
        \/ LockCycle \/ fault # "None"

-----------------------------------------------------------------------------
(* What comments and assertions of the code say, and the model refutes.    *)

\* resource_system.h:105, "iterate all resources (thread-safe)": the main thread
\* and a StartupSync never wait for each other's lock.
NoLockCycle == ~LockCycle
=============================================================================
