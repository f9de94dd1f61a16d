---------------------------- MODULE MasterServer ----------------------------
(***************************************************************************)
(* The server list: game servers keep a TCP connection to the masterserver *)
(* and tell it about themselves every 5 seconds; the masterserver keeps a  *)
(* Server per connection and writes servers.json every second.  An accept  *)
(* thread, one reader thread per connection, the update thread that reaps  *)
(* closed connections and the thread of MasterServer::update share the     *)
(* connections, the list of servers and the Server objects.                *)
(***************************************************************************)
CONSTANTS
    Hosts,      \* the game servers
    Conns,      \* connection objects; a reaped one is used again
    Null,
    Blank,      \* the Info of a Server that was told nothing yet
    Junk        \* what a read of freed memory returns

Infos == Hosts \union {Blank}

\* Where a thread is with a connection, or in the list it walks.
Accepting == [conn : Conns, at : {"Made", "Linked", "Known"}]
Reaping   == [conn : Conns, at : {"Delete", "Erase", "Drop"}]
Walks     == [todo : SUBSET Conns, page : SUBSET (Infos \union {Junk})]

ASSUME MasterAssumption ==
    Null \notin Conns \union Hosts \union Accepting \union Reaping \union Walks

VARIABLES
    running,    \* the game servers that run
    ms_conn,    \* per game server: its unbroken connection, or Null
    peer,       \* per connection: the game server that made it, or Null
    info_sent,  \* connections with an Info packet under way
    backlog,    \* made and not accepted yet
    accepting,  \* accept thread: Null or the connection and where it is
    reader,     \* per connection: where its reader thread is
    base,       \* per connection: its Server, as seen through the userdata
    info,       \* per connection: Server::info
    servers,    \* MasterServer::servers
    clients,    \* tcp_server::clients
    reaping,    \* update thread: Null or the connection and where it is
    walk,       \* MasterServer::update: Null or the list it walks, locked
    published   \* servers.json

hostVars == <<running, ms_conn, peer, info_sent>>
objVars  == <<reader, base, info>>
listVars == <<servers, clients>>
vars == <<hostVars, backlog, accepting, objVars, listVars, reaping, walk,
          published>>

TypeOK ==
    /\ running \subseteq Hosts
    /\ ms_conn \in [Hosts -> Conns \union {Null}]
    /\ peer \in [Conns -> Hosts \union {Null}]
    /\ info_sent \subseteq Conns /\ backlog \subseteq Conns
    /\ accepting \in {Null} \union Accepting
    /\ reader \in [Conns -> {"None", "Reading", "Handling", "Ended"}]
    /\ base \in [Conns -> {"None", "Alive", "Freed"}]
    /\ info \in [Conns -> Infos]
    /\ servers \subseteq {c \in Conns : peer[c] # Null}
    /\ clients \subseteq {c \in Conns : peer[c] # Null}
    /\ reaping \in {Null} \union Reaping
    /\ walk \in {Null} \union Walks
    /\ published \subseteq Infos \union {Junk}

Init ==
    /\ running = {}
    /\ ms_conn = [h \in Hosts |-> Null]
    /\ peer = [c \in Conns |-> Null]
    /\ info_sent = {} /\ backlog = {}
    /\ accepting = Null
    /\ reader = [c \in Conns |-> "None"]
    /\ base = [c \in Conns |-> "None"]
    /\ info = [c \in Conns |-> Blank]
    /\ servers = {} /\ clients = {}
    /\ reaping = Null
    /\ walk = Null
    /\ published = {}

Broken(c) == \A h \in Hosts : ms_conn[h] # c
ServersUnlocked == walk = Null

-----------------------------------------------------------------------------
(* A game server, and the network                                          *)

\* check_ms_conn connects.  The Verify packet is answered and changes nothing.
Dial(h) ==
    \E c \in Conns :
        /\ peer[c] = Null
        /\ peer' = [peer EXCEPT ![c] = h]
        /\ ms_conn' = [ms_conn EXCEPT ![h] = c]
        /\ backlog' = backlog \union {c}

\* Net::init: without a connection to the masterserver it does not start.
StartHost(h) ==
    /\ h \notin running
    /\ Dial(h)
    /\ running' = running \union {h}
    /\ UNCHANGED <<info_sent, accepting, objVars, listVars, reaping, walk,
                   published>>

\* check_ms_conn once a second: "connection lost, reconnecting..."
Reconnect(h) ==
    /\ h \in running /\ ms_conn[h] = Null
    /\ Dial(h)
    /\ UNCHANGED <<running, info_sent, accepting, objVars, listVars, reaping,
                   walk,
                   published>>

TellOnce(h) == ms_conn[h] \in backlog
TellAgain(h) == h \in running /\ ms_conn[h] # Null

\* Config::update every 5 seconds.
SendInfo(h) ==
    /\ TellAgain(h)
    /\ info_sent' = info_sent \union {ms_conn[h]}
    /\ UNCHANGED <<running, ms_conn, peer, backlog, accepting, objVars,
                   listVars,
                   reaping, walk, published>>

\* The connection breaks, or is quiet for 20 seconds, with what is under way.
Break(h) ==
    /\ ms_conn[h] # Null
    /\ ms_conn' = [ms_conn EXCEPT ![h] = Null]
    /\ info_sent' \in {info_sent, info_sent \ {ms_conn[h]}}
    /\ UNCHANGED <<running, peer, backlog, accepting, objVars, listVars,
                   reaping,
                   walk, published>>

StopHost(h) ==
    /\ h \in running
    /\ running' = running \ {h}
    /\ ms_conn' = [ms_conn EXCEPT ![h] = Null]
    /\ UNCHANGED <<peer, info_sent, backlog, accepting, objVars, listVars,
                   reaping,
                   walk, published>>

-----------------------------------------------------------------------------
(* The accept thread: tcp_server::accept_connections                       *)

\* The constructor of tcp_server_client starts the reader thread.
Accept(c) ==
    /\ accepting = Null /\ c \in backlog
    /\ backlog' = backlog \ {c}
    /\ accepting' = [conn |-> c, at |-> "Made"]
    /\ reader' = [reader EXCEPT ![c] = "Reading"]
    /\ UNCHANGED <<hostVars, base, info, listVars, reaping, walk, published>>

\* MasterServer::add_server: the Server, and its place in the list.
LinkServer ==
    /\ accepting # Null /\ accepting.at = "Made"
    /\ base' = [base EXCEPT ![accepting.conn] = "Alive"]
    /\ accepting' = [accepting EXCEPT !.at = "Linked"]
    /\ UNCHANGED <<hostVars, backlog, reader, info, listVars, reaping, walk,
                   published>>

PushServer ==
    /\ accepting # Null /\ accepting.at = "Linked" /\ ServersUnlocked
    /\ servers' = servers \union {accepting.conn}
    /\ accepting' = [accepting EXCEPT !.at = "Known"]
    /\ UNCHANGED <<hostVars, backlog, objVars, clients, reaping, walk,
                   published>>

\* The update thread holds the lock of the connections while it reaps.
PushClient ==
    /\ accepting # Null /\ accepting.at = "Known" /\ reaping = Null
    /\ clients' = clients \union {accepting.conn}
    /\ accepting' = Null
    /\ UNCHANGED <<hostVars, backlog, objVars, servers, reaping, walk,
                   published>>

AcceptStep ==
    (\E c \in Conns : Accept(c)) \/ LinkServer \/ PushServer \/ PushClient

-----------------------------------------------------------------------------
(* A reader thread: client_interface::update and Server::on_receive        *)

\* A packet that arrives before the userdata is there is ignored.
ReadInfo(c) ==
    /\ reader[c] = "Reading" /\ c \in info_sent
    /\ info_sent' = info_sent \ {c}
    /\ reader' = [reader EXCEPT
                     ![c] = IF base[c] = "None" THEN "Reading" ELSE "Handling"]
    /\ UNCHANGED <<running, ms_conn, peer, backlog, accepting, base, info,
                   listVars,
                   reaping, walk, published>>

SetInfo(c) ==
    /\ reader[c] = "Handling"
    /\ info' = [info EXCEPT ![c] = peer[c]]
    /\ reader' = [reader EXCEPT ![c] = "Reading"]
    /\ UNCHANGED <<hostVars, backlog, accepting, base, listVars, reaping, walk,
                   published>>

\* What a reader without SO_RCVTIMEO notices: a peer that is there to tell.
ToldClosed(c) == Broken(c) /\ peer[c] \in running
ConnEnds(c) == Broken(c)

\* The socket is closed at the end of the loop, after the last handler.
ReadFails(c) ==
    /\ reader[c] = "Reading" /\ c \notin info_sent
    /\ ConnEnds(c)
    /\ reader' = [reader EXCEPT ![c] = "Ended"]
    /\ UNCHANGED <<hostVars, backlog, accepting, base, info, listVars, reaping,
                   walk,
                   published>>

ReaderStep(c) == ReadInfo(c) \/ SetInfo(c) \/ ReadFails(c)

-----------------------------------------------------------------------------
(* The update thread: tcp_server::launch_update_thread and remove_server   *)

PeerGone(c) == Broken(c)
Closed(c) == reader[c] = "Ended"

Reap(c) ==
    /\ reaping = Null
    /\ c \in clients /\ Closed(c)
    /\ reaping' = [conn |-> c, at |-> "Delete"]
    /\ UNCHANGED <<hostVars, backlog, accepting, objVars, listVars, walk,
                   published>>

DeleteServer ==
    /\ reaping # Null /\ reaping.at = "Delete"
    /\ base' = [base EXCEPT ![reaping.conn] = "Freed"]
    /\ reaping' = [reaping EXCEPT !.at = "Erase"]
    /\ UNCHANGED <<hostVars, backlog, accepting, reader, info, listVars, walk,
                   published>>

KeepServer ==
    /\ reaping # Null /\ reaping.at = "Erase" /\ ServersUnlocked
    /\ reaping' = [reaping EXCEPT !.at = "Drop"]
    /\ UNCHANGED <<hostVars, backlog, accepting, objVars, listVars, walk,
                   published>>

EraseServer ==
    /\ reaping # Null /\ reaping.at = "Erase" /\ ServersUnlocked
    /\ servers' = servers \ {reaping.conn}
    /\ reaping' = [reaping EXCEPT !.at = "Drop"]
    /\ UNCHANGED <<hostVars, backlog, accepting, objVars, clients, walk,
                   published>>

\* The connection goes, with its socket and its id.
DropConn ==
    /\ reaping # Null /\ reaping.at = "Drop"
    /\ LET c == reaping.conn IN
         /\ clients' = clients \ {c}
         /\ peer' = [peer EXCEPT ![c] = Null]
         /\ reader' = [reader EXCEPT ![c] = "None"]
         /\ base' = [base EXCEPT ![c] = "None"]
         /\ info' = [info EXCEPT ![c] = Blank]
    /\ reaping' = Null
    /\ UNCHANGED <<running, ms_conn, info_sent, backlog, accepting, servers,
                   walk,
                   published>>

ReapStep ==
    (\E c \in Conns : Reap(c)) \/ DeleteServer \/ EraseServer \/ DropConn

-----------------------------------------------------------------------------
(* MasterServer::update                                                    *)

BeginWalk ==
    /\ walk = Null
    /\ walk' = [todo |-> servers, page |-> {}]
    /\ UNCHANGED <<hostVars, backlog, accepting, objVars, listVars, reaping,
                   published>>

\* get_info of the Server behind the connection, whatever is there.
Visit ==
    /\ walk # Null
    /\ \E c \in walk.todo :
         walk' = [todo |-> walk.todo \ {c},
                  page |-> walk.page \union
                             {IF base[c] = "Alive" THEN info[c] ELSE Junk}]
    /\ UNCHANGED <<hostVars, backlog, accepting, objVars, listVars, reaping,
                   published>>

Publish ==
    /\ walk # Null /\ walk.todo = {}
    /\ published' = walk.page
    /\ walk' = Null
    /\ UNCHANGED <<hostVars, backlog, accepting, objVars, listVars, reaping>>

UpdateStep == BeginWalk \/ Visit \/ Publish

Next ==
    \/ \E h \in Hosts :
        StartHost(h) \/ Reconnect(h) \/ SendInfo(h) \/ Break(h) \/ StopHost(h)
    \/ AcceptStep
    \/ \E c \in Conns : ReaderStep(c)
    \/ ReapStep
    \/ UpdateStep

Spec == Init /\ [][Next]_vars

\* Every thread of the masterserver runs, and a game server that runs keeps its
\* two timers.  A thread that waits for a list gets it in the second for which
\* the threads that walk the lists sleep: strong fairness.
FairSpec ==
    /\ Spec
    /\ \A h \in Hosts : WF_vars(Reconnect(h)) /\ WF_vars(SendInfo(h))
    /\ WF_vars(AcceptStep) /\ WF_vars(ReapStep) /\ WF_vars(UpdateStep)
    /\ SF_vars(PushServer) /\ SF_vars(PushClient) /\ SF_vars(EraseServer)
    /\ \A c \in Conns : WF_vars(ReaderStep(c))

-----------------------------------------------------------------------------
(* What holds                                                              *)

\* A Server in the list exists, except while remove_server is between deleting
\* it and taking it off the list: only then can a walk read freed memory.
ListedServersExist ==
    \A c \in servers : base[c] = "Alive"
                       \/ reaping = [conn |-> c, at |-> "Erase"]

\* A packet handler works on a Server that exists, though the update thread
\* deletes it without a lock: it waits for the end of the reader thread's loop.
HandlerServerExists ==
    \A c \in Conns : reader[c] = "Handling" => base[c] = "Alive"

\* A game server that keeps a connection gets into the list and stays in it,
\* also if its first Info packets come before its Server does.
ConnectedGetsListed ==
    \A h \in Hosts :
        <>[](ms_conn[h] # Null) => <>[](h \in published)

\* A game server that is gone for good disappears from the list for good,
\* whatever became of its connections.
GoneGetsDelisted ==
    \A h \in Hosts :
        <>[](h \notin running) => <>[](h \notin published)
=============================================================================
