----------------------------- MODULE Replication -----------------------------
(***************************************************************************)
(* How the server's objects reach the clients: librg's visibility turns    *)
(* into Create and Hide packets, joins and exits into broadcasts, and every*)
(* client keeps a copy of the objects it was told about.  enet keeps the   *)
(* order of the packets of one channel and none between channels, and a    *)
(* client drops what arrives on World until it is in the game.             *)
(*                                                                         *)
(* A member of Players is one connection and the client process behind it, *)
(* a member of Objects one object that is not a player; each lives at most *)
(* once, and its NID may be given to another when it is gone.              *)
(***************************************************************************)
EXTENDS Naturals, Sequences, FiniteSets

CONSTANTS
    Players,    \* connections, each with the client process that made it
    Objects,    \* vehicles, grenades, pickups, ...: what is not a player
    Nids,       \* the ids of the pool
    MaxQueue,   \* bound: the timer writes no view while a queue is this long
    Null

Entity == Players \union Objects

ASSUME ReplicationAssumption ==
    /\ Players \intersect Objects = {}
    /\ Null \notin Entity \union Nids
    /\ IsFiniteSet(Nids)
    /\ MaxQueue \in Nat

VARIABLES
    alive,          \* server: the entities that exist
    nid,            \* server: the NID an entity has, or had when it existed
    joined,         \* server: PlayerClient::joined
    snapshot,       \* librg: per observer, the NIDs of its last world write
    chan,           \* per client: the packets under way on channel PlayerClient
    world,          \* per client: the DestroyObject packets on channel World
    replica,        \* client: net_objects, NID -> what it stands for
    player_clients, \* client: the listed PlayerClients
    spawned,        \* client: the NIDs whose object is spawned in the game
    announced,      \* client: the players whose ON_PLAYER_JOIN it has run
    in_game,        \* client: g_game_status->is_in_game()
    failed          \* clients that ended in a failed check()

serverVars == <<alive, nid, joined, snapshot>>
netVars    == <<chan, world>>
clientVars == <<replica, player_clients, spawned, announced, in_game, failed>>
vars == <<serverVars, netVars, clientVars>>

Clients == Players \intersect alive
EverTracked == {nid[e] : e \in Entity}
Tracked == {nid[e] : e \in alive}
FreeNids == Nids \ Tracked

\* The packets on channel PlayerClient.  The Create and Hide packets of one
\* world write are one message: they name different NIDs, so that their order
\* among themselves, and where a World packet falls between them, is the same
\* to the client as all of them at once.
InitPacket   == [act |-> "Init", shown |-> {}, hidden |-> {}]
ViewPacket(C, H) == [act |-> "View", shown |-> C, hidden |-> H]
JoinPacket(q) == [act |-> "Join", shown |-> {q}, hidden |-> {}]
QuitPacket(q) == [act |-> "Quit", shown |-> {}, hidden |-> {q}]
Messages == [act : {"Init", "View", "Join", "Quit"},
             shown : SUBSET Entity, hidden : SUBSET Entity]

TypeOK ==
    /\ alive \subseteq Entity
    /\ nid \in [Entity -> Nids \union {Null}]
    /\ joined \subseteq Players
    /\ snapshot \in [Players -> SUBSET Nids]
    /\ chan \in [Players -> Seq(Messages)]
    /\ world \in [Players -> Seq(Objects)]
    /\ replica \in [Players -> [Nids -> Entity \union {Null}]]
    /\ player_clients \in [Players -> SUBSET Players]
    /\ spawned \in [Players -> SUBSET Nids]
    /\ announced \in [Players -> SUBSET Players]
    /\ in_game \subseteq Players
    /\ failed \subseteq Players

Init ==
    /\ alive = {}
    /\ nid = [e \in Entity |-> Null]
    /\ joined = {}
    /\ snapshot = [p \in Players |-> {}]
    /\ chan = [p \in Players |-> <<>>]
    /\ world = [p \in Players |-> <<>>]
    /\ replica = [p \in Players |-> [n \in Nids |-> Null]]
    /\ player_clients = [p \in Players |-> {}]
    /\ spawned = [p \in Players |-> {}]
    /\ announced = [p \in Players |-> {}]
    /\ in_game = {}
    /\ failed = {}

-----------------------------------------------------------------------------
(* The server                                                              *)

\* send_broadcast_joined: it calls send_broadcast_impl, and so every listed
\* client gets the packet, joined or not.
Everybody(ignored) == Clients
JoinedOnes(ignored) == joined \ {ignored}
Recipients(ignored) == Clients \ {ignored}

NewestFirst(queues, S, msg) ==
    [p \in Players |-> IF p \in S THEN <<msg>> \o queues[p] ELSE queues[p]]
Broadcast(queues, S, msg) ==
    [p \in Players |-> IF p \in S THEN Append(queues[p], msg) ELSE queues[p]]

\* What the write tells observer p that sees the NIDs of view: a Create for what
\* its last write had not, a Hide for what it had and still exists.  An untracked
\* NID has no user data any more and the callback ignores it.
Appears(p, view) == {e \in alive' : nid'[e] \in view \ snapshot[p]}
NeverVanishes(p, view) == {}
Vanishes(p, view) == {e \in alive' : nid'[e] \in snapshot[p] \ view}

\* WorldRg::update, after alive' and nid': every entity writes, only the packets
\* to players matter.  What an observer sees depends on the positions: any of
\* the tracked NIDs except its own.  out is what is under way before the write.
WorldUpdate(out, views) ==
    LET sees(p) == views[p] \ {nid'[p]} IN
    /\ snapshot' = [p \in Players |-> IF p \in Players \intersect alive'
                                      THEN sees(p) ELSE {}]
    /\ chan' = [p \in Players |->
                  IF /\ p \in alive'
                     /\ Appears(p, sees(p)) \union Vanishes(p, sees(p)) # {}
                  THEN Append(out[p], ViewPacket(Appears(p, sees(p)),
                                                 Vanishes(p, sees(p))))
                  ELSE out[p]]

Views(As, Ns) == [Players \intersect As -> SUBSET Ns]

\* ENET_EVENT_TYPE_CONNECT: the Player takes a NID and is tracked.
Connect(p) ==
    /\ p \notin alive /\ nid[p] = Null
    /\ \E n \in FreeNids :
         /\ nid' = [nid EXCEPT ![p] = n]
         /\ alive' = alive \union {p}
    /\ UNCHANGED <<joined, snapshot, netVars, clientVars>>

\* nh::player_client::init answers the first packet of the client with its NID.
SendInit(p) ==
    /\ p \in Clients
    /\ replica[p][nid[p]] # p /\ \A i \in DOMAIN chan[p] : chan[p][i] # InitPacket
    /\ chan' = [chan EXCEPT ![p] = Append(@, InitPacket)]
    /\ UNCHANGED <<serverVars, world, clientVars>>

\* nh::player_client::join -> set_joined -> startup_sync -> sync_broadcast: a
\* Create packet with just_joined to everybody else.
Join(p) ==
    /\ p \in (Clients \intersect in_game) \ joined
    /\ joined' = joined \union {p}
    /\ chan' = Broadcast(chan, Recipients(p), JoinPacket(p))
    /\ UNCHANGED <<alive, nid, snapshot, world, clientVars>>

\* remove_player_client: the destructor tells everybody else, then the Player is
\* freed: untracked, its NID back in the pool.  The process behind p is gone.
Disconnect(p) ==
    /\ p \in Clients
    /\ alive' = alive \ {p}
    /\ joined' = joined \ {p}
    /\ snapshot' = [snapshot EXCEPT ![p] = {}]
    /\ chan' = [Broadcast(chan, Recipients(p), QuitPacket(p)) EXCEPT ![p] = <<>>]
    /\ world' = [world EXCEPT ![p] = <<>>]
    /\ replica' = [replica EXCEPT ![p] = [n \in Nids |-> Null]]
    /\ player_clients' = [player_clients EXCEPT ![p] = {}]
    /\ spawned' = [spawned EXCEPT ![p] = {}]
    /\ announced' = [announced EXCEPT ![p] = {}]
    /\ in_game' = in_game \ {p}
    /\ failed' = failed \ {p}
    /\ UNCHANGED nid

\* spawn_net_object and its kin: track, list, spawn, and write at once.
Spawn(o) ==
    /\ o \notin alive /\ nid[o] = Null
    /\ \E n \in FreeNids :
         /\ nid' = [nid EXCEPT ![o] = n]
         /\ alive' = alive \union {o}
         /\ \E views \in Views(alive', Tracked') : WorldUpdate(chan, views)
    /\ UNCHANGED <<joined, world, clientVars>>

\* destroy_net_object: tell everybody, free the object, and write at once.
DestroyObject(o) ==
    /\ o \in alive \intersect Objects
    /\ alive' = alive \ {o}
    /\ world' = Broadcast(world, Clients, o)
    /\ UNCHANGED nid
    /\ \E views \in Views(alive', Tracked') : WorldUpdate(chan, views)
    /\ UNCHANGED <<joined, clientVars>>

\* sync_net_objects by its 250 ms timer: objects and players have moved.
TimedUpdate ==
    /\ \A p \in Clients : Len(chan[p]) < MaxQueue
    /\ UNCHANGED <<alive, nid>>
    /\ \E views \in Views(alive, Tracked) : WorldUpdate(chan, views)
    /\ UNCHANGED <<joined, world, clientVars>>

-----------------------------------------------------------------------------
(* A client                                                                *)

Runs(p) == p \in Clients \ failed

\* Its first look at the loaded game: from now on World packets count, and the
\* Join packet is on its way to the server.
EnterGame(p) ==
    /\ Runs(p) /\ p \notin in_game
    /\ replica[p][nid[p]] = p
    /\ in_game' = in_game \union {p}
    /\ spawned' = [spawned EXCEPT ![p] = @ \union {nid[p]}]
    /\ UNCHANGED <<serverVars, netVars, replica, player_clients, announced, failed>>

Received(p) == chan' = [chan EXCEPT ![p] = Tail(@)]

\* What the client holds under e's NID is of e's class.  If not, a Create for a
\* player makes a PlayerClient the map of net objects does not take, and a Create
\* for another object is read into the object that is there.
Fits(p, e) ==
    LET held == replica[p][nid[e]] IN
    held = Null \/ (held \in Players <=> e \in Players)

\* What p's map holds after a message that shows the entities of S.
Shown(p, S) ==
    [n \in Nids |->
        IF \E e \in S : nid[e] = n /\ Fits(p, e)
        THEN CHOOSE e \in S : nid[e] = n ELSE replica[p][n]]

\* The NIDs whose object is spawned for S: the one that is listed, if any is.
SpawnedFor(p, S) == {nid[e] : e \in {x \in S : x \in Objects \/ Fits(p, x)}}

\* The Players that a Create packet finds under a NID are taken over.
TakenOver(p, S) == {replica[p][nid[e]] : e \in S \intersect Players} \intersect Players

\* net_handlers' object_instance_sync, NetObjectActionSyncType_Create and _Hide.
RecvView(p) ==
    /\ Runs(p) /\ chan[p] # <<>>
    /\ LET m == Head(chan[p]) IN
         /\ m.act = "View"
         /\ Received(p)
         /\ replica' = [replica EXCEPT ![p] = Shown(p, m.shown)]
         /\ player_clients' = [player_clients EXCEPT
                ![p] = (@ \ TakenOver(p, m.shown)) \union (m.shown \intersect Players)]
         /\ spawned' = [spawned EXCEPT
                ![p] = (@ \union SpawnedFor(p, m.shown)) \ {nid[e] : e \in m.hidden}]
    /\ UNCHANGED <<serverVars, world, announced, in_game, failed>>

\* A Create with just_joined: the join event runs if the player was not joined
\* here before, and every Create before this one has made him joined.
RecvJoin(p) ==
    /\ Runs(p) /\ chan[p] # <<>>
    /\ LET m == Head(chan[p]) IN
         /\ m.act = "Join"
         /\ Received(p)
         /\ replica' = [replica EXCEPT ![p] = Shown(p, m.shown)]
         /\ player_clients' = [player_clients EXCEPT
                ![p] = (@ \ TakenOver(p, m.shown)) \union m.shown]
         /\ spawned' = [spawned EXCEPT
                ![p] = @ \union SpawnedFor(p, m.shown)]
         /\ announced' = [announced EXCEPT
                ![p] = IF TakenOver(p, m.shown) = {} THEN @ \union m.shown ELSE @]
    /\ UNCHANGED <<serverVars, world, in_game, failed>>

\* NetObjectActionSyncType_Destroy: nothing if the NID holds no Player; a check
\* fails if it is the local one.
RecvQuit(p) ==
    /\ Runs(p) /\ chan[p] # <<>>
    /\ LET m == Head(chan[p])
           gone == {replica[p][nid[q]] : q \in m.hidden} \intersect Players IN
         /\ m.act = "Quit"
         /\ Received(p)
         /\ failed' = IF p \in gone THEN failed \union {p} ELSE failed
         /\ replica' = [replica EXCEPT ![p] =
                [n \in Nids |-> IF @[n] \in gone THEN Null ELSE @[n]]]
         /\ player_clients' = [player_clients EXCEPT ![p] = @ \ gone]
         /\ spawned' = [spawned EXCEPT ![p] = @ \ {nid[q] : q \in gone}]
    /\ UNCHANGED <<serverVars, world, announced, in_game>>

\* add_local: the client makes its own PlayerClient under the NID it was given.
RecvInit(p) ==
    /\ Runs(p) /\ chan[p] # <<>> /\ Head(chan[p]) = InitPacket
    /\ Received(p)
    /\ replica' = [replica EXCEPT ![p][nid[p]] = IF @ = Null THEN p ELSE @]
    /\ player_clients' = [player_clients EXCEPT ![p] = @ \union {p}]
    /\ UNCHANGED <<serverVars, world, spawned, announced, in_game, failed>>

\* nh::world::destroy_object: dropped until the client is in the game, and
\* destroy_net_object checks that what the NID holds is not a Player.
RecvDestroyObject(p) ==
    /\ Runs(p) /\ world[p] # <<>>
    /\ world' = [world EXCEPT ![p] = Tail(@)]
    /\ LET n == nid[Head(world[p])]
           held == replica[p][n] IN
         IF p \notin in_game \/ held = Null
         THEN UNCHANGED <<replica, spawned, failed>>
         ELSE IF held \in Players
         THEN /\ failed' = failed \union {p}
              /\ UNCHANGED <<replica, spawned>>
         ELSE /\ replica' = [replica EXCEPT ![p][n] = Null]
              /\ spawned' = [spawned EXCEPT ![p] = @ \ {n}]
              /\ UNCHANGED failed
    /\ UNCHANGED <<serverVars, chan, player_clients, announced, in_game>>

Receive(p) ==
    \/ RecvInit(p)
    \/ RecvView(p)
    \/ RecvJoin(p)
    \/ RecvQuit(p)
    \/ RecvDestroyObject(p)

Next ==
    \/ \E p \in Players :
        \/ Connect(p) \/ SendInit(p) \/ Join(p) \/ Disconnect(p)
        \/ EnterGame(p)
        \/ Receive(p)
    \/ \E o \in Objects : Spawn(o) \/ DestroyObject(o)
    \/ TimedUpdate

Spec == Init /\ [][Next]_vars

-----------------------------------------------------------------------------
(* What holds                                                              *)

\* No packet under way to a client names its own NID: "A localplayer cannot
\* receive its own NID" (nh_player_client.cpp), however NIDs are reused.
OwnNidNeverNamed ==
    \A p \in Clients : \A i \in DOMAIN chan[p] :
        \A e \in chan[p][i].shown \union chan[p][i].hidden : nid[e] # nid[p]

\* A NID that an object other than a player has, or had.
ObjectNid(n) == \E o \in Objects : nid[o] = n

\* Once a client has read its PlayerClient channel it lists no player that left,
\* though NIDs pass from player to player; the exception are players whose NID
\* an object had before, which a late DestroyObject may have left behind.
DepartedUnlisted ==
    \A p \in Clients \ failed : chan[p] = <<>> =>
        \A q \in player_clients[p] : q \in alive \/ ObjectNid(nid[q])

\* Once a client has read its PlayerClient channel, a joined player whom librg
\* counts as seen by it is the one it holds under that NID, although a NID that
\* changes hands between two world writes looks to librg like one entity.
SeenPlayersHeld ==
    \A p \in Clients \ failed : chan[p] = <<>> =>
        \A q \in joined \ {p} : nid[q] \in snapshot[p] =>
            replica[p][nid[q]] = q \/ ObjectNid(nid[q])

\* Once a client has read its PlayerClient channel, an object whose NID no other
\* entity had before is spawned there exactly when librg counts it as seen.
ObjectsMatchView ==
    \A p \in Clients \ failed : chan[p] = <<>> =>
        \A o \in alive \intersect Objects :
            \/ \E e \in Entity \ {o} : nid[e] = nid[o]
            \/ nid[o] \in spawned[p] <=> nid[o] \in snapshot[p]
=============================================================================
