-------------------------- MODULE ReplicationProofs --------------------------
(***************************************************************************)
(* Proofs about Replication.  The properties speak of clients that have    *)
(* read their channel; the invariant says for every client, behind or not, *)
(* what the packets under way to it will have told it in the end.          *)
(***************************************************************************)
EXTENDS Replication, TLAPS

Mentioned(m) == m.shown \union m.hidden

\* No other entity has, or had, the NID of e.
Unshared(e) == \A f \in Entity \ {e} : nid[f] # nid[e]

\* Entities that exist have NIDs of their own.
Identified ==
    /\ \A e \in alive : nid[e] \in Nids
    /\ \A e, f \in alive : nid[e] = nid[f] => e = f

\* What librg remembers of the view of p, and what it may not hold.
ViewOK(p) ==
    /\ nid[p] \notin snapshot[p]
    /\ \A n \in snapshot[p] : \E e \in Entity : nid[e] = n

\* With the connection goes everything the client held and was to get.
ClearedOK(p) ==
    p \notin alive =>
        /\ p \notin joined
        /\ snapshot[p] = {} /\ chan[p] = <<>> /\ world[p] = <<>>
        /\ replica[p] = [n \in Nids |-> Null]
        /\ player_clients[p] = {} /\ spawned[p] = {}

\* A packet under way to p.
MessageOK(p, m) ==
    /\ \A e \in Mentioned(m) : nid[e] \in Nids /\ nid[e] # nid[p]
    /\ \A e, f \in m.shown : nid[e] = nid[f] => e = f
    /\ m.shown \intersect m.hidden = {}
    /\ m.act = "Init" => Mentioned(m) = {}
    /\ m.act = "Join" => \E q \in Players : m = JoinPacket(q)
    /\ m.act = "Quit" => \E q \in Players \ alive : m = QuitPacket(q)

ChanOK(p) == \A i \in DOMAIN chan[p] : MessageOK(p, chan[p][i])

WorldOK(p) ==
    \A i \in DOMAIN world[p] :
        world[p][i] \in Objects \ alive /\ nid[world[p][i]] \in Nids

\* The map of a client: everything lies under its NID, under the client's own
\* nothing but its player; a listed player is in the map, but where an object
\* was in its way.
HeldOK(p) ==
    /\ \A n \in Nids : replica[p][n] # Null => nid[replica[p][n]] = n
    /\ p \in alive => replica[p][nid[p]] \in {Null, p}
    /\ \A n \in spawned[p] : \E e \in Entity : nid[e] = n
    /\ \A q \in player_clients[p] :
         /\ nid[q] \in Nids
         /\ ObjectNid(nid[q]) \/ replica[p][nid[q]] = q

\* A client that lists, or is to be shown, a player that left is told so later.
QuitComing(p) ==
    \A q \in Players \ alive :
        /\ q \in player_clients[p] =>
             \/ ObjectNid(nid[q])
             \/ \E i \in DOMAIN chan[p] : chan[p][i] = QuitPacket(q)
        /\ \A i \in DOMAIN chan[p] : q \in chan[p][i].shown =>
             \E j \in DOMAIN chan[p] : j > i /\ chan[p][j] = QuitPacket(q)

\* Once an entity that exists is held, or shown, no later packet is about one
\* that had the NID before.
NoLaterOther(p) ==
    \A e \in alive :
        /\ replica[p][nid[e]] = e =>
             \A i \in DOMAIN chan[p] : \A f \in Mentioned(chan[p][i]) :
                 nid[f] = nid[e] => f = e
        /\ \A i \in DOMAIN chan[p] : e \in chan[p][i].shown =>
             \A j \in DOMAIN chan[p] : j > i =>
                 \A f \in Mentioned(chan[p][j]) : nid[f] = nid[e] => f = e

\* A joined player that librg counts as seen is held, or will be shown.
SeenComing(p) ==
    p \in alive =>
        \A q \in joined \ {p} : nid[q] \in snapshot[p] =>
            \/ ObjectNid(nid[q])
            \/ replica[p][nid[q]] = q
            \/ \E i \in DOMAIN chan[p] : q \in chan[p][i].shown

\* The last packet about an object says of it what librg remembers, and if there
\* is none, what is spawned does.
LastSays(p, o, i) ==
    /\ o \in Mentioned(chan[p][i])
    /\ \A j \in DOMAIN chan[p] : j > i => o \notin Mentioned(chan[p][j])
    /\ o \in chan[p][i].shown <=> nid[o] \in snapshot[p]
ObjectComing(p) ==
    p \in alive =>
        \A o \in alive \intersect Objects : Unshared(o) =>
            \/ /\ \A i \in DOMAIN chan[p] : o \notin Mentioned(chan[p][i])
               /\ nid[o] \in spawned[p] <=> nid[o] \in snapshot[p]
            \/ \E i \in DOMAIN chan[p] : LastSays(p, o, i)

Local(p) ==
    /\ ViewOK(p) /\ ClearedOK(p) /\ ChanOK(p) /\ WorldOK(p) /\ HeldOK(p)
    /\ QuitComing(p) /\ NoLaterOther(p) /\ SeenComing(p) /\ ObjectComing(p)

ReplicationInv == TypeOK /\ Identified /\ \A p \in Players : Local(p)

-----------------------------------------------------------------------------
(* Queues                                                                  *)

Appended(s, m, t) ==
    \E L \in Nat : /\ DOMAIN t = DOMAIN s \union {L} /\ t[L] = m
                   /\ \A i \in DOMAIN s : i \in Nat /\ i < L /\ t[i] = s[i]

LEMMA AppendAt ==
    ASSUME NEW S, NEW s \in Seq(S), NEW x \in S
    PROVE  Append(s, x) \in Seq(S) /\ Appended(s, x, Append(s, x))
<1> DEFINE L == Len(s) + 1
<1>1. L \in Nat /\ DOMAIN s = 1 .. Len(s) /\ DOMAIN Append(s, x) = 1 .. L
  OBVIOUS
<1>2. Append(s, x)[L] = x /\ \A i \in 1 .. Len(s) : Append(s, x)[i] = s[i]
  OBVIOUS
<1>3. 1 .. L = (1 .. Len(s)) \union {L} /\ \A i \in 1 .. Len(s) : i \in Nat /\ i < L
  OBVIOUS
<1>4. QED
  BY <1>1, <1>2, <1>3 DEF Appended

Read(s, t) ==
    /\ 1 \in DOMAIN s
    /\ \A i \in DOMAIN t : i \in Nat /\ i >= 1 /\ i + 1 \in DOMAIN s /\ t[i] = s[i + 1]
    /\ \A i \in DOMAIN s : i \in Nat /\ i >= 1 /\ (i = 1 \/ i - 1 \in DOMAIN t)

LEMMA TailRead ==
    ASSUME NEW S, NEW s \in Seq(S), s # <<>>
    PROVE  Tail(s) \in Seq(S) /\ Head(s) \in S /\ Head(s) = s[1] /\ Read(s, Tail(s))
<1>1. Len(s) \in Nat \ {0} /\ DOMAIN s = 1 .. Len(s)
  OBVIOUS
<1>2. Tail(s) \in Seq(S) /\ DOMAIN Tail(s) = 1 .. Len(s) - 1
  OBVIOUS
<1>3. \A i \in 1 .. Len(s) - 1 : Tail(s)[i] = s[i + 1]
  OBVIOUS
<1>4. Head(s) = s[1] /\ s[1] \in S
  OBVIOUS
<1>5. QED
  BY <1>1, <1>2, <1>3, <1>4 DEF Read

-----------------------------------------------------------------------------
(* Types                                                                   *)

LEMMA NullIsNone == Null \notin Nids /\ Null \notin Entity /\ Players \intersect Objects = {}
  BY ReplicationAssumption DEF ReplicationAssumption

LEMMA PacketTypes ==
    /\ InitPacket \in Messages
    /\ \A C, H \in SUBSET Entity : ViewPacket(C, H) \in Messages
    /\ \A q \in Players : JoinPacket(q) \in Messages /\ QuitPacket(q) \in Messages
  BY DEF InitPacket, ViewPacket, JoinPacket, QuitPacket, Messages, Entity

LEMMA BroadcastTypes ==
    ASSUME NEW S, NEW queues \in [Players -> Seq(S)], NEW R, NEW m \in S
    PROVE  Broadcast(queues, R, m) \in [Players -> Seq(S)]
  BY AppendAt DEF Broadcast

\* What a world write does to an observer.
NowSeen(p) == {e \in alive' : nid'[e] \in snapshot'[p] \ snapshot[p]}
NowUnseen(p) == {e \in alive' : nid'[e] \in snapshot[p] \ snapshot'[p]}
Written(p) ==
    /\ p \notin alive' => snapshot'[p] = {} /\ chan'[p] = chan[p]
    /\ p \in alive' =>
         /\ nid'[p] \notin snapshot'[p]
         /\ \A n \in snapshot'[p] : \E e \in alive' : nid'[e] = n
         /\ \/ chan'[p] = Append(chan[p], ViewPacket(NowSeen(p), NowUnseen(p)))
            \/ /\ NowSeen(p) = {} /\ NowUnseen(p) = {}
               /\ chan'[p] = chan[p]

LEMMA WorldUpdateWrites ==
    ASSUME TypeOK, alive' \in SUBSET Entity, nid' \in [Entity -> Nids \union {Null}],
           NEW views \in Views(alive', Tracked'), WorldUpdate(chan, views),
           \A e \in alive' : nid'[e] \in Nids
    PROVE  /\ snapshot' \in [Players -> SUBSET Nids]
           /\ chan' \in [Players -> Seq(Messages)]
           /\ \A p \in Players : Written(p)
<1> DEFINE sees(p) == views[p] \ {nid'[p]}
           told(p) == Appears(p, sees(p)) \union Vanishes(p, sees(p)) # {}
<1>1. Tracked' \in SUBSET Nids
  BY DEF Tracked
<1>2. \A p \in Players \intersect alive' : views[p] \in SUBSET Tracked'
  BY DEF Views
<1>3. snapshot' = [p \in Players |-> IF p \in Players \intersect alive'
                                    THEN sees(p) ELSE {}]
  BY DEF WorldUpdate
<1>4. chan' = [p \in Players |->
                 IF p \in alive' /\ told(p)
                 THEN Append(chan[p], ViewPacket(Appears(p, sees(p)),
                                                 Vanishes(p, sees(p))))
                 ELSE chan[p]]
  BY DEF WorldUpdate
<1>5. \A p \in Players \intersect alive' :
        /\ snapshot'[p] = sees(p)
        /\ Appears(p, sees(p)) = NowSeen(p) /\ Vanishes(p, sees(p)) = NowUnseen(p)
  BY <1>3 DEF Appears, Vanishes, NowSeen, NowUnseen
<1>6. \A p \in Players : NowSeen(p) \in SUBSET Entity /\ NowUnseen(p) \in SUBSET Entity
  BY DEF NowSeen, NowUnseen
<1>7. snapshot' \in [Players -> SUBSET Nids]
  BY <1>1, <1>2, <1>3
<1>8. chan' \in [Players -> Seq(Messages)]
  <2>1. \A p \in Players : chan[p] \in Seq(Messages)
    BY DEF TypeOK
  <2>2. \A p \in Players \intersect alive' :
          ViewPacket(Appears(p, sees(p)), Vanishes(p, sees(p))) \in Messages
    BY <1>5, <1>6, PacketTypes
  <2>3. \A p \in Players \intersect alive' :
          Append(chan[p], ViewPacket(Appears(p, sees(p)), Vanishes(p, sees(p))))
            \in Seq(Messages)
    BY <2>1, <2>2, AppendAt
  <2>4. QED
    BY <1>4, <2>1, <2>3
<1>9. ASSUME NEW p \in Players PROVE Written(p)
  <2>1. CASE p \notin alive'
    BY <1>3, <1>4, <2>1 DEF Written
  <2>2. CASE p \in alive'
    <3>1. nid'[p] \notin snapshot'[p]
      BY <1>5, <2>2
    <3>2. \A n \in snapshot'[p] : \E e \in alive' : nid'[e] = n
      BY <1>2, <1>5, <2>2, ZenonT(30) DEF Tracked
    <3>3. CASE told(p)
      BY <1>4, <1>5, <2>2, <3>1, <3>2, <3>3 DEF Written
    <3>4. CASE ~told(p)
      BY <1>4, <1>5, <2>2, <3>1, <3>2, <3>4 DEF Written
    <3>5. QED
      BY <3>3, <3>4
  <2>3. QED
    BY <2>1, <2>2
<1>10. QED
  BY <1>7, <1>8, <1>9

LEMMA InitTypes == Init => TypeOK
  BY DEF Init, TypeOK

LEMMA StepTypes ==
    ASSUME TypeOK, Identified, \A p \in Players : ChanOK(p), [Next]_vars
    PROVE  TypeOK'
<1> USE DEF TypeOK, serverVars, netVars, clientVars
<1>1. ASSUME NEW p \in Players, Connect(p) PROVE TypeOK'
  BY <1>1 DEF Connect, FreeNids, Entity
<1>2. ASSUME NEW p \in Players, SendInit(p) PROVE TypeOK'
  BY <1>2, PacketTypes, AppendAt DEF SendInit
<1>3. ASSUME NEW p \in Players, Join(p) PROVE TypeOK'
  BY <1>3, PacketTypes, BroadcastTypes DEF Join
<1>4. ASSUME NEW p \in Players, Disconnect(p) PROVE TypeOK'
  <2>1. Broadcast(chan, Recipients(p), QuitPacket(p)) \in [Players -> Seq(Messages)]
    BY PacketTypes, BroadcastTypes
  <2>2. chan' \in [Players -> Seq(Messages)] /\ world' \in [Players -> Seq(Objects)]
    BY <1>4, <2>1 DEF Disconnect
  <2>3. QED
    BY <1>4, <2>2 DEF Disconnect
<1>5. ASSUME NEW p \in Players, EnterGame(p) PROVE TypeOK'
  BY <1>5 DEF EnterGame, Runs, Clients, Identified
<1>6. ASSUME NEW o \in Objects, Spawn(o) PROVE TypeOK'
  <2>1. /\ alive' \in SUBSET Entity /\ nid' \in [Entity -> Nids \union {Null}]
        /\ \A e \in alive' : nid'[e] \in Nids
    BY <1>6 DEF Spawn, FreeNids, Entity, Identified
  <2>2. PICK views \in Views(alive', Tracked') : WorldUpdate(chan, views)
    BY <1>6 DEF Spawn
  <2>3. snapshot' \in [Players -> SUBSET Nids] /\ chan' \in [Players -> Seq(Messages)]
    BY <2>1, <2>2, WorldUpdateWrites
  <2>4. QED
    BY <1>6, <2>1, <2>3 DEF Spawn
<1>7. ASSUME NEW o \in Objects, DestroyObject(o) PROVE TypeOK'
  <2>1. /\ alive' \in SUBSET Entity /\ nid' \in [Entity -> Nids \union {Null}]
        /\ \A e \in alive' : nid'[e] \in Nids
    BY <1>7 DEF DestroyObject, Entity, Identified
  <2>2. PICK views \in Views(alive', Tracked') : WorldUpdate(chan, views)
    BY <1>7 DEF DestroyObject
  <2>3. snapshot' \in [Players -> SUBSET Nids] /\ chan' \in [Players -> Seq(Messages)]
    BY <2>1, <2>2, WorldUpdateWrites
  <2>4. world' \in [Players -> Seq(Objects)]
    BY <1>7, BroadcastTypes DEF DestroyObject
  <2>5. QED
    BY <1>7, <2>1, <2>3, <2>4 DEF DestroyObject
<1>8. ASSUME TimedUpdate PROVE TypeOK'
  <2>1. /\ alive' \in SUBSET Entity /\ nid' \in [Entity -> Nids \union {Null}]
        /\ \A e \in alive' : nid'[e] \in Nids
    BY <1>8 DEF TimedUpdate, Identified
  <2>2. PICK views \in Views(alive', Tracked') : WorldUpdate(chan, views)
    BY <1>8 DEF TimedUpdate, Tracked
  <2>3. snapshot' \in [Players -> SUBSET Nids] /\ chan' \in [Players -> Seq(Messages)]
    BY <2>1, <2>2, WorldUpdateWrites
  <2>4. QED
    BY <1>8, <2>1, <2>3 DEF TimedUpdate
<1>9. ASSUME NEW p \in Players, Receive(p) PROVE TypeOK'
  <2>0. p \in alive /\ nid[p] \in Nids
    BY <1>9 DEF Receive, RecvInit, RecvView, RecvJoin, RecvQuit, RecvDestroyObject,
                Runs, Clients, Identified
  <2>1. ASSUME chan[p] # <<>>
        PROVE  /\ Tail(chan[p]) \in Seq(Messages)
               /\ Head(chan[p]).shown \in SUBSET Entity
               /\ Head(chan[p]).hidden \in SUBSET Entity
               /\ \A e \in Mentioned(Head(chan[p])) : nid[e] \in Nids
    <3>1. Head(chan[p]) = chan[p][1] /\ 1 \in DOMAIN chan[p] /\ Head(chan[p]) \in Messages
      BY <2>1, TailRead DEF Read
    <3>2. QED
      BY <2>1, <3>1, TailRead DEF Messages, ChanOK, MessageOK
  <2>2. CASE RecvInit(p)
    <3>1. chan' \in [Players -> Seq(Messages)]
      BY <2>1, <2>2 DEF RecvInit, Received
    <3>2. replica' \in [Players -> [Nids -> Entity \union {Null}]]
      BY <2>0, <2>2 DEF RecvInit, Entity
    <3>3. QED
      BY <2>2, <3>1, <3>2 DEF RecvInit
  <2>3. ASSUME NEW S \in SUBSET Entity, \A e \in S : nid[e] \in Nids
        PROVE  /\ Shown(p, S) \in [Nids -> Entity \union {Null}]
               /\ SpawnedFor(p, S) \in SUBSET Nids
    BY <2>3 DEF Shown, SpawnedFor
  <2>4. CASE RecvView(p)
    <3> DEFINE m == Head(chan[p])
    <3>1. m.shown \in SUBSET Entity /\ \A e \in m.shown : nid[e] \in Nids
      BY <2>1, <2>4 DEF RecvView, Mentioned
    <3>2. chan' \in [Players -> Seq(Messages)]
      BY <2>1, <2>4 DEF RecvView, Received
    <3>3. replica' \in [Players -> [Nids -> Entity \union {Null}]]
      BY <2>3, <2>4, <3>1 DEF RecvView
    <3>4. spawned' \in [Players -> SUBSET Nids]
      BY <2>3, <2>4, <3>1 DEF RecvView
    <3>5. player_clients' \in [Players -> SUBSET Players]
      BY <2>4 DEF RecvView
    <3>6. QED
      BY <2>4, <3>2, <3>3, <3>4, <3>5 DEF RecvView
  <2>5. CASE RecvJoin(p)
    <3> DEFINE m == Head(chan[p])
    <3>1. m.shown \in SUBSET Players /\ \A e \in m.shown : nid[e] \in Nids
      <4>1. m = chan[p][1] /\ 1 \in DOMAIN chan[p] /\ m.act = "Join"
        BY <2>5, TailRead DEF RecvJoin, Read
      <4>2. QED
        BY <2>1, <2>5, <4>1 DEF RecvJoin, Mentioned, ChanOK, MessageOK, JoinPacket
    <3>2. chan' \in [Players -> Seq(Messages)]
      BY <2>1, <2>5 DEF RecvJoin, Received
    <3>3. replica' \in [Players -> [Nids -> Entity \union {Null}]]
      BY <2>3, <2>5, <3>1 DEF RecvJoin, Entity
    <3>4. spawned' \in [Players -> SUBSET Nids]
      BY <2>3, <2>5, <3>1 DEF RecvJoin, Entity
    <3>5. player_clients' \in [Players -> SUBSET Players]
          /\ announced' \in [Players -> SUBSET Players]
      BY <2>5, <3>1 DEF RecvJoin
    <3>6. QED
      BY <2>5, <3>2, <3>3, <3>4, <3>5 DEF RecvJoin
  <2>6. CASE RecvQuit(p)
    <3>1. chan' \in [Players -> Seq(Messages)]
      BY <2>1, <2>6 DEF RecvQuit, Received
    <3>2. QED
      BY <2>6, <3>1 DEF RecvQuit
  <2>7. CASE RecvDestroyObject(p)
    <3>1. world' \in [Players -> Seq(Objects)]
      BY <2>7, TailRead DEF RecvDestroyObject
    <3> DEFINE n == nid[Head(world[p])]
    <3>2. \/ UNCHANGED <<replica, spawned, failed>>
          \/ failed' = failed \union {p} /\ UNCHANGED <<replica, spawned>>
          \/ /\ replica' = [replica EXCEPT ![p][n] = Null]
             /\ spawned' = [spawned EXCEPT ![p] = @ \ {n}]
             /\ UNCHANGED failed
      BY <2>7 DEF RecvDestroyObject
    <3>3. /\ replica' \in [Players -> [Nids -> Entity \union {Null}]]
          /\ spawned' \in [Players -> SUBSET Nids]
          /\ failed' \in SUBSET Players
      <4>1. [replica EXCEPT ![p][n] = Null] \in [Players -> [Nids -> Entity \union {Null}]]
        OBVIOUS
      <4>2. [spawned EXCEPT ![p] = @ \ {n}] \in [Players -> SUBSET Nids]
        OBVIOUS
      <4> HIDE DEF n
      <4>3. QED
        BY <3>2, <4>1, <4>2
    <3>4. QED
      BY <2>7, <3>1, <3>3 DEF RecvDestroyObject
  <2>8. QED
    BY <1>9, <2>2, <2>4, <2>5, <2>6, <2>7 DEF Receive
<1>10. CASE UNCHANGED vars
  BY <1>10 DEF vars
<1>11. QED
  BY <1>1, <1>2, <1>3, <1>4, <1>5, <1>6, <1>7, <1>8, <1>9, <1>10 DEF Next

-----------------------------------------------------------------------------
(* Steps of the server                                                     *)

\* What a step of the server may do to a client p that goes on as before: no NID
\* changes hands, and at most one packet is sent, about entities that exist, or
\* about the player that has just left.
Later(p) ==
    /\ \A e \in Entity : nid[e] \in Nids => nid'[e] = nid[e]
    /\ \A e \in alive' \ alive : nid[e] = Null /\ nid'[e] \in FreeNids
    /\ replica'[p] = replica[p]
    /\ player_clients'[p] = player_clients[p]
    /\ spawned'[p] = spawned[p]
    /\ \A q \in (Players \intersect alive) \ alive' :
         p \notin alive \/ Appended(chan[p], QuitPacket(q), chan'[p])
    /\ \/ chan'[p] = chan[p]
       \/ \E m \in Messages :
            /\ Appended(chan[p], m, chan'[p])
            /\ MessageOK(p, m)'
            /\ \A e \in Mentioned(m) : e \in alive' \/ (e \in alive /\ m.shown = {})

LEMMA LaterMessages ==
    ASSUME TypeOK, TypeOK', NEW p \in Players, Later(p)
    PROVE  /\ \A i \in DOMAIN chan[p] : i \in DOMAIN chan'[p] /\ chan'[p][i] = chan[p][i]
           /\ \A i \in DOMAIN chan'[p] :
                \/ i \in DOMAIN chan[p]
                \/ /\ \A j \in DOMAIN chan[p] : i > j
                   /\ \E m \in Messages :
                        /\ chan'[p][i] = m
                        /\ MessageOK(p, m)'
                        /\ \A e \in Mentioned(m) :
                             e \in alive' \/ (e \in alive /\ m.shown = {})
<1>1. CASE chan'[p] = chan[p]
  BY <1>1
<1>2. ASSUME NEW m \in Messages, Appended(chan[p], m, chan'[p]), MessageOK(p, m)',
             \A e \in Mentioned(m) : e \in alive' \/ (e \in alive /\ m.shown = {})
      PROVE  /\ \A i \in DOMAIN chan[p] : i \in DOMAIN chan'[p] /\ chan'[p][i] = chan[p][i]
             /\ \A i \in DOMAIN chan'[p] :
                  i \in DOMAIN chan[p] \/ (chan'[p][i] = m /\ \A j \in DOMAIN chan[p] : i > j)
  <2>1. PICK L \in Nat : /\ DOMAIN chan'[p] = DOMAIN chan[p] \union {L}
                        /\ chan'[p][L] = m
                        /\ \A i \in DOMAIN chan[p] :
                             i \in Nat /\ i < L /\ chan'[p][i] = chan[p][i]
    BY <1>2 DEF Appended
  <2>2. QED
    BY <2>1
<1>3. CASE chan'[p] # chan[p]
  <2>1. PICK m \in Messages :
          /\ Appended(chan[p], m, chan'[p]) /\ MessageOK(p, m)'
          /\ \A e \in Mentioned(m) : e \in alive' \/ (e \in alive /\ m.shown = {})
    BY <1>3 DEF Later
  <2>2. QED
    BY <1>2, <2>1
<1>4. QED
  BY <1>1, <1>3

LEMMA MessageTypes ==
    ASSUME TypeOK, NEW p \in Players, NEW i \in DOMAIN chan[p]
    PROVE  /\ i \in Nat /\ chan[p][i] \in Messages
           /\ chan[p][i].shown \in SUBSET Entity /\ chan[p][i].hidden \in SUBSET Entity
           /\ Mentioned(chan[p][i]) \in SUBSET Entity
<1>1. chan[p] \in Seq(Messages)
  BY DEF TypeOK
<1>2. i \in Nat /\ chan[p][i] \in Messages
  BY <1>1
<1>3. QED
  BY <1>2 DEF Messages, Mentioned

\* What stays true of a client whatever the server sends: the packets are about
\* entities of today, whose NIDs are their own.
LEMMA LaterKeeps ==
    ASSUME TypeOK, TypeOK', Identified, Identified', NEW p \in Players, Local(p), Later(p)
    PROVE  ChanOK(p)' /\ HeldOK(p)' /\ QuitComing(p)' /\ NoLaterOther(p)'
<1>1. \A i \in DOMAIN chan[p] :
        /\ i \in Nat
        /\ i \in DOMAIN chan'[p] /\ chan'[p][i] = chan[p][i]
        /\ MessageOK(p, chan[p][i])
        /\ Mentioned(chan[p][i]) \in SUBSET Entity
        /\ chan[p][i].shown \in SUBSET Mentioned(chan[p][i])
        /\ \A e \in Mentioned(chan[p][i]) : nid[e] \in Nids /\ nid'[e] = nid[e]
  <2>1. \A i \in DOMAIN chan[p] : MessageOK(p, chan[p][i])
    BY DEF Local, ChanOK
  <2>2. \A i \in DOMAIN chan[p] : chan[p][i].shown \in SUBSET Mentioned(chan[p][i])
    BY DEF Mentioned
  <2>3. QED
    BY <2>1, <2>2, LaterMessages, MessageTypes DEF MessageOK, Later
<1>2. \A i \in DOMAIN chan'[p] :
        \/ i \in DOMAIN chan[p]
        \/ /\ i \in Nat /\ \A j \in DOMAIN chan[p] : i > j
           /\ \A e \in Mentioned(chan'[p][i]) :
                \/ e \in alive'
                \/ e \in alive /\ nid'[e] = nid[e] /\ chan'[p][i].shown = {}
           /\ Mentioned(chan'[p][i]) \in SUBSET Entity
  <2>1. chan'[p] \in Seq(Messages)
    BY DEF TypeOK
  <2>2. \A i \in DOMAIN chan'[p] : i \in Nat
    BY <2>1
  <2>3. \A e \in alive : nid'[e] = nid[e]
    BY DEF Identified, Later, TypeOK
  <2>4. \A m \in Messages : Mentioned(m) \in SUBSET Entity
    BY DEF Mentioned, Messages
  <2>5. QED
    BY <2>2, <2>3, <2>4, LaterMessages
<1>3. p \in alive => nid[p] \in Nids /\ nid'[p] = nid[p]
  BY DEF Identified, Later, Entity
<1>4. p \notin alive => /\ chan[p] = <<>> /\ replica[p] = [n \in Nids |-> Null]
                       /\ player_clients[p] = {} /\ spawned[p] = {}
  BY DEF Local, ClearedOK
<1>5. ASSUME NEW e \in Entity, nid[e] \in Nids, ObjectNid(nid[e])
      PROVE  ObjectNid(nid[e])'
  BY <1>5 DEF ObjectNid, Later, Entity
<1>6. ASSUME NEW q \in Players, q \notin alive', nid[q] \in Nids
      PROVE  q \notin alive \/ p \notin alive
                \/ \E i \in DOMAIN chan'[p] : /\ chan'[p][i] = QuitPacket(q)
                                             /\ \A j \in DOMAIN chan[p] : i > j
  BY <1>6 DEF Later, Appended
<1>7. ChanOK(p)'
  <2>1. ASSUME NEW i \in DOMAIN chan[p], NEW m, m = chan[p][i] PROVE MessageOK(p, m)'
    <3>1. MessageOK(p, m) /\ \A e \in Mentioned(m) : e \in Entity /\ nid'[e] = nid[e]
      BY <1>1, <2>1
    <3>2. \A e \in m.shown : e \in Mentioned(m)
      BY DEF Mentioned
    <3>3. nid'[p] = nid[p]
      BY <1>3, <1>4
    <3>4. \A q \in Players \ alive : m = QuitPacket(q) => q \notin alive'
      <4>1. \A q \in Players : q \in Mentioned(QuitPacket(q))
        BY DEF Mentioned, QuitPacket
      <4>2. QED
        BY <3>1, <4>1, NullIsNone DEF MessageOK, Later, Identified
    <3>5. QED
      BY <3>1, <3>2, <3>3, <3>4 DEF MessageOK
  <2>2. QED
    BY <1>1, <2>1, LaterMessages DEF ChanOK
<1>8. HeldOK(p)'
  <2>1. /\ replica[p] \in [Nids -> Entity \union {Null}]
        /\ player_clients[p] \in SUBSET Players /\ spawned[p] \in SUBSET Nids
    BY DEF TypeOK
  <2>2. \A n \in Nids : replica[p][n] # Null => nid'[replica[p][n]] = n
    BY <2>1 DEF Local, HeldOK, Later
  <2>3. p \in alive' => replica[p][nid'[p]] \in {Null, p}
    BY <1>3, <1>4, <2>1 DEF Local, HeldOK, Identified
  <2>4. \A n \in spawned[p] : \E e \in Entity : nid'[e] = n
    BY <2>1 DEF Local, HeldOK, Later
  <2>5. \A q \in player_clients[p] :
           /\ nid'[q] \in Nids
           /\ ObjectNid(nid[q])' \/ replica[p][nid'[q]] = q
    BY <1>5, <2>1 DEF Local, HeldOK, Later, Entity
  <2>6. QED
    BY <2>2, <2>3, <2>4, <2>5 DEF HeldOK, Later
<1>9. QuitComing(p)'
  <2>1. SUFFICES ASSUME NEW q \in Players, q \notin alive'
                 PROVE  /\ q \in player_clients[p] =>
                             \/ ObjectNid(nid[q])'
                             \/ \E i \in DOMAIN chan'[p] : chan'[p][i] = QuitPacket(q)
                        /\ \A i \in DOMAIN chan'[p] : q \in chan'[p][i].shown =>
                             \E j \in DOMAIN chan'[p] :
                               j > i /\ chan'[p][j] = QuitPacket(q)
    BY DEF QuitComing, QuitPacket, Later
  <2>2. ASSUME q \in player_clients[p]
        PROVE  ObjectNid(nid[q])' \/ \E i \in DOMAIN chan'[p] : chan'[p][i] = QuitPacket(q)
    <3>1. nid[q] \in Nids
      BY <2>2 DEF Local, HeldOK
    <3>2. CASE q \in alive
      BY <1>4, <1>6, <2>1, <2>2, <3>1, <3>2
    <3>3. CASE q \notin alive
      BY <1>1, <1>5, <2>2, <3>1, <3>3 DEF Local, QuitComing, Entity
    <3>4. QED
      BY <3>2, <3>3
  <2>3. ASSUME NEW i \in DOMAIN chan'[p], q \in chan'[p][i].shown
        PROVE  \E j \in DOMAIN chan'[p] : j > i /\ chan'[p][j] = QuitPacket(q)
    <3>1. i \in DOMAIN chan[p]
      BY <1>2, <2>1, <2>3 DEF Mentioned
    <3>2. nid[q] \in Nids /\ q \in chan[p][i].shown
      BY <1>1, <2>3, <3>1
    <3>3. CASE q \in alive
      BY <1>4, <1>6, <2>1, <3>1, <3>2, <3>3
    <3>4. CASE q \notin alive
      BY <1>1, <3>1, <3>2, <3>4 DEF Local, QuitComing
    <3>5. QED
      BY <3>3, <3>4
  <2>4. QED
    BY <2>2, <2>3
<1>10. NoLaterOther(p)'
  <2>1. SUFFICES ASSUME NEW e \in alive'
                 PROVE  /\ replica[p][nid'[e]] = e =>
                             \A i \in DOMAIN chan'[p] : \A f \in Mentioned(chan'[p][i]) :
                                 nid'[f] = nid'[e] => f = e
                        /\ \A i \in DOMAIN chan'[p] : e \in chan'[p][i].shown =>
                             \A j \in DOMAIN chan'[p] : j > i =>
                                 \A f \in Mentioned(chan'[p][j]) : nid'[f] = nid'[e] => f = e
    BY DEF NoLaterOther, Mentioned, Later
  <2>2. e \in Entity /\ nid'[e] \in Nids /\ (e \in alive => nid'[e] = nid[e])
    BY DEF TypeOK, Identified, Later
  <2>3. ASSUME NEW i \in DOMAIN chan'[p], i \notin DOMAIN chan[p],
               NEW f \in Mentioned(chan'[p][i]), nid'[f] = nid'[e]
        PROVE  f = e
    <3>1. f \in alive' \/ (f \in alive /\ nid'[f] = nid[f])
      BY <1>2, <2>3
    <3>2. CASE f \in alive'
      BY <2>3, <3>2 DEF Identified
    <3>3. CASE f \in alive /\ nid'[f] = nid[f]
      <4>1. CASE e \in alive
        BY <2>2, <2>3, <3>3, <4>1 DEF Identified
      <4>2. CASE e \notin alive
        <5>1. nid'[e] \in FreeNids
          BY <4>2 DEF Later
        <5>2. nid'[e] # nid[f]
          BY <3>3, <5>1 DEF FreeNids, Tracked
        <5>3. QED
          BY <2>3, <3>3, <5>2
      <4>3. QED
        BY <4>1, <4>2
    <3>4. QED
      BY <3>1, <3>2, <3>3
  <2>4. ASSUME e \notin alive
        PROVE  /\ replica[p][nid'[e]] # e
               /\ \A i \in DOMAIN chan'[p] : \A f \in Mentioned(chan'[p][i]) :
                    i \in DOMAIN chan[p] => f # e
    <3>1. nid[e] = Null /\ Null \notin Nids
      BY <2>4, NullIsNone DEF Later
    <3>2. QED
      BY <1>1, <2>2, <3>1, NullIsNone DEF Local, HeldOK, Entity
  <2>5. ASSUME replica[p][nid'[e]] = e, NEW i \in DOMAIN chan'[p],
               NEW f \in Mentioned(chan'[p][i]), nid'[f] = nid'[e]
        PROVE  f = e
    BY <1>1, <2>2, <2>3, <2>4, <2>5 DEF Local, NoLaterOther
  <2>6. ASSUME NEW i \in DOMAIN chan'[p], e \in chan'[p][i].shown,
               NEW j \in DOMAIN chan'[p], j > i,
               NEW f \in Mentioned(chan'[p][j]), nid'[f] = nid'[e]
        PROVE  f = e
    <3>1. CASE j \notin DOMAIN chan[p]
      BY <2>3, <2>6, <3>1
    <3>2. CASE j \in DOMAIN chan[p]
      <4>1. i \in DOMAIN chan[p]
        BY <1>1, <1>2, <2>6, <3>2
      <4>2. e \in alive
        BY <2>4, <2>6, <4>1 DEF Mentioned
      <4>3. QED
        BY <1>1, <2>2, <2>6, <3>2, <4>1, <4>2 DEF Local, NoLaterOther
    <3>3. QED
      BY <3>1, <3>2
  <2>7. QED
    BY <2>5, <2>6
<1>11. QED
  BY <1>7, <1>8, <1>9, <1>10

LEMMA ObjectNidStays ==
    ASSUME NEW p \in Players, Later(p), NEW e \in Entity, nid[e] \in Nids, ObjectNid(nid[e])
    PROVE  ObjectNid(nid[e])'
  BY DEF ObjectNid, Later, Entity

\* A NID nobody else has had keeps being nobody else's only if it always was.
LEMMA UnsharedBefore ==
    ASSUME TypeOK, NEW p \in Players, Later(p), NEW o \in Entity, nid[o] \in Nids, Unshared(o)'
    PROVE  Unshared(o)
  BY NullIsNone DEF Unshared, Later, TypeOK

\* Steps in which librg writes nothing to p.
LEMMA NoWriteKeeps ==
    ASSUME TypeOK, TypeOK', Identified, Identified', \A q \in Players : ClearedOK(q),
           NEW p \in Players, Local(p), Later(p),
           snapshot'[p] = snapshot[p],
           alive' \intersect Objects = alive \intersect Objects,
           \A q \in joined' : /\ q \in alive'
                              /\ \/ q \in joined \/ q = p
                                 \/ Appended(chan[p], JoinPacket(q), chan'[p]),
           \A i \in DOMAIN chan'[p] :
               i \in DOMAIN chan[p] \/ Mentioned(chan'[p][i]) \intersect Objects = {}
    PROVE  ViewOK(p)' /\ SeenComing(p)' /\ ObjectComing(p)'
<1>1. p \in alive => nid[p] \in Nids /\ nid'[p] = nid[p]
  BY DEF Identified, Later, Entity
<1>2. p \notin alive => /\ snapshot[p] = {} /\ chan[p] = <<>> /\ spawned[p] = {}
  BY DEF Local, ClearedOK
<1>3. \A i \in DOMAIN chan[p] : i \in DOMAIN chan'[p] /\ chan'[p][i] = chan[p][i]
  BY LaterMessages
<1>4. ViewOK(p)'
  BY <1>1, <1>2 DEF Local, ViewOK, Later, TypeOK
<1>5. ASSUME NEW q \in joined', q # p, nid'[q] \in snapshot[p]
      PROVE  \/ ObjectNid(nid[q])'
             \/ replica[p][nid'[q]] = q
             \/ \E i \in DOMAIN chan'[p] : q \in chan'[p][i].shown
  <2>1. q \in Players /\ q \in alive' /\ q \in Entity
    BY DEF TypeOK, Entity
  <2>2. CASE q \in joined
    <3>1. q \in alive /\ nid[q] \in Nids /\ nid'[q] = nid[q]
      BY <2>1, <2>2 DEF ClearedOK, Identified, Later
    <3>2. p \in alive
      BY <1>2, <1>5
    <3>3. QED
      BY <1>3, <1>5, <2>1, <2>2, <3>1, <3>2, ObjectNidStays DEF Local, SeenComing
  <2>3. CASE Appended(chan[p], JoinPacket(q), chan'[p])
    BY <2>3 DEF Appended, JoinPacket
  <2>4. QED
    BY <1>5, <2>2, <2>3
<1>6. SeenComing(p)'
  BY <1>5 DEF SeenComing, Later
<1>7. ASSUME NEW o \in alive \intersect Objects, Unshared(o)', p \in alive'
      PROVE  \/ /\ \A i \in DOMAIN chan'[p] : o \notin Mentioned(chan'[p][i])
                /\ nid'[o] \in spawned[p] <=> nid'[o] \in snapshot[p]
             \/ \E i \in DOMAIN chan'[p] :
                  /\ o \in Mentioned(chan'[p][i])
                  /\ \A j \in DOMAIN chan'[p] : j > i => o \notin Mentioned(chan'[p][j])
                  /\ o \in chan'[p][i].shown <=> nid'[o] \in snapshot[p]
  <2>1. o \in Entity /\ nid[o] \in Nids /\ nid'[o] = nid[o]
    BY DEF Entity, Identified, Later
  <2>2. Unshared(o)
    BY <1>7, <2>1, UnsharedBefore
  <2>3. CASE p \notin alive
    BY <1>2, <1>7, <2>3
  <2>4. CASE p \in alive
    BY <1>3, <1>7, <2>1, <2>2, <2>4 DEF Local, ObjectComing, LastSays
  <2>5. QED
    BY <2>3, <2>4
<1>8. ObjectComing(p)'
  BY <1>7 DEF ObjectComing, LastSays, Mentioned, Later
<1>9. QED
  BY <1>4, <1>6, <1>8

\* Steps in which librg writes to p.
LEMMA WriteKeeps ==
    ASSUME TypeOK, TypeOK', Identified, Identified', \A q \in Players : ClearedOK(q),
           NEW p \in Players, Local(p), Later(p), Written(p),
           joined' = joined, alive' \intersect Players = alive \intersect Players
    PROVE  ViewOK(p)' /\ SeenComing(p)' /\ ObjectComing(p)'
<1>0. NowSeen(p) \in SUBSET Entity /\ NowUnseen(p) \in SUBSET Entity
  BY DEF NowSeen, NowUnseen, TypeOK
<1>1. p \in alive' <=> p \in alive
  OBVIOUS
<1>2. \A i \in DOMAIN chan[p] : i \in DOMAIN chan'[p] /\ chan'[p][i] = chan[p][i]
  BY LaterMessages
<1>3. ViewOK(p)'
  BY DEF Local, ViewOK, Written, TypeOK
<1>4. ASSUME p \in alive', NowSeen(p) \union NowUnseen(p) # {}
      PROVE  \E L \in Nat : /\ DOMAIN chan'[p] = DOMAIN chan[p] \union {L}
                            /\ chan'[p][L].shown = NowSeen(p)
                            /\ chan'[p][L].hidden = NowUnseen(p)
                            /\ \A i \in DOMAIN chan[p] : i \in Nat /\ i < L
  <2>1. ViewPacket(NowSeen(p), NowUnseen(p)) \in Messages
    BY <1>0, PacketTypes
  <2>2. Appended(chan[p], ViewPacket(NowSeen(p), NowUnseen(p)), chan'[p])
    <3>1. chan'[p] = Append(chan[p], ViewPacket(NowSeen(p), NowUnseen(p)))
      BY <1>4 DEF Written
    <3>2. chan[p] \in Seq(Messages)
      BY DEF TypeOK
    <3>3. QED
      BY <2>1, <3>1, <3>2, AppendAt
  <2>3. QED
    BY <2>2 DEF Appended, ViewPacket
<1>5. ASSUME p \in alive', NEW q \in joined, q # p, nid'[q] \in snapshot'[p]
      PROVE  \/ ObjectNid(nid[q])'
             \/ replica[p][nid'[q]] = q
             \/ \E i \in DOMAIN chan'[p] : q \in chan'[p][i].shown
  <2>1. /\ q \in Players /\ q \in alive /\ q \in alive' /\ q \in Entity
        /\ nid[q] \in Nids /\ nid'[q] = nid[q]
    BY DEF TypeOK, Entity, ClearedOK, Identified, Later
  <2>2. CASE nid[q] \in snapshot[p]
    BY <1>1, <1>2, <1>5, <2>1, <2>2, ObjectNidStays DEF Local, SeenComing
  <2>3. CASE nid[q] \notin snapshot[p]
    <3>1. q \in NowSeen(p)
      BY <1>5, <2>1, <2>3 DEF NowSeen
    <3>2. QED
      BY <1>4, <1>5, <3>1
  <2>4. QED
    BY <2>2, <2>3
<1>6. SeenComing(p)'
  BY <1>5 DEF SeenComing, Later
<1>7. ASSUME NEW o \in alive' \intersect Objects, Unshared(o)', p \in alive'
      PROVE  \/ /\ \A i \in DOMAIN chan'[p] : o \notin Mentioned(chan'[p][i])
                /\ nid'[o] \in spawned[p] <=> nid'[o] \in snapshot'[p]
             \/ \E i \in DOMAIN chan'[p] :
                  /\ o \in Mentioned(chan'[p][i])
                  /\ \A j \in DOMAIN chan'[p] : j > i => o \notin Mentioned(chan'[p][j])
                  /\ o \in chan'[p][i].shown <=> nid'[o] \in snapshot'[p]
  <2>1. o \in Entity /\ nid'[o] \in Nids
    BY DEF Entity, Identified
  <2>2. CASE o \in NowSeen(p) \union NowUnseen(p)
    <3>1. PICK L \in Nat : /\ DOMAIN chan'[p] = DOMAIN chan[p] \union {L}
                           /\ chan'[p][L].shown = NowSeen(p)
                           /\ chan'[p][L].hidden = NowUnseen(p)
                           /\ \A i \in DOMAIN chan[p] : i \in Nat /\ i < L
      BY <1>4, <1>7, <2>2
    <3>2. o \in NowSeen(p) <=> nid'[o] \in snapshot'[p]
      BY <2>2 DEF NowSeen, NowUnseen
    <3>3. QED
      BY <2>2, <3>1, <3>2 DEF Mentioned
  <2>3. CASE o \notin NowSeen(p) \union NowUnseen(p)
    <3>1. nid'[o] \in snapshot'[p] <=> nid'[o] \in snapshot[p]
      BY <2>3 DEF NowSeen, NowUnseen
    <3>2. \A i \in DOMAIN chan'[p] : \/ i \in DOMAIN chan[p]
                                     \/ o \notin Mentioned(chan'[p][i])
      <4>1. CASE NowSeen(p) \union NowUnseen(p) # {}
        BY <1>4, <1>7, <2>3, <4>1 DEF Mentioned
      <4>2. CASE NowSeen(p) \union NowUnseen(p) = {}
        <5>1. CASE chan'[p] = chan[p]
          BY <5>1
        <5>2. CASE chan'[p] = Append(chan[p], ViewPacket(NowSeen(p), NowUnseen(p)))
          <6>1. ViewPacket(NowSeen(p), NowUnseen(p)) \in Messages
            BY <1>0, PacketTypes
          <6>2. Appended(chan[p], ViewPacket(NowSeen(p), NowUnseen(p)), chan'[p])
            BY <5>2, <6>1, AppendAt DEF TypeOK
          <6>3. QED
            BY <4>2, <6>2 DEF Appended, ViewPacket, Mentioned
        <5>3. QED
          BY <1>7, <5>1, <5>2 DEF Written
      <4>3. QED
        BY <4>1, <4>2
    <3>3. CASE o \in alive
      <4>1. nid[o] \in Nids /\ nid'[o] = nid[o]
        BY <2>1, <3>3 DEF Identified, Later
      <4>2. Unshared(o)
        BY <1>7, <2>1, <4>1, UnsharedBefore
      <4>3. QED
        BY <1>1, <1>2, <1>7, <3>1, <3>2, <3>3, <4>1, <4>2 DEF Local, ObjectComing, LastSays
    <3>4. CASE o \notin alive
      <4>1. nid[o] = Null /\ Null \notin Nids
        BY <3>4, NullIsNone DEF Later
      <4>2. \A i \in DOMAIN chan[p] : o \notin Mentioned(chan[p][i])
        BY <4>1 DEF Local, ChanOK, MessageOK
      <4>3. ASSUME NEW e \in Entity, nid[e] \in Nids PROVE nid[e] # nid'[o]
        BY <1>7, <4>1, <4>3 DEF Unshared, Later
      <4>4. nid'[o] \notin spawned[p] /\ nid'[o] \notin snapshot[p]
        BY <4>3 DEF Local, HeldOK, ViewOK, TypeOK
      <4>5. QED
        BY <1>2, <3>1, <3>2, <4>2, <4>4
    <3>5. QED
      BY <3>3, <3>4
  <2>4. QED
    BY <2>2, <2>3
<1>8. ObjectComing(p)'
  BY <1>7 DEF ObjectComing, LastSays, Mentioned, Later
<1>9. QED
  BY <1>3, <1>6, <1>8

LEMMA StepIdentified ==
    ASSUME TypeOK, Identified, [Next]_vars
    PROVE  Identified'
<1>1. ASSUME NEW e \in Entity, e \notin alive,
             NEW n \in FreeNids, nid' = [nid EXCEPT ![e] = n], alive' = alive \union {e}
      PROVE  Identified'
  BY <1>1 DEF Identified, FreeNids, Tracked, TypeOK
<1>2. ASSUME NEW p \in Players, Connect(p) PROVE Identified'
  BY <1>1, <1>2 DEF Connect, Entity
<1>3. ASSUME NEW o \in Objects, Spawn(o) PROVE Identified'
  BY <1>1, <1>3 DEF Spawn, Entity
<1>4. CASE alive' \in SUBSET alive /\ nid' = nid
  BY <1>4 DEF Identified
<1>5. ASSUME NEW p \in Players, Receive(p) PROVE UNCHANGED <<alive, nid>>
  BY <1>5 DEF Receive, RecvInit, RecvView, RecvJoin, RecvQuit, RecvDestroyObject, serverVars
<1>6. QED
  BY <1>2, <1>3, <1>4, <1>5
  DEF Next, vars, serverVars, SendInit, Join, Disconnect, EnterGame, DestroyObject, TimedUpdate

\* A packet for some clients: everybody else's queue stays.
LEMMA BroadcastAppends ==
    ASSUME TypeOK, NEW R, NEW m \in Messages, NEW p \in Players
    PROVE  IF p \in R THEN Appended(chan[p], m, Broadcast(chan, R, m)[p])
                      ELSE Broadcast(chan, R, m)[p] = chan[p]
  BY AppendAt DEF Broadcast, TypeOK

LEMMA ConnectKeeps ==
    ASSUME ReplicationInv, TypeOK', Identified', NEW q \in Players, Connect(q), NEW p \in Players
    PROVE  Local(p)'
<1> USE DEF ReplicationInv
<1>1. PICK n \in FreeNids : nid' = [nid EXCEPT ![q] = n] /\ alive' = alive \union {q}
  BY DEF Connect
<1>2. q \notin alive /\ nid[q] = Null /\ UNCHANGED <<joined, snapshot, netVars, clientVars>>
  BY DEF Connect
<1>3. nid \in [Entity -> Nids \union {Null}] /\ q \in Entity /\ n \in Nids
  BY <1>1 DEF TypeOK, Entity, FreeNids
<1>4. Later(p)
  BY <1>1, <1>2, <1>3, NullIsNone DEF Later, netVars, clientVars
<1>5. ChanOK(p)' /\ HeldOK(p)' /\ QuitComing(p)' /\ NoLaterOther(p)'
  BY <1>4, LaterKeeps
<1>6. ViewOK(p)' /\ SeenComing(p)' /\ ObjectComing(p)'
  <2>1. \A x \in joined' : x \in alive' /\ x \in joined
    BY <1>1, <1>2 DEF Local, ClearedOK, TypeOK
  <2>2. alive' \intersect Objects = alive \intersect Objects
    BY <1>1, NullIsNone
  <2>3. \A x \in Players : ClearedOK(x)
    BY DEF Local
  <2>4. QED
    BY <1>2, <1>4, <2>1, <2>2, <2>3, NoWriteKeeps DEF netVars
<1>7. ClearedOK(p)' /\ WorldOK(p)'
  BY <1>1, <1>2, <1>3, NullIsNone DEF Local, ClearedOK, WorldOK, netVars, clientVars, Entity, TypeOK
<1>8. QED
  BY <1>5, <1>6, <1>7 DEF Local

LEMMA SendInitKeeps ==
    ASSUME ReplicationInv, TypeOK', Identified', NEW q \in Players, SendInit(q), NEW p \in Players
    PROVE  Local(p)'
<1> USE DEF ReplicationInv
<1>1. /\ q \in alive /\ chan' = [chan EXCEPT ![q] = Append(@, InitPacket)]
      /\ UNCHANGED <<serverVars, world, clientVars>>
  BY DEF SendInit, Clients
<1>2. IF p = q THEN Appended(chan[p], InitPacket, chan'[p]) ELSE chan'[p] = chan[p]
  BY <1>1, PacketTypes, AppendAt DEF TypeOK
<1>3. Mentioned(InitPacket) = {} /\ InitPacket.shown = {} /\ InitPacket.hidden = {}
      /\ InitPacket.act = "Init" /\ InitPacket \in Messages
  BY PacketTypes DEF Mentioned, InitPacket
<1>4. MessageOK(p, InitPacket)'
  BY <1>3 DEF MessageOK
<1>5. Later(p)
  BY <1>1, <1>2, <1>3, <1>4 DEF Later, serverVars, clientVars
<1>6. ChanOK(p)' /\ HeldOK(p)' /\ QuitComing(p)' /\ NoLaterOther(p)'
  BY <1>5, LaterKeeps
<1>7. ViewOK(p)' /\ SeenComing(p)' /\ ObjectComing(p)'
  <2>1. \A x \in joined' : x \in alive' /\ x \in joined
    BY <1>1 DEF Local, ClearedOK, TypeOK, serverVars
  <2>2. \A x \in Players : ClearedOK(x)
    BY DEF Local
  <2>3. \A i \in DOMAIN chan'[p] :
          i \in DOMAIN chan[p] \/ Mentioned(chan'[p][i]) \intersect Objects = {}
    BY <1>2, <1>3 DEF Appended
  <2>4. QED
    BY <1>1, <1>5, <2>1, <2>2, <2>3, NoWriteKeeps DEF serverVars
<1>8. ClearedOK(p)' /\ WorldOK(p)'
  BY <1>1, <1>2 DEF Local, ClearedOK, WorldOK, serverVars, clientVars
<1>9. QED
  BY <1>6, <1>7, <1>8 DEF Local

LEMMA JoinKeeps ==
    ASSUME ReplicationInv, TypeOK', Identified', NEW q \in Players, Join(q), NEW p \in Players
    PROVE  Local(p)'
<1> USE DEF ReplicationInv
<1>1. /\ q \in alive /\ joined' = joined \union {q}
      /\ chan' = Broadcast(chan, Recipients(q), JoinPacket(q))
      /\ UNCHANGED <<alive, nid, snapshot, world, clientVars>>
  BY DEF Join, Clients
<1>2. p \in Recipients(q) <=> p \in alive /\ p # q
  BY DEF Recipients, Clients
<1>3. /\ Mentioned(JoinPacket(q)) = {q} /\ JoinPacket(q).shown = {q}
      /\ JoinPacket(q).hidden = {} /\ JoinPacket(q).act = "Join" /\ JoinPacket(q) \in Messages
  BY PacketTypes DEF Mentioned, JoinPacket
<1>4. IF p \in alive /\ p # q THEN Appended(chan[p], JoinPacket(q), chan'[p])
                              ELSE chan'[p] = chan[p]
  BY <1>1, <1>2, <1>3, BroadcastAppends
<1>5. p \in alive /\ p # q => MessageOK(p, JoinPacket(q))'
  BY <1>1, <1>3, NullIsNone DEF MessageOK, Identified
<1>6. Later(p)
  BY <1>1, <1>3, <1>4, <1>5 DEF Later, clientVars
<1>7. ChanOK(p)' /\ HeldOK(p)' /\ QuitComing(p)' /\ NoLaterOther(p)'
  BY <1>6, LaterKeeps
<1>8. ViewOK(p)' /\ SeenComing(p)' /\ ObjectComing(p)'
  <2>1. CASE p \notin alive
    BY <1>1, <1>4, <2>1 DEF Local, ViewOK, ClearedOK, SeenComing, ObjectComing
  <2>2. CASE p \in alive
    <3>1. \A x \in joined' : /\ x \in alive'
                             /\ \/ x \in joined \/ x = p
                                \/ Appended(chan[p], JoinPacket(x), chan'[p])
      BY <1>1, <1>4, <2>2 DEF Local, ClearedOK, TypeOK
    <3>2. \A x \in Players : ClearedOK(x)
      BY DEF Local
    <3>3. \A i \in DOMAIN chan'[p] :
            i \in DOMAIN chan[p] \/ Mentioned(chan'[p][i]) \intersect Objects = {}
      BY <1>3, <1>4, NullIsNone DEF Appended
    <3>4. QED
      BY <1>1, <1>6, <3>1, <3>2, <3>3, NoWriteKeeps
  <2>3. QED
    BY <2>1, <2>2
<1>9. ClearedOK(p)' /\ WorldOK(p)'
  BY <1>1, <1>4 DEF Local, ClearedOK, WorldOK, clientVars
<1>10. QED
  BY <1>7, <1>8, <1>9 DEF Local

LEMMA DisconnectKeeps ==
    ASSUME ReplicationInv, TypeOK', Identified', NEW q \in Players, Disconnect(q), NEW p \in Players
    PROVE  Local(p)'
<1> USE DEF ReplicationInv
<1>1. /\ q \in alive /\ alive' = alive \ {q} /\ joined' = joined \ {q} /\ nid' = nid
      /\ snapshot' = [snapshot EXCEPT ![q] = {}]
      /\ chan' = [Broadcast(chan, Recipients(q), QuitPacket(q)) EXCEPT ![q] = <<>>]
      /\ world' = [world EXCEPT ![q] = <<>>]
      /\ replica' = [replica EXCEPT ![q] = [n \in Nids |-> Null]]
      /\ player_clients' = [player_clients EXCEPT ![q] = {}]
      /\ spawned' = [spawned EXCEPT ![q] = {}]
  BY DEF Disconnect, Clients
<1>2. p \in Recipients(q) <=> p \in alive /\ p # q
  BY DEF Recipients, Clients
<1>3. /\ Mentioned(QuitPacket(q)) = {q} /\ QuitPacket(q).shown = {}
      /\ QuitPacket(q).hidden = {q} /\ QuitPacket(q).act = "Quit" /\ QuitPacket(q) \in Messages
  BY PacketTypes DEF Mentioned, QuitPacket
<1>4. /\ p \in alive /\ p # q => Appended(chan[p], QuitPacket(q), chan'[p])
      /\ p \notin alive => chan'[p] = chan[p]
      /\ p = q => chan'[p] = <<>>
  <2>1. Broadcast(chan, Recipients(q), QuitPacket(q)) \in [Players -> Seq(Messages)]
    BY <1>3, BroadcastTypes DEF TypeOK
  <2>2. QED
    BY <1>1, <1>2, <1>3, <2>1, BroadcastAppends
<1>5. CASE p = q
  <2>1. /\ p \notin alive' /\ p \notin joined' /\ snapshot'[p] = {} /\ chan'[p] = <<>>
        /\ world'[p] = <<>> /\ replica'[p] = [n \in Nids |-> Null]
        /\ player_clients'[p] = {} /\ spawned'[p] = {}
    BY <1>1, <1>4, <1>5 DEF TypeOK
  <2>2. ViewOK(p)' /\ ClearedOK(p)' /\ HeldOK(p)' /\ SeenComing(p)' /\ ObjectComing(p)'
    BY <2>1 DEF ViewOK, ClearedOK, HeldOK, SeenComing, ObjectComing
  <2>3. ChanOK(p)' /\ WorldOK(p)' /\ QuitComing(p)'
    BY <2>1 DEF ChanOK, WorldOK, QuitComing
  <2>4. NoLaterOther(p)'
    BY <2>1 DEF NoLaterOther
  <2>5. QED
    BY <2>2, <2>3, <2>4 DEF Local
<1>6. CASE p # q
  <2>1. /\ snapshot'[p] = snapshot[p] /\ world'[p] = world[p] /\ replica'[p] = replica[p]
        /\ player_clients'[p] = player_clients[p] /\ spawned'[p] = spawned[p]
        /\ (p \in alive' <=> p \in alive) /\ (p \in joined' <=> p \in joined)
    BY <1>1, <1>6 DEF TypeOK
  <2>2. p \in alive => MessageOK(p, QuitPacket(q))'
    BY <1>1, <1>3, <1>6, NullIsNone DEF MessageOK, Identified
  <2>3. Later(p)
    BY <1>1, <1>3, <1>4, <1>6, <2>1, <2>2 DEF Later
  <2>4. ChanOK(p)' /\ HeldOK(p)' /\ QuitComing(p)' /\ NoLaterOther(p)'
    BY <2>3, LaterKeeps
  <2>5. ViewOK(p)' /\ SeenComing(p)' /\ ObjectComing(p)'
    <3>1. \A x \in joined' : x \in alive' /\ x \in joined
      BY <1>1 DEF Local, ClearedOK, TypeOK
    <3>2. \A x \in Players : ClearedOK(x)
      BY DEF Local
    <3>3. \A i \in DOMAIN chan'[p] :
            i \in DOMAIN chan[p] \/ Mentioned(chan'[p][i]) \intersect Objects = {}
      BY <1>3, <1>4, <1>6, NullIsNone DEF Appended
    <3>4. alive' \intersect Objects = alive \intersect Objects
      BY <1>1, NullIsNone
    <3>5. QED
      BY <2>1, <2>3, <3>1, <3>2, <3>3, <3>4, NoWriteKeeps
  <2>6. ClearedOK(p)' /\ WorldOK(p)'
    BY <1>1, <1>4, <2>1 DEF Local, ClearedOK, WorldOK
  <2>7. QED
    BY <2>4, <2>5, <2>6 DEF Local
<1>7. QED
  BY <1>5, <1>6

\* The three steps that end in a world write, after alive' and nid'.
LEMMA UpdateKeeps ==
    ASSUME ReplicationInv, TypeOK', Identified',
           alive' \intersect Players = alive \intersect Players,
           \A e \in Entity : nid[e] \in Nids => nid'[e] = nid[e],
           \A e \in alive' \ alive : nid[e] = Null /\ nid'[e] \in FreeNids,
           NEW views \in Views(alive', Tracked'), WorldUpdate(chan, views),
           UNCHANGED <<joined, clientVars>>,
           NEW p \in Players, WorldOK(p)', p \notin alive => world'[p] = <<>>
    PROVE  Local(p)'
<1> USE DEF ReplicationInv
<1>1. Written(p)
  BY WorldUpdateWrites DEF TypeOK, Identified
<1>2. Later(p)
  <2>1. /\ replica'[p] = replica[p] /\ player_clients'[p] = player_clients[p]
        /\ spawned'[p] = spawned[p] /\ (Players \intersect alive) \ alive' = {}
    BY DEF clientVars
  <2>2. ASSUME chan'[p] # chan[p]
        PROVE  \E m \in Messages :
                 /\ Appended(chan[p], m, chan'[p])
                 /\ MessageOK(p, m)'
                 /\ \A e \in Mentioned(m) : e \in alive' \/ (e \in alive /\ m.shown = {})
    <3> DEFINE m == ViewPacket(NowSeen(p), NowUnseen(p))
    <3>1. p \in alive' /\ chan'[p] = Append(chan[p], m)
      BY <1>1, <2>2 DEF Written
    <3>2. NowSeen(p) \in SUBSET Entity /\ NowUnseen(p) \in SUBSET Entity
      BY DEF NowSeen, NowUnseen, TypeOK
    <3>3. m \in Messages /\ chan[p] \in Seq(Messages)
      BY <3>2, PacketTypes DEF TypeOK
    <3>4. Appended(chan[p], m, chan'[p])
      BY <3>1, <3>3, AppendAt
    <3>5. Mentioned(m) = NowSeen(p) \union NowUnseen(p)
      BY DEF Mentioned, ViewPacket
    <3>6. \A e \in Mentioned(m) : e \in alive'
      BY <3>5 DEF NowSeen, NowUnseen
    <3>7. nid'[p] \notin snapshot'[p] /\ nid'[p] \notin snapshot[p]
      <4>1. nid[p] \in Nids /\ nid'[p] = nid[p]
        BY <3>1 DEF Identified, Entity
      <4>2. QED
        BY <1>1, <3>1, <4>1 DEF Written, Local, ViewOK
    <3>8. \A e \in Mentioned(m) : nid'[e] \in Nids /\ nid'[e] # nid'[p]
      BY <3>5, <3>6, <3>7 DEF NowSeen, NowUnseen, Identified
    <3>9. \A e, f \in NowSeen(p) : nid'[e] = nid'[f] => e = f
      BY DEF NowSeen, Identified
    <3>10. NowSeen(p) \intersect NowUnseen(p) = {}
      BY DEF NowSeen, NowUnseen
    <3>11. m.shown = NowSeen(p) /\ m.hidden = NowUnseen(p) /\ m.act = "View"
      BY DEF ViewPacket
    <3>12. ASSUME NEW k \in Messages, k = m PROVE MessageOK(p, k)'
      <4>1. Mentioned(k)' = Mentioned(k) /\ k.shown = NowSeen(p)
            /\ k.hidden = NowUnseen(p) /\ k.act = "View"
        BY <3>11, <3>12 DEF Mentioned
      <4>2. \A e \in Mentioned(k) : nid'[e] \in Nids /\ nid'[e] # nid'[p]
        BY <3>8, <3>12
      <4>3. QED
        BY <3>9, <3>10, <4>1, <4>2 DEF MessageOK
    <3>13. \E k \in Messages : k = m
      BY <3>3
    <3>14. QED
      BY <3>4, <3>6, <3>12, <3>13
  <2>3. QED
    BY <2>1, <2>2 DEF Later
<1>3. ChanOK(p)' /\ HeldOK(p)' /\ QuitComing(p)' /\ NoLaterOther(p)'
  BY <1>2, LaterKeeps
<1>4. ViewOK(p)' /\ SeenComing(p)' /\ ObjectComing(p)'
  BY <1>1, <1>2, WriteKeeps DEF Local
<1>5. ClearedOK(p)'
  BY <1>1 DEF Local, ClearedOK, Written, clientVars
<1>6. QED
  BY <1>3, <1>4, <1>5 DEF Local

LEMMA SpawnKeeps ==
    ASSUME ReplicationInv, TypeOK', Identified', NEW o \in Objects, Spawn(o), NEW p \in Players
    PROVE  Local(p)'
<1> USE DEF ReplicationInv
<1>1. PICK n \in FreeNids :
        /\ nid' = [nid EXCEPT ![o] = n] /\ alive' = alive \union {o}
        /\ \E views \in Views(alive', Tracked') : WorldUpdate(chan, views)
  BY DEF Spawn
<1>2. o \notin alive /\ nid[o] = Null /\ UNCHANGED <<joined, world, clientVars>>
  BY DEF Spawn
<1>3. nid \in [Entity -> Nids \union {Null}] /\ o \in Entity /\ n \in Nids
  BY <1>1 DEF TypeOK, Entity, FreeNids
<1>4. alive' \intersect Players = alive \intersect Players
  BY <1>1, NullIsNone
<1>5. /\ \A e \in Entity : nid[e] \in Nids => nid'[e] = nid[e]
      /\ \A e \in alive' \ alive : nid[e] = Null /\ nid'[e] \in FreeNids
  BY <1>1, <1>2, <1>3, NullIsNone
<1>6. WorldOK(p)' /\ (p \notin alive => world'[p] = <<>>)
  <2>1. world[p] \in Seq(Objects)
    BY DEF TypeOK
  <2>2. \A i \in DOMAIN world[p] : world[p][i] \in Entity
    BY <2>1 DEF Entity
  <2>3. QED
    BY <1>1, <1>2, <1>5, <2>2, NullIsNone DEF Local, WorldOK, ClearedOK
<1>7. QED
  BY <1>1, <1>2, <1>4, <1>5, <1>6, UpdateKeeps

LEMMA DestroyObjectKeeps ==
    ASSUME ReplicationInv, TypeOK', Identified', NEW o \in Objects, DestroyObject(o),
           NEW p \in Players
    PROVE  Local(p)'
<1> USE DEF ReplicationInv
<1>1. /\ o \in alive /\ alive' = alive \ {o} /\ nid' = nid
      /\ world' = Broadcast(world, Clients, o)
      /\ \E views \in Views(alive', Tracked') : WorldUpdate(chan, views)
      /\ UNCHANGED <<joined, clientVars>>
  BY DEF DestroyObject
<1>2. alive' \intersect Players = alive \intersect Players
  BY <1>1, NullIsNone
<1>3. /\ \A e \in Entity : nid[e] \in Nids => nid'[e] = nid[e]
      /\ \A e \in alive' \ alive : nid[e] = Null /\ nid'[e] \in FreeNids
  BY <1>1
<1>4. world[p] \in Seq(Objects)
  BY DEF TypeOK
<1>5. IF p \in alive THEN world'[p] = Append(world[p], o) ELSE world'[p] = world[p]
  BY <1>1 DEF Broadcast, Clients
<1>6. WorldOK(p)'
  <2>1. \A i \in DOMAIN world'[p] :
          world'[p][i] = o \/ (i \in DOMAIN world[p] /\ world'[p][i] = world[p][i])
    BY <1>4, <1>5, AppendAt DEF Appended
  <2>2. QED
    BY <1>1, <2>1 DEF Local, WorldOK, Identified
<1>7. p \notin alive => world'[p] = <<>>
  BY <1>5 DEF Local, ClearedOK
<1>8. QED
  BY <1>1, <1>2, <1>3, <1>6, <1>7, UpdateKeeps

LEMMA TimedUpdateKeeps ==
    ASSUME ReplicationInv, TypeOK', Identified', TimedUpdate, NEW p \in Players
    PROVE  Local(p)'
<1> USE DEF ReplicationInv
<1>1. /\ UNCHANGED <<alive, nid, joined, world, clientVars>>
      /\ \E views \in Views(alive', Tracked') : WorldUpdate(chan, views)
  BY DEF TimedUpdate, Tracked
<1>2. WorldOK(p)' /\ (p \notin alive => world'[p] = <<>>)
  BY <1>1 DEF Local, WorldOK, ClearedOK
<1>3. QED
  BY <1>1, <1>2, UpdateKeeps

-----------------------------------------------------------------------------
(* Steps of a client                                                       *)

\* What handling packet m does to client p: what it shows is held, as far as
\* something else is not in the way, and spawned, and what it hides is not.
Handled(p, m) ==
    /\ \A q \in Players \ alive : q \in player_clients'[p] =>
         \/ q \in player_clients[p] /\ m # QuitPacket(q)
         \/ q \in m.shown
         \/ ObjectNid(nid[q])
    /\ \A e \in alive \ {p} : replica'[p][nid[e]] = e =>
         replica[p][nid[e]] = e \/ e \in m.shown
    /\ \A q \in alive \intersect Players : replica[p][nid[q]] = q \/ q \in m.shown =>
         replica'[p][nid[q]] = q \/ ObjectNid(nid[q])
    /\ \A o \in alive \intersect Objects : Unshared(o) =>
         /\ o \in m.shown => nid[o] \in spawned'[p]
         /\ o \in m.hidden => nid[o] \notin spawned'[p]
         /\ o \notin Mentioned(m) => (nid[o] \in spawned'[p] <=> nid[o] \in spawned[p])

LEMMA ReadKeeps ==
    ASSUME ReplicationInv, TypeOK', NEW p \in Players,
           UNCHANGED serverVars, p \in alive, Read(chan[p], chan'[p]),
           Handled(p, chan[p][1]), HeldOK(p)', WorldOK(p)'
    PROVE  Local(p)'
<1> USE DEF ReplicationInv
<1>1. alive' = alive /\ nid' = nid /\ joined' = joined /\ snapshot' = snapshot
  BY DEF serverVars
<1>2. /\ \A i \in DOMAIN chan'[p] :
           /\ i \in Nat /\ i + 1 > 1
           /\ i + 1 \in DOMAIN chan[p] /\ chan'[p][i] = chan[p][i + 1]
      /\ \A i \in DOMAIN chan[p] : i \in Nat /\ (i = 1 \/ i - 1 \in DOMAIN chan'[p])
      /\ \A i \in DOMAIN chan[p] : i # 1 => i > 1 /\ chan'[p][i - 1] = chan[p][i]
      /\ 1 \in DOMAIN chan[p]
  BY DEF Read
<1>3. nid[p] \in Nids /\ \A e \in alive : e \in Entity /\ nid[e] \in Nids
  BY DEF Identified, TypeOK
<1>4. \A i \in DOMAIN chan[p] :
        /\ MessageOK(p, chan[p][i])
        /\ chan[p][i].shown \in SUBSET Mentioned(chan[p][i])
        /\ chan[p][i].hidden \in SUBSET Mentioned(chan[p][i])
  BY DEF Local, ChanOK, Mentioned
<1>5. ViewOK(p)' /\ ClearedOK(p)'
  BY <1>1 DEF Local, ViewOK, ClearedOK
<1>6. ChanOK(p)'
  BY <1>1, <1>2, <1>4 DEF ChanOK, MessageOK
<1>7. QuitComing(p)'
  <2>1. SUFFICES ASSUME NEW q \in Players \ alive
                 PROVE  /\ q \in player_clients'[p] =>
                             \/ ObjectNid(nid[q])
                             \/ \E i \in DOMAIN chan'[p] : chan'[p][i] = QuitPacket(q)
                        /\ \A i \in DOMAIN chan'[p] : q \in chan'[p][i].shown =>
                             \E j \in DOMAIN chan'[p] :
                               j > i /\ chan'[p][j] = QuitPacket(q)
    BY <1>1 DEF QuitComing, ObjectNid, QuitPacket
  <2>2. \A i \in DOMAIN chan[p] : q \in chan[p][i].shown =>
          \E j \in DOMAIN chan[p] : j > i /\ chan[p][j] = QuitPacket(q)
    BY DEF Local, QuitComing
  <2>3. ASSUME q \in player_clients'[p], ~ ObjectNid(nid[q])
        PROVE  \E i \in DOMAIN chan'[p] : chan'[p][i] = QuitPacket(q)
    <3>1. PICK j \in DOMAIN chan[p] : j # 1 /\ chan[p][j] = QuitPacket(q)
      <4>1. CASE q \in chan[p][1].shown
        BY <1>2, <2>2, <4>1
      <4>2. CASE q \notin chan[p][1].shown
        <5>1. q \in player_clients[p] /\ chan[p][1] # QuitPacket(q)
          BY <2>3, <4>2 DEF Handled
        <5>2. QED
          BY <2>3, <5>1 DEF Local, QuitComing
      <4>3. QED
        BY <4>1, <4>2
    <3>2. QED
      BY <1>2, <3>1
  <2>4. ASSUME NEW i \in DOMAIN chan'[p], q \in chan'[p][i].shown
        PROVE  \E j \in DOMAIN chan'[p] : j > i /\ chan'[p][j] = QuitPacket(q)
    <3>1. PICK j \in DOMAIN chan[p] : j > i + 1 /\ chan[p][j] = QuitPacket(q)
      BY <1>2, <2>2, <2>4
    <3>2. j \in Nat /\ i \in Nat /\ j # 1 /\ j - 1 > i
      BY <1>2, <3>1
    <3>3. QED
      BY <1>2, <3>1, <3>2
  <2>5. QED
    BY <2>3, <2>4
<1>8. NoLaterOther(p)'
  <2>1. SUFFICES ASSUME NEW e \in alive
                 PROVE  /\ replica'[p][nid[e]] = e =>
                             \A i \in DOMAIN chan'[p] : \A f \in Mentioned(chan'[p][i]) :
                                 nid[f] = nid[e] => f = e
                        /\ \A i \in DOMAIN chan'[p] : e \in chan'[p][i].shown =>
                             \A j \in DOMAIN chan'[p] : j > i =>
                                 \A f \in Mentioned(chan'[p][j]) : nid[f] = nid[e] => f = e
    BY <1>1 DEF NoLaterOther, Mentioned
  <2>2. \A i \in DOMAIN chan[p] : e \in chan[p][i].shown =>
          \A j \in DOMAIN chan[p] : j > i =>
              \A f \in Mentioned(chan[p][j]) : nid[f] = nid[e] => f = e
    BY DEF Local, NoLaterOther
  <2>3. ASSUME replica'[p][nid[e]] = e, NEW i \in DOMAIN chan'[p],
               NEW f \in Mentioned(chan'[p][i]), nid[f] = nid[e]
        PROVE  f = e
    <3>1. i + 1 \in DOMAIN chan[p] /\ f \in Mentioned(chan[p][i + 1]) /\ i + 1 > 1
      BY <1>2, <2>3
    <3>2. CASE e = p
      BY <1>4, <2>3, <3>1, <3>2 DEF MessageOK
    <3>3. CASE e \in chan[p][1].shown
      BY <1>2, <2>2, <2>3, <3>1, <3>3
    <3>4. CASE replica[p][nid[e]] = e
      BY <2>3, <3>1, <3>4 DEF Local, NoLaterOther
    <3>5. QED
      BY <2>3, <3>2, <3>3, <3>4 DEF Handled
  <2>4. ASSUME NEW i \in DOMAIN chan'[p], e \in chan'[p][i].shown,
               NEW j \in DOMAIN chan'[p], j > i,
               NEW f \in Mentioned(chan'[p][j]), nid[f] = nid[e]
        PROVE  f = e
    <3>1. /\ i + 1 \in DOMAIN chan[p] /\ e \in chan[p][i + 1].shown
          /\ j + 1 \in DOMAIN chan[p] /\ f \in Mentioned(chan[p][j + 1])
          /\ j + 1 > i + 1
      BY <1>2, <2>4
    <3>2. QED
      BY <2>2, <2>4, <3>1
  <2>5. QED
    BY <2>3, <2>4
<1>9. SeenComing(p)'
  <2>1. SUFFICES ASSUME NEW q \in joined \ {p}, nid[q] \in snapshot[p], ~ ObjectNid(nid[q])
                 PROVE  \/ replica'[p][nid[q]] = q
                        \/ \E i \in DOMAIN chan'[p] : q \in chan'[p][i].shown
    BY <1>1 DEF SeenComing, ObjectNid
  <2>2. q \in alive \intersect Players
    <3>1. q \in Players
      BY DEF TypeOK
    <3>2. QED
      BY <3>1 DEF Local, ClearedOK
  <2>3. CASE replica[p][nid[q]] = q \/ q \in chan[p][1].shown
    BY <2>1, <2>2, <2>3 DEF Handled
  <2>4. CASE \E i \in DOMAIN chan[p] : i # 1 /\ q \in chan[p][i].shown
    BY <1>2, <2>4
  <2>5. QED
    BY <2>1, <2>3, <2>4 DEF Local, SeenComing
<1>10. ObjectComing(p)'
  <2>1. SUFFICES ASSUME NEW o \in alive \intersect Objects, Unshared(o)
                 PROVE  \/ /\ \A i \in DOMAIN chan'[p] : o \notin Mentioned(chan'[p][i])
                           /\ nid[o] \in spawned'[p] <=> nid[o] \in snapshot[p]
                        \/ \E i \in DOMAIN chan'[p] :
                             /\ o \in Mentioned(chan'[p][i])
                             /\ \A j \in DOMAIN chan'[p] :
                                  j > i => o \notin Mentioned(chan'[p][j])
                             /\ o \in chan'[p][i].shown <=> nid[o] \in snapshot[p]
    BY <1>1 DEF ObjectComing, LastSays, Unshared, Mentioned
  <2> DEFINE m == chan[p][1]
  <2>2. /\ o \in m.shown => nid[o] \in spawned'[p]
        /\ o \in m.hidden => nid[o] \notin spawned'[p]
        /\ o \notin Mentioned(m) => (nid[o] \in spawned'[p] <=> nid[o] \in spawned[p])
    BY <2>1 DEF Handled
  <2>3. CASE /\ \A i \in DOMAIN chan[p] : o \notin Mentioned(chan[p][i])
             /\ nid[o] \in spawned[p] <=> nid[o] \in snapshot[p]
    BY <1>2, <2>2, <2>3
  <2>4. ASSUME NEW i \in DOMAIN chan[p], LastSays(p, o, i), i = 1
        PROVE  /\ \A j \in DOMAIN chan'[p] : o \notin Mentioned(chan'[p][j])
               /\ nid[o] \in spawned'[p] <=> nid[o] \in snapshot[p]
    <3>1. \A j \in DOMAIN chan'[p] : o \notin Mentioned(chan[p][j + 1])
      BY <1>2, <2>4 DEF LastSays
    <3>2. o \in m.shown <=> nid[o] \in snapshot[p]
      BY <2>4 DEF LastSays
    <3>3. o \in m.shown <=> ~ (o \in m.hidden)
      BY <1>2, <1>4, <2>4 DEF LastSays, MessageOK, Mentioned
    <3>4. QED
      BY <1>2, <2>2, <3>1, <3>2, <3>3
  <2>5. ASSUME NEW i \in DOMAIN chan[p], LastSays(p, o, i), i # 1
        PROVE  \E k \in DOMAIN chan'[p] :
                 /\ o \in Mentioned(chan'[p][k])
                 /\ \A j \in DOMAIN chan'[p] :
                      j > k => o \notin Mentioned(chan'[p][j])
                 /\ o \in chan'[p][k].shown <=> nid[o] \in snapshot[p]
    <3>1. i \in Nat /\ i - 1 \in DOMAIN chan'[p] /\ chan'[p][i - 1] = chan[p][i]
      BY <1>2, <2>5
    <3>2. ASSUME NEW j \in DOMAIN chan'[p], j > i - 1
          PROVE  o \notin Mentioned(chan'[p][j])
      BY <1>2, <2>5, <3>1, <3>2 DEF LastSays
    <3>3. QED
      BY <2>5, <3>1, <3>2 DEF LastSays
  <2>6. QED
    BY <2>1, <2>3, <2>4, <2>5 DEF Local, ObjectComing
<1>11. QED
  BY <1>5, <1>6, <1>7, <1>8, <1>9, <1>10 DEF Local

\* The same when no packet of the channel is read.
LEMMA NoReadKeeps ==
    ASSUME ReplicationInv, TypeOK', NEW p \in Players,
           UNCHANGED serverVars, p \in alive, chan'[p] = chan[p],
           Handled(p, InitPacket), HeldOK(p)', WorldOK(p)'
    PROVE  Local(p)'
<1> USE DEF ReplicationInv
<1>1. alive' = alive /\ nid' = nid /\ joined' = joined /\ snapshot' = snapshot
  BY DEF serverVars
<1>2. InitPacket.shown = {} /\ InitPacket.hidden = {} /\ Mentioned(InitPacket) = {}
  BY DEF InitPacket, Mentioned
<1>3. ViewOK(p)' /\ ClearedOK(p)' /\ ChanOK(p)'
  BY <1>1 DEF Local, ViewOK, ClearedOK, ChanOK, MessageOK
<1>4. QuitComing(p)'
  BY <1>1, <1>2 DEF Local, QuitComing, Handled, ObjectNid, QuitPacket
<1>5. NoLaterOther(p)'
  <2>1. ASSUME NEW i \in DOMAIN chan[p], NEW f \in Mentioned(chan[p][i])
        PROVE  nid[f] # nid[p]
    BY <2>1 DEF Local, ChanOK, MessageOK
  <2>2. QED
    BY <1>1, <1>2, <2>1 DEF Local, NoLaterOther, Handled, Mentioned
<1>6. SeenComing(p)'
  <2>1. \A q \in joined : q \in alive \intersect Players
    BY DEF Local, ClearedOK, TypeOK
  <2>2. QED
    BY <1>1, <2>1 DEF Local, SeenComing, Handled, ObjectNid
<1>7. ObjectComing(p)'
  BY <1>1, <1>2 DEF Local, ObjectComing, LastSays, Handled, Unshared, Mentioned
<1>8. QED
  BY <1>3, <1>4, <1>5, <1>6, <1>7 DEF Local

\* The clients but the one that steps do not notice.
LEMMA OthersKeep ==
    ASSUME ReplicationInv, NEW p \in Players, UNCHANGED serverVars,
           chan'[p] = chan[p], world'[p] = world[p], replica'[p] = replica[p],
           player_clients'[p] = player_clients[p], spawned'[p] = spawned[p]
    PROVE  Local(p)'
<1> USE DEF ReplicationInv
<1>1. alive' = alive /\ nid' = nid /\ joined' = joined /\ snapshot' = snapshot
  BY DEF serverVars
<1>2. ViewOK(p)' /\ ClearedOK(p)' /\ ChanOK(p)' /\ WorldOK(p)'
  <2>1. ViewOK(p)' /\ ClearedOK(p)'
    BY <1>1 DEF Local, ViewOK, ClearedOK
  <2>2. ChanOK(p)'
    BY <1>1 DEF Local, ChanOK, MessageOK
  <2>3. WorldOK(p)'
    BY <1>1 DEF Local, WorldOK
  <2>4. QED
    BY <2>1, <2>2, <2>3
<1>3. HeldOK(p)'
  BY <1>1 DEF Local, HeldOK, ObjectNid
<1>4. QuitComing(p)'
  BY <1>1 DEF Local, QuitComing, ObjectNid, QuitPacket
<1>5. NoLaterOther(p)'
  BY <1>1 DEF Local, NoLaterOther, Mentioned
<1>6. SeenComing(p)'
  BY <1>1 DEF Local, SeenComing, ObjectNid
<1>7. ObjectComing(p)'
  BY <1>1 DEF Local, ObjectComing, LastSays, Unshared, Mentioned
<1>8. QED
  BY <1>2, <1>3, <1>4, <1>5, <1>6, <1>7 DEF Local

LEMMA HeadRead ==
    ASSUME ReplicationInv, NEW p \in Players, chan[p] # <<>>, Received(p)
    PROVE  /\ Head(chan[p]) = chan[p][1] /\ 1 \in DOMAIN chan[p]
           /\ Read(chan[p], chan'[p])
           /\ \A q \in Players \ {p} : chan'[q] = chan[q]
           /\ MessageOK(p, chan[p][1])
           /\ chan[p][1].shown \in SUBSET Entity /\ chan[p][1].hidden \in SUBSET Entity
<1>1. /\ chan \in [Players -> Seq(Messages)] /\ chan[p] \in Seq(Messages)
      /\ chan' = [chan EXCEPT ![p] = Tail(@)]
  BY DEF ReplicationInv, TypeOK, Received
<1>2. Head(chan[p]) = chan[p][1] /\ Read(chan[p], Tail(chan[p])) /\ 1 \in DOMAIN chan[p]
  BY <1>1, TailRead DEF Read
<1>3. chan'[p] = Tail(chan[p]) /\ \A q \in Players \ {p} : chan'[q] = chan[q]
  BY <1>1
<1>4. QED
  BY <1>2, <1>3, MessageTypes DEF ReplicationInv, Local, ChanOK

\* What the entities of the first packet do to the client's map.
LEMMA ShownHolds ==
    ASSUME ReplicationInv, NEW p \in Players, p \in alive, 1 \in DOMAIN chan[p],
           NEW S, S = chan[p][1].shown, S \in SUBSET Entity
    PROVE  /\ \A n \in Nids : Shown(p, S)[n] # Null => nid[Shown(p, S)[n]] = n
           /\ Shown(p, S)[nid[p]] = replica[p][nid[p]]
           /\ \A q \in S \intersect Players :
                nid[q] \in Nids /\ (Shown(p, S)[nid[q]] = q \/ ObjectNid(nid[q]))
           /\ \A q \in player_clients[p] \ TakenOver(p, S) :
                Shown(p, S)[nid[q]] = q \/ ObjectNid(nid[q])
           /\ \A e \in alive : Shown(p, S)[nid[e]] = e => replica[p][nid[e]] = e \/ e \in S
           /\ \A q \in alive \intersect Players :
                replica[p][nid[q]] = q => Shown(p, S)[nid[q]] = q
<1> USE DEF ReplicationInv
<1> DEFINE R == Shown(p, S)
<1>1. /\ nid[p] \in Nids /\ \A e \in alive : nid[e] \in Nids
      /\ replica[p] \in [Nids -> Entity \union {Null}]
      /\ player_clients[p] \in SUBSET Players
  BY DEF Identified, TypeOK
<1>2. /\ \A e \in S : nid[e] \in Nids /\ nid[e] # nid[p]
      /\ \A e, f \in S : nid[e] = nid[f] => e = f
  BY DEF Local, ChanOK, MessageOK, Mentioned
<1>3. \A e \in S : R[nid[e]] = IF Fits(p, e) THEN e ELSE replica[p][nid[e]]
  <2>1. ASSUME NEW e \in S
        PROVE  (CHOOSE x \in S : nid[x] = nid[e]) = e
    BY <1>2
  <2>2. ASSUME NEW e \in S
        PROVE  (\E x \in S : nid[x] = nid[e] /\ Fits(p, x)) <=> Fits(p, e)
    BY <1>2
  <2>3. \A e \in S : R[nid[e]] = IF \E x \in S : nid[x] = nid[e] /\ Fits(p, x)
                                THEN CHOOSE x \in S : nid[x] = nid[e]
                                ELSE replica[p][nid[e]]
    BY <1>2 DEF Shown
  <2> HIDE DEF R
  <2>4. QED
    BY <2>1, <2>2, <2>3
<1>4. \A n \in Nids : R[n] = replica[p][n] \/ \E e \in S : nid[e] = n /\ R[n] = e
  <2>1. ASSUME NEW n \in Nids, \A e \in S : nid[e] # n PROVE R[n] = replica[p][n]
    BY <2>1 DEF Shown
  <2> HIDE DEF R
  <2>2. QED
    BY <1>3, <2>1
<1>5. \A n \in Nids : (\A e \in S : nid[e] # n) => R[n] = replica[p][n]
  BY DEF Shown
<1>6. \A e \in Entity : nid[e] \in Nids /\ replica[p][nid[e]] # Null =>
        nid[replica[p][nid[e]]] = nid[e]
  BY DEF Local, HeldOK
<1>7. \A q \in S \intersect Players : Fits(p, q) \/ ObjectNid(nid[q])
  <2>1. ASSUME NEW q \in S \intersect Players, ~ Fits(p, q) PROVE ObjectNid(nid[q])
    <3>1. replica[p][nid[q]] \in Objects
      BY <1>1, <1>2, <2>1 DEF Fits, Entity
    <3>2. nid[replica[p][nid[q]]] = nid[q]
      BY <1>2, <1>6, <2>1, <3>1, NullIsNone DEF Entity
    <3>3. QED
      BY <3>1, <3>2 DEF ObjectNid
  <2>2. QED
    BY <2>1
<1>8. ASSUME NEW q \in player_clients[p] \ TakenOver(p, S)
      PROVE  R[nid[q]] = q \/ ObjectNid(nid[q])
  <2>1. nid[q] \in Nids /\ (replica[p][nid[q]] = q \/ ObjectNid(nid[q]))
    BY DEF Local, HeldOK
  <2>2. ASSUME NEW e \in S, nid[e] = nid[q], replica[p][nid[q]] = q PROVE ObjectNid(nid[q])
    <3>1. e \notin Players
      BY <1>1, <1>8, <2>2 DEF TakenOver
    <3>2. QED
      BY <2>2, <3>1 DEF ObjectNid, Entity
  <2> HIDE DEF R
  <2>3. QED
    BY <1>5, <2>1, <2>2
<1>9. ASSUME NEW q \in alive \intersect Players, replica[p][nid[q]] = q
      PROVE  R[nid[q]] = q
  <2>1. \A e \in S : nid[e] = nid[q] => e = q
    BY <1>9 DEF Local, NoLaterOther, Mentioned
  <2> HIDE DEF R
  <2>2. QED
    BY <1>1, <1>3, <1>5, <1>9, <2>1
<1> HIDE DEF R
<1>10. \A n \in Nids : R[n] # Null => nid[R[n]] = n
  BY <1>4 DEF Local, HeldOK
<1>11. R[nid[p]] = replica[p][nid[p]]
  BY <1>1, <1>2, <1>5
<1>12. \A q \in S \intersect Players : nid[q] \in Nids /\ (R[nid[q]] = q \/ ObjectNid(nid[q]))
  BY <1>2, <1>3, <1>7
<1>13. \A e \in alive : R[nid[e]] = e => replica[p][nid[e]] = e \/ e \in S
  BY <1>1, <1>4
<1>14. QED
  BY <1>8, <1>9, <1>10, <1>11, <1>12, <1>13 DEF R

LEMMA RecvInitKeeps ==
    ASSUME ReplicationInv, TypeOK', NEW q \in Players, RecvInit(q), NEW p \in Players
    PROVE  Local(p)'
<1> USE DEF ReplicationInv
<1>1. /\ q \in alive /\ chan[q] # <<>> /\ Head(chan[q]) = InitPacket /\ Received(q)
      /\ replica' = [replica EXCEPT ![q][nid[q]] = IF @ = Null THEN q ELSE @]
      /\ player_clients' = [player_clients EXCEPT ![q] = @ \union {q}]
      /\ UNCHANGED <<serverVars, world, spawned>>
  BY DEF RecvInit, Runs, Clients
<1>2. CASE p # q
  <2>1. /\ replica'[p] = replica[p] /\ player_clients'[p] = player_clients[p]
        /\ chan'[p] = chan[p]
    BY <1>1, <1>2, HeadRead DEF TypeOK
  <2>2. QED
    BY <1>1, <2>1, OthersKeep
<1>3. CASE p = q
  <2>1. chan[p][1] = InitPacket /\ Read(chan[p], chan'[p])
    BY <1>1, <1>3, HeadRead
  <2>2. nid[p] \in Nids /\ nid' = nid /\ alive' = alive
        /\ replica[p] \in [Nids -> Entity \union {Null}]
        /\ replica[p][nid[p]] \in {Null, p} /\ player_clients[p] \in SUBSET Players
    BY <1>1, <1>3 DEF Identified, TypeOK, serverVars, Local, HeldOK
  <2>3. /\ replica'[p] = [replica[p] EXCEPT ![nid[p]] = p]
        /\ player_clients'[p] = player_clients[p] \union {p}
        /\ spawned'[p] = spawned[p]
    BY <1>1, <1>3, <2>2 DEF TypeOK
  <2>4. HeldOK(p)'
    <3>1. \A n \in Nids : replica'[p][n] # Null => nid[replica'[p][n]] = n
      BY <2>2, <2>3 DEF Local, HeldOK
    <3>2. \A x \in player_clients'[p] :
            nid[x] \in Nids /\ (ObjectNid(nid[x]) \/ replica'[p][nid[x]] = x)
      BY <2>2, <2>3, NullIsNone DEF Local, HeldOK, Entity
    <3>3. \A n \in spawned'[p] : \E e \in Entity : nid[e] = n
      BY <2>3 DEF Local, HeldOK
    <3>4. QED
      BY <2>2, <2>3, <3>1, <3>2, <3>3 DEF HeldOK, ObjectNid
  <2>5. Handled(p, InitPacket)
    <3>1. InitPacket.shown = {} /\ InitPacket.hidden = {} /\ Mentioned(InitPacket) = {}
      BY DEF InitPacket, Mentioned
    <3>2. \A x \in Players : InitPacket # QuitPacket(x)
      BY DEF InitPacket, QuitPacket
    <3>3. \A e \in alive \ {p} : nid[e] # nid[p] /\ nid[e] \in Nids
      BY <1>1, <1>3 DEF Identified
    <3>4. QED
      BY <1>1, <1>3, <2>2, <2>3, <3>1, <3>2, <3>3 DEF Handled
  <2>6. WorldOK(p)'
    BY <1>1, <2>2 DEF Local, WorldOK
  <2>7. QED
    BY <1>1, <1>3, <2>1, <2>4, <2>5, <2>6, ReadKeeps
<1>4. QED
  BY <1>2, <1>3

\* A message that shows something, as View and Join packets do.
LEMMA ShowKeeps ==
    ASSUME ReplicationInv, TypeOK', NEW p \in Players, p \in alive, chan[p] # <<>>, Received(p),
           NEW S, S = chan[p][1].shown, NEW H, H = chan[p][1].hidden,
           chan[p][1].act # "Quit",
           replica' = [replica EXCEPT ![p] = Shown(p, S)],
           player_clients' = [player_clients EXCEPT
               ![p] = (@ \ TakenOver(p, S)) \union (S \intersect Players)],
           spawned' = [spawned EXCEPT
               ![p] = (@ \union SpawnedFor(p, S)) \ {nid[e] : e \in H}],
           UNCHANGED <<serverVars, world>>, NEW r \in Players
    PROVE  Local(r)'
<1> USE DEF ReplicationInv
<1>1. CASE r # p
  <2>1. /\ replica'[r] = replica[r] /\ player_clients'[r] = player_clients[r]
        /\ chan'[r] = chan[r] /\ spawned'[r] = spawned[r]
    BY <1>1, HeadRead DEF TypeOK
  <2>2. QED
    BY <2>1, OthersKeep
<1>2. Local(p)'
  <2>1. /\ 1 \in DOMAIN chan[p] /\ Read(chan[p], chan'[p]) /\ MessageOK(p, chan[p][1])
        /\ S \in SUBSET Entity /\ H \in SUBSET Entity
    BY HeadRead
  <2>2. /\ nid[p] \in Nids /\ nid' = nid /\ alive' = alive
        /\ replica[p][nid[p]] \in {Null, p}
    BY DEF Identified, serverVars, Local, HeldOK
  <2>3. /\ replica'[p] = Shown(p, S)
        /\ player_clients'[p] =
             (player_clients[p] \ TakenOver(p, S)) \union (S \intersect Players)
        /\ spawned'[p] = (spawned[p] \union SpawnedFor(p, S)) \ {nid[e] : e \in H}
    BY DEF TypeOK
  <2> DEFINE G == SpawnedFor(p, S)
  <2>4. (\A n \in G : \E e \in S : nid[e] = n) /\ \A o \in S \intersect Objects : nid[o] \in G
    BY DEF SpawnedFor
  <2> HIDE DEF G
  <2>5. spawned'[p] = (spawned[p] \union G) \ {nid[e] : e \in H}
    BY <2>3 DEF G
  <2>6. HeldOK(p)'
    <3>1. \A n \in spawned'[p] : \E e \in Entity : nid[e] = n
      BY <2>1, <2>4, <2>5 DEF Local, HeldOK
    <3>2. \A x \in player_clients'[p] :
            nid[x] \in Nids /\ (ObjectNid(nid[x]) \/ replica'[p][nid[x]] = x)
      BY <2>1, <2>3, ShownHolds DEF Local, HeldOK
    <3>3. /\ \A n \in Nids : replica'[p][n] # Null => nid[replica'[p][n]] = n
          /\ replica'[p][nid[p]] \in {Null, p}
      BY <2>1, <2>2, <2>3, ShownHolds
    <3>4. QED
      BY <2>2, <3>1, <3>2, <3>3 DEF HeldOK, ObjectNid
  <2>7. Handled(p, chan[p][1])
    <3>1. \A x \in Players : chan[p][1] # QuitPacket(x)
      BY DEF QuitPacket
    <3>2. \A x \in player_clients'[p] : x \in player_clients[p] \/ x \in S
      BY <2>3
    <3>3. \A e \in alive : replica'[p][nid[e]] = e => replica[p][nid[e]] = e \/ e \in S
      BY <2>1, <2>3, ShownHolds
    <3>4. \A x \in alive \intersect Players : replica[p][nid[x]] = x \/ x \in S =>
            replica'[p][nid[x]] = x \/ ObjectNid(nid[x])
      BY <2>1, <2>3, ShownHolds
    <3>5. ASSUME NEW o \in alive \intersect Objects, Unshared(o)
          PROVE  /\ o \in S => nid[o] \in spawned'[p]
                 /\ o \in H => nid[o] \notin spawned'[p]
                 /\ o \notin S \union H => (nid[o] \in spawned'[p] <=> nid[o] \in spawned[p])
      <4>1. \A e \in S \union H : nid[e] = nid[o] => e = o
        BY <2>1, <3>5 DEF Unshared
      <4>2. S \intersect H = {}
        BY <2>1 DEF MessageOK
      <4>3. QED
        BY <2>4, <2>5, <4>1, <4>2
    <3>6. QED
      BY <3>1, <3>2, <3>3, <3>4, <3>5 DEF Handled, Mentioned
  <2>8. WorldOK(p)'
    BY <2>2 DEF Local, WorldOK
  <2>9. QED
    BY <2>1, <2>6, <2>7, <2>8, ReadKeeps
<1>3. QED
  BY <1>1, <1>2

LEMMA RecvViewKeeps ==
    ASSUME ReplicationInv, TypeOK', NEW q \in Players, RecvView(q), NEW p \in Players
    PROVE  Local(p)'
<1>1. q \in alive /\ chan[q] # <<>> /\ Received(q) /\ UNCHANGED <<serverVars, world>>
  BY DEF RecvView, Runs, Clients
<1>2. Head(chan[q]) = chan[q][1]
  BY <1>1, HeadRead
<1>3. "View" # "Quit"
  OBVIOUS
<1>4. QED
  BY <1>1, <1>2, <1>3, ShowKeeps DEF RecvView

LEMMA RecvJoinKeeps ==
    ASSUME ReplicationInv, TypeOK', NEW q \in Players, RecvJoin(q), NEW p \in Players
    PROVE  Local(p)'
<1>1. q \in alive /\ chan[q] # <<>> /\ Received(q) /\ UNCHANGED <<serverVars, world>>
  BY DEF RecvJoin, Runs, Clients
<1>2. Head(chan[q]) = chan[q][1] /\ MessageOK(q, chan[q][1])
  BY <1>1, HeadRead
<1> DEFINE S == chan[q][1].shown
           H == chan[q][1].hidden
<1>3. chan[q][1].act = "Join"
  BY <1>2 DEF RecvJoin
<1>4. S \in SUBSET Players /\ H = {}
  <2>1. PICK x \in Players : chan[q][1] = JoinPacket(x)
    BY <1>2, <1>3 DEF MessageOK
  <2>2. QED
    BY <2>1 DEF JoinPacket
<1>5. S \intersect Players = S /\ {nid[e] : e \in H} = {}
  BY <1>4
<1>6. /\ replica' = [replica EXCEPT ![q] = Shown(q, S)]
      /\ player_clients' = [player_clients EXCEPT ![q] = (@ \ TakenOver(q, S)) \union S]
      /\ spawned' = [spawned EXCEPT ![q] = @ \union SpawnedFor(q, S)]
  BY <1>2 DEF RecvJoin
<1>7. /\ player_clients' = [player_clients EXCEPT
            ![q] = (@ \ TakenOver(q, S)) \union (S \intersect Players)]
      /\ spawned' = [spawned EXCEPT
            ![q] = (@ \union SpawnedFor(q, S)) \ {nid[e] : e \in H}]
  BY <1>5, <1>6
<1>8. QED
  BY <1>1, <1>3, <1>6, <1>7, ShowKeeps

LEMMA RecvQuitKeeps ==
    ASSUME ReplicationInv, TypeOK', NEW q \in Players, RecvQuit(q), NEW p \in Players
    PROVE  Local(p)'
<1> USE DEF ReplicationInv
<1>1. /\ q \in alive /\ chan[q] # <<>> /\ Received(q) /\ Head(chan[q]).act = "Quit"
      /\ UNCHANGED <<serverVars, world>>
  BY DEF RecvQuit, Runs, Clients
<1>2. /\ Head(chan[q]) = chan[q][1] /\ MessageOK(q, chan[q][1])
      /\ Read(chan[q], chan'[q]) /\ 1 \in DOMAIN chan[q]
  BY <1>1, HeadRead
<1>3. PICK left \in Players \ alive : chan[q][1] = QuitPacket(left)
  BY <1>1, <1>2 DEF MessageOK
<1> DEFINE gone == {replica[q][nid[left]]} \intersect Players
<1>4. /\ replica' = [replica EXCEPT ![q] = [n \in Nids |-> IF @[n] \in gone THEN Null ELSE @[n]]]
      /\ player_clients' = [player_clients EXCEPT ![q] = @ \ gone]
      /\ spawned' = [spawned EXCEPT ![q] = @ \ {nid[x] : x \in gone}]
  <2>1. chan[q][1].hidden = {left}
    BY <1>3 DEF QuitPacket
  <2>2. {replica[q][nid[x]] : x \in {left}} \intersect Players = gone
    OBVIOUS
  <2> HIDE DEF gone
  <2>3. QED
    BY <1>2, <2>1, <2>2 DEF RecvQuit
<1>5. CASE p # q
  <2>1. /\ replica'[p] = replica[p] /\ player_clients'[p] = player_clients[p]
        /\ chan'[p] = chan[p] /\ spawned'[p] = spawned[p]
    BY <1>1, <1>4, <1>5, HeadRead DEF TypeOK
  <2>2. QED
    BY <1>1, <2>1, OthersKeep
<1>6. CASE p = q
  <2>1. /\ nid[p] \in Nids /\ nid' = nid /\ alive' = alive
        /\ replica[p] \in [Nids -> Entity \union {Null}]
        /\ replica[p][nid[p]] \in {Null, p} /\ player_clients[p] \in SUBSET Players
        /\ nid[left] \in Nids
    BY <1>1, <1>2, <1>3, <1>6
    DEF Identified, TypeOK, serverVars, Local, HeldOK, MessageOK, Mentioned, QuitPacket
  <2>2. /\ replica'[p] = [n \in Nids |-> IF replica[p][n] \in gone THEN Null ELSE replica[p][n]]
        /\ player_clients'[p] = player_clients[p] \ gone
        /\ spawned'[p] = spawned[p] \ {nid[x] : x \in gone}
    BY <1>4, <1>6 DEF TypeOK
  <2>3. gone = {replica[p][nid[left]]} \intersect Players
    BY <1>6
  <2> HIDE DEF gone
  <2>4. HeldOK(p)'
    <3>1. \A n \in Nids : replica'[p][n] # Null => nid[replica'[p][n]] = n
      BY <2>2 DEF Local, HeldOK
    <3>2. \A x \in player_clients'[p] :
            nid[x] \in Nids /\ (ObjectNid(nid[x]) \/ replica'[p][nid[x]] = x)
      BY <2>2 DEF Local, HeldOK
    <3>3. \A n \in spawned'[p] : \E e \in Entity : nid[e] = n
      BY <2>2 DEF Local, HeldOK
    <3>4. QED
      BY <2>1, <2>2, <3>1, <3>2, <3>3 DEF HeldOK, ObjectNid
  <2>5. Handled(p, chan[p][1])
    <3>1. /\ chan[p][1] = QuitPacket(left) /\ chan[p][1].shown = {} /\ chan[p][1].hidden = {left}
          /\ \A x : chan[p][1] = QuitPacket(x) => x = left
      BY <1>3, <1>6 DEF QuitPacket
    <3>2. left \in player_clients'[p] => ObjectNid(nid[left])
      BY <2>2, <2>3 DEF Local, HeldOK
    <3>3. \A x \in gone : x \in Players /\ nid[x] = nid[left]
      BY <2>1, <2>3, NullIsNone DEF Local, HeldOK, Entity
    <3>4. ASSUME NEW x \in alive \intersect Players, replica[p][nid[x]] = x
          PROVE  replica'[p][nid[x]] = x
      <4>1. \A f \in Mentioned(chan[p][1]) : nid[f] = nid[x] => f = x
        BY <1>2, <1>6, <3>4 DEF Local, NoLaterOther
      <4>2. x \notin gone
        BY <1>3, <3>1, <3>3, <4>1 DEF Mentioned
      <4>3. nid[x] \in Nids
        BY DEF Identified
      <4>4. QED
        BY <2>2, <3>4, <4>2, <4>3
    <3>5. \A e \in alive : replica'[p][nid[e]] = e => replica[p][nid[e]] = e
      BY <2>2, NullIsNone DEF Identified, TypeOK
    <3>6. ASSUME NEW o \in alive \intersect Objects, Unshared(o)
          PROVE  /\ o # left
                 /\ nid[o] \in spawned'[p] <=> nid[o] \in spawned[p]
      BY <2>2, <3>3, <3>6, NullIsNone DEF Unshared, Entity
    <3>7. QED
      BY <2>2, <3>1, <3>2, <3>4, <3>5, <3>6 DEF Handled, Mentioned
  <2>6. WorldOK(p)'
    BY <1>1, <2>1 DEF Local, WorldOK
  <2>7. QED
    BY <1>1, <1>2, <1>6, <2>4, <2>5, <2>6, ReadKeeps
<1>7. QED
  BY <1>5, <1>6

LEMMA EnterGameKeeps ==
    ASSUME ReplicationInv, TypeOK', NEW q \in Players, EnterGame(q), NEW p \in Players
    PROVE  Local(p)'
<1> USE DEF ReplicationInv
<1>1. /\ q \in alive /\ replica[q][nid[q]] = q
      /\ spawned' = [spawned EXCEPT ![q] = @ \union {nid[q]}]
      /\ UNCHANGED <<serverVars, netVars, replica, player_clients>>
  BY DEF EnterGame, Runs, Clients
<1>2. CASE p # q
  BY <1>1, <1>2, OthersKeep DEF TypeOK, netVars
<1>3. CASE p = q
  <2>1. /\ nid' = nid /\ alive' = alive /\ chan'[p] = chan[p] /\ world'[p] = world[p]
        /\ spawned'[p] = spawned[p] \union {nid[p]}
    BY <1>1, <1>3 DEF serverVars, netVars, TypeOK
  <2>2. HeldOK(p)'
    BY <1>1, <2>1 DEF Local, HeldOK, ObjectNid, Entity
  <2>3. Handled(p, InitPacket)
    <3>1. InitPacket.shown = {} /\ InitPacket.hidden = {} /\ Mentioned(InitPacket) = {}
      BY DEF InitPacket, Mentioned
    <3>2. \A x \in Players : InitPacket # QuitPacket(x)
      BY DEF InitPacket, QuitPacket
    <3>3. \A o \in alive \intersect Objects : nid[o] # nid[p]
      BY <1>1, <1>3, NullIsNone DEF Identified
    <3>4. QED
      BY <1>1, <2>1, <3>1, <3>2, <3>3 DEF Handled
  <2>4. WorldOK(p)'
    BY <2>1 DEF Local, WorldOK
  <2>5. QED
    BY <1>1, <1>3, <2>1, <2>2, <2>3, <2>4, NoReadKeeps
<1>4. QED
  BY <1>2, <1>3

LEMMA RecvDestroyObjectKeeps ==
    ASSUME ReplicationInv, TypeOK', NEW q \in Players, RecvDestroyObject(q), NEW p \in Players
    PROVE  Local(p)'
<1> USE DEF ReplicationInv
<1> DEFINE o == Head(world[q])
           n == nid[o]
<1>1. /\ q \in alive /\ world[q] # <<>> /\ world' = [world EXCEPT ![q] = Tail(@)]
      /\ UNCHANGED <<serverVars, chan, player_clients>>
  BY DEF RecvDestroyObject, Runs, Clients
<1>2. \/ UNCHANGED <<replica, spawned>>
      \/ /\ replica[q][n] # Null /\ replica[q][n] \notin Players
         /\ replica' = [replica EXCEPT ![q][n] = Null]
         /\ spawned' = [spawned EXCEPT ![q] = @ \ {n}]
  BY DEF RecvDestroyObject
<1>3. /\ Read(world[q], Tail(world[q])) /\ o = world[q][1] /\ 1 \in DOMAIN world[q]
      /\ o \in Objects \ alive /\ n \in Nids
  <2>1. world[q] \in Seq(Objects)
    BY DEF TypeOK
  <2>2. Read(world[q], Tail(world[q])) /\ o = world[q][1]
    BY <1>1, <2>1, TailRead
  <2>3. QED
    BY <2>2 DEF Read, Local, WorldOK
<1> HIDE DEF o, n
<1>4. CASE p # q
  <2>1. /\ replica'[p] = replica[p] /\ world'[p] = world[p] /\ spawned'[p] = spawned[p]
    BY <1>1, <1>2, <1>4 DEF TypeOK
  <2>2. QED
    BY <1>1, <2>1, OthersKeep
<1>5. CASE p = q
  <2>1. /\ nid' = nid /\ alive' = alive /\ chan'[p] = chan[p]
        /\ player_clients'[p] = player_clients[p] /\ world'[p] = Tail(world[p])
        /\ replica[p] \in [Nids -> Entity \union {Null}] /\ nid[p] \in Nids
    BY <1>1, <1>5 DEF serverVars, TypeOK, Identified
  <2>2. \/ replica'[p] = replica[p] /\ spawned'[p] = spawned[p]
        \/ /\ replica[p][n] # Null /\ replica[p][n] \notin Players
           /\ replica'[p] = [replica[p] EXCEPT ![n] = Null]
           /\ spawned'[p] = spawned[p] \ {n}
    BY <1>2, <1>3, <1>5 DEF TypeOK
  <2>3. ObjectNid(n)
    BY <1>3 DEF n, ObjectNid
  <2>4. WorldOK(p)'
    BY <1>3, <1>5, <2>1 DEF Local, WorldOK, Read
  <2>5. \A m \in Nids :
          \/ replica'[p][m] = replica[p][m]
          \/ m = n /\ replica[p][m] \notin Players /\ replica'[p][m] = Null
    <3>1. CASE replica'[p] = replica[p]
      BY <3>1
    <3>2. CASE replica[p][n] \notin Players /\ replica'[p] = [replica[p] EXCEPT ![n] = Null]
      BY <1>3, <2>1, <3>2
    <3>3. QED
      BY <2>2, <3>1, <3>2
  <2>6. HeldOK(p)'
    <3>1. \A m \in Nids : replica'[p][m] # Null => nid[replica'[p][m]] = m
      BY <2>5 DEF Local, HeldOK
    <3>2. \A x \in player_clients[p] :
            nid[x] \in Nids /\ (ObjectNid(nid[x]) \/ replica'[p][nid[x]] = x)
      BY <2>3, <2>5 DEF Local, HeldOK
    <3>3. \A m \in spawned'[p] : \E e \in Entity : nid[e] = m
      BY <2>2 DEF Local, HeldOK
    <3>4. replica'[p][nid[p]] \in {Null, p}
      BY <1>1, <1>5, <2>1, <2>5 DEF Local, HeldOK
    <3>5. QED
      BY <2>1, <3>1, <3>2, <3>3, <3>4 DEF HeldOK, ObjectNid
  <2>7. Handled(p, InitPacket)
    <3>1. InitPacket.shown = {} /\ InitPacket.hidden = {} /\ Mentioned(InitPacket) = {}
      BY DEF InitPacket, Mentioned
    <3>2. \A x \in Players : InitPacket # QuitPacket(x)
      BY DEF InitPacket, QuitPacket
    <3>3. \A e \in alive : nid[e] \in Nids /\ e # Null
      BY NullIsNone DEF Identified, TypeOK
    <3>4. \A e \in alive : replica'[p][nid[e]] = e => replica[p][nid[e]] = e
      BY <2>5, <3>3
    <3>5. \A x \in alive \intersect Players : replica[p][nid[x]] = x =>
            replica'[p][nid[x]] = x
      BY <2>5, <3>3
    <3>6. \A x \in alive \intersect Objects : Unshared(x) =>
            (nid[x] \in spawned'[p] <=> nid[x] \in spawned[p])
      BY <1>3, <2>2 DEF Unshared, Entity, n
    <3>7. QED
      BY <2>1, <3>1, <3>2, <3>4, <3>5, <3>6 DEF Handled
  <2>8. QED
    BY <1>1, <1>5, <2>1, <2>4, <2>6, <2>7, NoReadKeeps
<1>6. QED
  BY <1>4, <1>5

LEMMA ReceiveKeeps ==
    ASSUME ReplicationInv, TypeOK', NEW q \in Players, Receive(q), NEW p \in Players
    PROVE  Local(p)'
  BY RecvInitKeeps, RecvViewKeeps, RecvJoinKeeps, RecvQuitKeeps, RecvDestroyObjectKeeps DEF Receive

-----------------------------------------------------------------------------
(* The theorems                                                            *)

LEMMA InitInv == Init => ReplicationInv
<1> SUFFICES ASSUME Init PROVE ReplicationInv
  OBVIOUS
<1> USE DEF Init
<1>1. TypeOK /\ Identified
  BY InitTypes DEF Identified
<1>2. ASSUME NEW p \in Players PROVE Local(p)
  <2>1. ViewOK(p) /\ ClearedOK(p) /\ ChanOK(p) /\ WorldOK(p) /\ HeldOK(p)
    BY DEF ViewOK, ClearedOK, ChanOK, WorldOK, HeldOK
  <2>2. QuitComing(p) /\ NoLaterOther(p) /\ SeenComing(p) /\ ObjectComing(p)
    BY DEF QuitComing, NoLaterOther, SeenComing, ObjectComing
  <2>3. QED
    BY <2>1, <2>2 DEF Local
<1>3. QED
  BY <1>1, <1>2 DEF ReplicationInv

LEMMA StepInv == ReplicationInv /\ [Next]_vars => ReplicationInv'
<1> SUFFICES ASSUME ReplicationInv, [Next]_vars PROVE ReplicationInv'
  OBVIOUS
<1>1. TypeOK' /\ Identified'
  BY StepTypes, StepIdentified DEF ReplicationInv, Local
<1>2. ASSUME NEW p \in Players PROVE Local(p)'
  <2>1. ASSUME NEW q \in Players, Connect(q) PROVE Local(p)'
    BY <1>1, <2>1, ConnectKeeps
  <2>2. ASSUME NEW q \in Players, SendInit(q) PROVE Local(p)'
    BY <1>1, <2>2, SendInitKeeps
  <2>3. ASSUME NEW q \in Players, Join(q) PROVE Local(p)'
    BY <1>1, <2>3, JoinKeeps
  <2>4. ASSUME NEW q \in Players, Disconnect(q) PROVE Local(p)'
    BY <1>1, <2>4, DisconnectKeeps
  <2>5. ASSUME NEW q \in Players, EnterGame(q) PROVE Local(p)'
    BY <1>1, <2>5, EnterGameKeeps
  <2>6. ASSUME NEW q \in Players, Receive(q) PROVE Local(p)'
    BY <1>1, <2>6, ReceiveKeeps
  <2>7. ASSUME NEW o \in Objects, Spawn(o) PROVE Local(p)'
    BY <1>1, <2>7, SpawnKeeps
  <2>8. ASSUME NEW o \in Objects, DestroyObject(o) PROVE Local(p)'
    BY <1>1, <2>8, DestroyObjectKeeps
  <2>9. CASE TimedUpdate
    BY <1>1, <2>9, TimedUpdateKeeps
  <2>10. CASE UNCHANGED vars
    BY <2>10, OthersKeep DEF vars, netVars, clientVars
  <2>11. QED
    BY <2>1, <2>2, <2>3, <2>4, <2>5, <2>6, <2>7, <2>8, <2>9, <2>10 DEF Next
<1>3. QED
  BY <1>1, <1>2 DEF ReplicationInv

\* The inductive invariant: what the server remembers, what is under way and what
\* a client holds agree, for every number of clients, objects and NIDs.
THEOREM ReplicationInvariant == Spec => []ReplicationInv
<1>1. QED
  BY InitInv, StepInv, PTL DEF Spec

\* The types of the replication, on the server and on every client.
THEOREM ReplicationTypeCorrect == Spec => []TypeOK
<1>1. ReplicationInv => TypeOK
  BY DEF ReplicationInv
<1>2. QED
  BY <1>1, ReplicationInvariant, PTL

\* No packet under way to a client names its own NID (the check in
\* nh_player_client.cpp), though NIDs pass from one entity to the next while the
\* packet waits.
THEOREM OwnNidSpared == Spec => []OwnNidNeverNamed
<1>1. ReplicationInv => OwnNidNeverNamed
  BY DEF ReplicationInv, Local, ChanOK, MessageOK, OwnNidNeverNamed, Mentioned, Clients
<1>2. QED
  BY <1>1, ReplicationInvariant, PTL

\* A client that has read its channel lists no player that left (player_client's
\* destructor tells everybody), unless the NID was an object's before.
THEOREM DepartedForgotten == Spec => []DepartedUnlisted
<1>1. ASSUME ReplicationInv, NEW p \in Clients \ failed, chan[p] = <<>>,
             NEW q \in player_clients[p]
      PROVE  q \in alive \/ ObjectNid(nid[q])
  <2>1. p \in Players /\ q \in Players /\ DOMAIN chan[p] = {}
    BY <1>1 DEF Clients, ReplicationInv, TypeOK
  <2>2. QED
    BY <1>1, <2>1 DEF ReplicationInv, Local, QuitComing
<1>2. ReplicationInv => DepartedUnlisted
  BY <1>1 DEF DepartedUnlisted
<1>3. QED
  BY <1>2, ReplicationInvariant, PTL

\* A client that has read its channel holds every joined player that librg counts
\* as seen by it, although librg knows only NIDs and takes two players that follow
\* each other under one NID for one.
THEOREM SeenPlayersReplicated == Spec => []SeenPlayersHeld
<1>1. ASSUME ReplicationInv, NEW p \in Clients \ failed, chan[p] = <<>>,
             NEW q \in joined \ {p}, nid[q] \in snapshot[p]
      PROVE  replica[p][nid[q]] = q \/ ObjectNid(nid[q])
  <2>1. p \in Players /\ p \in alive /\ DOMAIN chan[p] = {}
    BY <1>1 DEF Clients
  <2>2. QED
    BY <1>1, <2>1 DEF ReplicationInv, Local, SeenComing
<1>2. ReplicationInv => SeenPlayersHeld
  BY <1>1 DEF SeenPlayersHeld
<1>3. QED
  BY <1>2, ReplicationInvariant, PTL

\* At a client that has read its channel an object with a NID of its own is spawned
\* exactly when librg counts it as seen.
THEOREM ObjectsReplicated == Spec => []ObjectsMatchView
<1>1. ASSUME ReplicationInv, NEW p \in Clients \ failed, chan[p] = <<>>,
             NEW o \in alive \intersect Objects, Unshared(o)
      PROVE  nid[o] \in spawned[p] <=> nid[o] \in snapshot[p]
  <2>1. p \in Players /\ p \in alive /\ DOMAIN chan[p] = {}
    BY <1>1 DEF Clients
  <2>2. QED
    BY <1>1, <2>1 DEF ReplicationInv, Local, ObjectComing
<1>2. ReplicationInv => ObjectsMatchView
  BY <1>1 DEF ObjectsMatchView, Unshared
<1>3. QED
  BY <1>2, ReplicationInvariant, PTL
=============================================================================
