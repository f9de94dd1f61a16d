-------------------------- MODULE ServerWorldProofs --------------------------
(***************************************************************************)
(* Proofs about ServerWorld, for any number of blocks, NIDs, peers,        *)
(* addresses and seats, and about VehicleHandover, which adds the clients: *)
(* their steps are no steps of the server, so its invariants carry over,   *)
(* and one step at a time they follow what the server decides.             *)
(***************************************************************************)
EXTENDS VehicleHandover, TLAPS

\* The inductive invariant: no part is inductive without the others.
WorldInv == TypeOK /\ NidCoherence /\ SeatMapSound /\ PlayersReachable

-----------------------------------------------------------------------------
(* The object lists and the pool                                           *)

\* An object that exists has a NID of its own.
LEMMA LiveNid ==
    ASSUME ObjectTypeOK, PoolTypeOK, NidCoherence,
           NEW D \in SUBSET Obj, \A o \in D : kind[o] # "Freed"
    PROVE  /\ NidsOf(D) \subseteq used_nids
           /\ NidsOf(D) \subseteq Nids
           /\ \A o \in Obj \ D : kind[o] # "Freed" => nid[o] \notin NidsOf(D)
           /\ \A n \in NidsOf(D) : net_objects[n] \in D
           /\ \A n \in Nids \ NidsOf(D) : net_objects[n] \notin D
  <1>1. \A o \in Obj : o # Null
    BY ServerWorldAssumption
  <1> QED BY <1>1 DEF ObjectTypeOK, PoolTypeOK, NidCoherence, Live, NidsOf

\* Removing objects that exist keeps the lists, the pool and the records.
LEMMA ReleaseKeeps ==
    ASSUME ObjectTypeOK, PoolTypeOK, NidCoherence,
           NEW D \in SUBSET Obj, \A o \in D : kind[o] # "Freed", Release(D)
    PROVE  ObjectTypeOK' /\ PoolTypeOK' /\ NidCoherence'
  <1>1. \A o \in Obj : o # Null
    BY ServerWorldAssumption
  <1>2. \A n \in Nids : n # Null
    BY ServerWorldAssumption
  <1>3. /\ NidsOf(D) \subseteq used_nids
        /\ NidsOf(D) \subseteq Nids
        /\ \A o \in Obj \ D : kind[o] # "Freed" => nid[o] \notin NidsOf(D)
        /\ \A n \in NidsOf(D) : net_objects[n] \in D
        /\ \A n \in Nids \ NidsOf(D) : net_objects[n] \notin D
    BY LiveNid
  <1>4. ObjectTypeOK'
    BY <1>1, <1>2, <1>3
    DEF Release, ObjectTypeOK, Without, Untracked, Kinds, ObjectTypes, SyncTypes
  <1>5. PoolTypeOK'
    BY <1>3 DEF Release, PoolTypeOK
  <1>6. NidCoherence'
    <2>1. (free_nids \intersect used_nids = {})' /\ (free_nids \union used_nids = Nids)'
      BY <1>3 DEF Release, NidCoherence, PoolTypeOK
    <2>2. \A o \in Obj : (Live(o) => nid[o] \in used_nids /\ net_objects[nid[o]] = o)'
      BY <1>1, <1>3 DEF Release, NidCoherence, ObjectTypeOK, Live, Without
    <2>3. \A n \in Nids : (n \in used_nids <=> net_objects[n] # Null)'
      BY <1>1, <1>3 DEF Release, NidCoherence, ObjectTypeOK, Without
    <2>4. \A n \in Nids : (net_objects[n] # Null =>
             kind[net_objects[n]] # "Freed" /\ nid[net_objects[n]] = n)'
      BY <1>1, <1>3 DEF Release, NidCoherence, ObjectTypeOK, Without
    <2>5. \A n \in Nids : (n \in used_nids <=> owner[n] # Null)'
      BY <1>1, <1>3 DEF Release, NidCoherence, ObjectTypeOK, Without, Untracked
    <2> QED BY <2>1, <2>2, <2>3, <2>4, <2>5 DEF NidCoherence
  <1> QED BY <1>4, <1>5, <1>6

\* Every object is born with a SyncType.
LEMMA InitialSyncTypeType ==
    ASSUME NEW k \in Kinds
    PROVE  InitialSyncType(k) \in SyncTypes \ {"None"}
  BY DEF InitialSyncType, SyncTypes, Kinds, ObjectTypes

\* A new object keeps the lists, the pool and the records, also when the
\* objects of D were removed just before.
LEMMA CreateKeeps ==
    ASSUME ObjectTypeOK, PoolTypeOK, NidCoherence,
           NEW D \in SUBSET Obj, \A x \in D : kind[x] # "Freed",
           NEW o \in Obj, NEW n \in Nids, NEW k \in Kinds \ {"Freed"},
           Create(D, o, n, k)
    PROVE  ObjectTypeOK' /\ PoolTypeOK' /\ NidCoherence'
  <1>1. \A x \in Obj : x # Null
    BY ServerWorldAssumption
  <1>2. \A x \in Nids : x # Null
    BY ServerWorldAssumption
  <1>3. /\ NidsOf(D) \subseteq used_nids
        /\ NidsOf(D) \subseteq Nids
        /\ \A x \in Obj \ D : kind[x] # "Freed" => nid[x] \notin NidsOf(D)
        /\ \A x \in NidsOf(D) : net_objects[x] \in D
        /\ \A x \in Nids \ NidsOf(D) : net_objects[x] \notin D
    BY LiveNid
  <1>4. InitialSyncType(k) \in SyncTypes \ {"None"}
    BY InitialSyncTypeType
  <1>5. ObjectTypeOK'
    <2>1. kind' \in [Obj -> Kinds]
      BY DEF Create, ObjectTypeOK, Without, Kinds
    <2>2. nid' \in [Obj -> Nids \union {Null}]
      BY DEF Create, ObjectTypeOK, Without
    <2>3. sync_type' \in [Obj -> SyncTypes]
      BY <1>4 DEF Create, ObjectTypeOK, Without, SyncTypes
    <2>4. net_objects' \in [Nids -> Obj \union {Null}]
      BY DEF Create, ObjectTypeOK, Without
    <2>5. owner' \in [Nids -> Nids \union {Null}]
      BY DEF Create, ObjectTypeOK, Without, Untracked
    <2>6. (player_clients \subseteq Obj /\ joined \subseteq Obj /\ dead \subseteq Obj)'
      BY DEF Create, ObjectTypeOK
    <2>7. \A x \in Obj : (kind[x] # "Freed" => sync_type[x] # "None")'
      BY <1>4 DEF Create, ObjectTypeOK, Without
    <2> QED BY <2>1, <2>2, <2>3, <2>4, <2>5, <2>6, <2>7 DEF ObjectTypeOK
  <1>6. PoolTypeOK'
    BY <1>3 DEF Create, PoolTypeOK
  <1>7. NidCoherence'
    <2>1. (free_nids \intersect used_nids = {})' /\ (free_nids \union used_nids = Nids)'
      BY <1>3 DEF Create, NidCoherence, PoolTypeOK
    <2>2. \A x \in Obj : (Live(x) => nid[x] \in used_nids /\ net_objects[nid[x]] = x)'
      BY <1>1, <1>3 DEF Create, NidCoherence, ObjectTypeOK, Live, Without
    <2>3. \A x \in Nids : (x \in used_nids <=> net_objects[x] # Null)'
      BY <1>1, <1>3 DEF Create, NidCoherence, ObjectTypeOK, Without
    <2>4. \A x \in Nids : (net_objects[x] # Null =>
             kind[net_objects[x]] # "Freed" /\ nid[net_objects[x]] = x)'
      BY <1>1, <1>3 DEF Create, NidCoherence, ObjectTypeOK, Without
    <2>5. \A x \in Nids : (x \in used_nids <=> owner[x] # Null)'
      BY <1>1, <1>2, <1>3
      DEF Create, NidCoherence, ObjectTypeOK, Without, Untracked
    <2> QED BY <2>1, <2>2, <2>3, <2>4, <2>5 DEF NidCoherence
  <1> QED BY <1>5, <1>6, <1>7

-----------------------------------------------------------------------------
(* Seats                                                                   *)

\* A player who leaves his vehicle is in no seat of any vehicle afterwards.
LEMMA SeatsLeft ==
    ASSUME SeatTypeOK, SeatMapSound, NEW p \in Obj
    PROVE  /\ SeatsLeftBy(p) \in [Obj -> [Seats -> Obj \union {Null}]]
           /\ \A v \in Obj, s \in Seats :
                SeatsLeftBy(p)[v][s] =
                  IF players[v][s] = p THEN Null ELSE players[v][s]
  <1>1. p # Null
    BY ServerWorldAssumption
  <1>2. CASE vehicle[p] = Null
    <2>1. SeatsLeftBy(p) = players
      BY <1>2 DEF SeatsLeftBy
    <2>2. \A v \in Obj, s \in Seats : players[v][s] # p
      BY <1>1, <1>2, ServerWorldAssumption DEF SeatMapSound
    <2> QED BY <2>1, <2>2 DEF SeatTypeOK
  <1>3. CASE vehicle[p] # Null
    <2>1. vehicle[p] \in Obj
      BY <1>3 DEF SeatTypeOK
    <2>2. SeatsLeftBy(p) = [players EXCEPT ![vehicle[p]] =
            [s \in Seats |-> IF players[vehicle[p]][s] = p THEN Null
                             ELSE players[vehicle[p]][s]]]
      BY <1>3, <2>1 DEF SeatsLeftBy, SeatTypeOK
    <2>3. \A v \in Obj, s \in Seats : players[v][s] = p => v = vehicle[p]
      BY <1>1 DEF SeatMapSound
    <2> QED BY <2>1, <2>2, <2>3 DEF SeatTypeOK
  <1> QED BY <1>2, <1>3

\* Seats stay sound while nobody sits down, gets up or goes away.
LEMMA SeatsUntouched ==
    ASSUME SeatTypeOK, SeatMapSound, UNCHANGED seatVars,
           player_clients \subseteq player_clients',
           \A v \in Obj : kind[v] = "Vehicle" => kind'[v] = "Vehicle"
    PROVE  SeatTypeOK' /\ SeatMapSound'
  BY DEF SeatTypeOK, SeatMapSound, seatVars, IsVehicle

\* ... while one player goes away,
LEMMA LeaveKeepsSeats ==
    ASSUME SeatTypeOK, SeatMapSound, NEW p \in Obj, PlayerLeaves(p),
           player_clients \ {p} \subseteq player_clients',
           \A v \in Obj : kind[v] = "Vehicle" => kind'[v] = "Vehicle"
    PROVE  SeatTypeOK' /\ SeatMapSound'
  <1>1. /\ SeatsLeftBy(p) \in [Obj -> [Seats -> Obj \union {Null}]]
        /\ \A v \in Obj, s \in Seats :
             SeatsLeftBy(p)[v][s] =
               IF players[v][s] = p THEN Null ELSE players[v][s]
    BY SeatsLeft
  <1>2. SeatTypeOK'
    BY <1>1 DEF PlayerLeaves, SeatTypeOK
  <1>3. SeatMapSound'
    BY <1>1 DEF PlayerLeaves, SeatMapSound, SeatTypeOK, IsVehicle
  <1> QED BY <1>2, <1>3

\* ... while one player changes or leaves his seat,
LEMMA SetKeepsSeats ==
    ASSUME SeatTypeOK, SeatMapSound, NEW p \in player_clients,
           player_clients \subseteq Obj,
           NEW seat \in Seats \union {Null}, NEW v \in Obj \union {Null},
           v # Null => kind[v] = "Vehicle" /\ seat \in Seats,
           SetPlayerVehicle(p, seat, v), UNCHANGED <<player_clients, kind>>
    PROVE  SeatTypeOK' /\ SeatMapSound'
  <1>1. /\ SeatsLeftBy(p) \in [Obj -> [Seats -> Obj \union {Null}]]
        /\ \A w \in Obj, s \in Seats :
             SeatsLeftBy(p)[w][s] =
               IF players[w][s] = p THEN Null ELSE players[w][s]
    BY SeatsLeft
  <1>2. p \in Obj /\ p # Null
    BY ServerWorldAssumption
  <1>3. CASE v = Null
    <2>1. SeatTypeOK'
      BY <1>1, <1>2, <1>3 DEF SetPlayerVehicle, SeatsTakenBy, SeatTypeOK
    <2>2. SeatMapSound'
      BY <1>1, <1>2, <1>3
      DEF SetPlayerVehicle, SeatsTakenBy, SeatMapSound, SeatTypeOK, IsVehicle
    <2> QED BY <2>1, <2>2
  <1>4. CASE v # Null
    <2>1. players' = [SeatsLeftBy(p) EXCEPT ![v][seat] = p]
      BY <1>4 DEF SetPlayerVehicle, SeatsTakenBy
    <2>2. v \in Obj /\ seat \in Seats
      BY <1>4
    <2>3. SeatTypeOK'
      BY <1>1, <1>2, <2>1, <2>2 DEF SetPlayerVehicle, SeatTypeOK
    <2>4. \A w \in Obj, s \in Seats :
            players'[w][s] = IF w = v /\ s = seat THEN p ELSE SeatsLeftBy(p)[w][s]
      BY <1>1, <2>1, <2>2
    <2>5. SeatMapSound'
      BY <1>1, <1>2, <1>4, <2>2, <2>4
      DEF SetPlayerVehicle, SeatMapSound, SeatTypeOK, IsVehicle
    <2> QED BY <2>3, <2>5
  <1> QED BY <1>3, <1>4

\* ... while objects that are no players are destroyed.
LEMMA DestroyKeepsSeats ==
    ASSUME SeatTypeOK, SeatMapSound, NEW D \in SUBSET Obj,
           ObjectTypeOK, \A p \in player_clients : kind[p] = "Player",
           \A o \in D : kind[o] # "Player",
           Destroy(D)
    PROVE  SeatTypeOK' /\ SeatMapSound'
  <1>1. \A v \in Obj, s \in Seats :
          players'[v][s] = IF v \in D THEN Null ELSE players[v][s]
    BY DEF Destroy, Without, EmptySeats, SeatTypeOK
  <1>2. SeatTypeOK'
    BY DEF Destroy, Without, EmptySeats, SeatTypeOK
  <1>3. ASSUME NEW v \in Obj, NEW s \in Seats, players'[v][s] # Null
        PROVE  /\ IsVehicle(v)'
               /\ players'[v][s] \in player_clients'
               /\ vehicle'[players'[v][s]] = v
               /\ vehicle_seat'[players'[v][s]] = s
    <2> DEFINE p == players[v][s]
    <2>1. v \notin D /\ players'[v][s] = p /\ p # Null
      BY <1>1, <1>3
    <2>2. IsVehicle(v) /\ p \in player_clients /\ vehicle[p] = v /\ vehicle_seat[p] = s
      BY <2>1 DEF SeatMapSound
    <2>3. p \in Obj /\ p \notin D
      BY <2>2 DEF ObjectTypeOK
    <2>4. p \notin {players[w][t] : w \in D, t \in Seats}
      <3>1. SUFFICES ASSUME NEW w \in D, NEW t \in Seats, players[w][t] = p
                     PROVE  FALSE
        OBVIOUS
      <3>2. vehicle[p] = w
        BY <2>1, <3>1 DEF SeatMapSound
      <3> QED BY <2>1, <2>2, <3>2
    <2>5. vehicle'[p] = v /\ vehicle_seat'[p] = s
      BY <2>2, <2>3, <2>4 DEF Destroy, Without, SeatTypeOK
    <2>6. IsVehicle(v)'
      BY <2>1, <2>2 DEF Destroy, Release, Without, IsVehicle, ObjectTypeOK
    <2>7. p \in player_clients'
      BY <2>2, <2>3 DEF Destroy, Release
    <2> QED BY <2>1, <2>5, <2>6, <2>7
  <1> QED BY <1>2, <1>3 DEF SeatMapSound

-----------------------------------------------------------------------------
(* Every step keeps the invariant                                          *)

\* A step that ends the process changes nothing else.
LEMMA FailKeeps ==
    ASSUME WorldInv, NEW f \in Faults, Fail(f)
    PROVE  WorldInv'
  BY DEF WorldInv, Fail, TypeOK, PoolTypeOK, ObjectTypeOK, SeatTypeOK, PeerTypeOK,
         NidCoherence, Live, SeatMapSound, IsVehicle, PlayersReachable,
         poolVars, objVars, seatVars, connVars

\* The pool, the lists and the seats of a step that leaves the peers alone.
LEMMA PeersUntouched ==
    ASSUME PlayersReachable, PeerTypeOK, ObjectTypeOK,
           UNCHANGED <<connVars, fault>>, UNCHANGED known,
           player_clients' = player_clients,
           \A p \in player_clients : kind'[p] = kind[p]
    PROVE  PlayersReachable' /\ PeerTypeOK'
  BY DEF PlayersReachable, PeerTypeOK, ObjectTypeOK, connVars

LEMMA DestroyKeeps ==
    ASSUME WorldInv, NEW D \in SUBSET Obj,
           \A o \in D : kind[o] \notin {"Freed", "Player"}, Destroy(D)
    PROVE  WorldInv'
  <1>1. ObjectTypeOK' /\ PoolTypeOK' /\ NidCoherence'
    BY ReleaseKeeps DEF WorldInv, TypeOK, Destroy
  <1>2. \A p \in player_clients : kind[p] = "Player"
    BY DEF WorldInv, PlayersReachable
  <1>3. SeatTypeOK' /\ SeatMapSound'
    BY <1>2, DestroyKeepsSeats DEF WorldInv, TypeOK
  <1>4. player_clients' = player_clients
    BY <1>2 DEF Destroy, Release
  <1>5. \A p \in player_clients : kind'[p] = kind[p]
    BY <1>2 DEF Destroy, Release, Without, WorldInv, TypeOK, ObjectTypeOK
  <1>6. PlayersReachable' /\ PeerTypeOK'
    BY <1>4, <1>5, PeersUntouched DEF Destroy, WorldInv, TypeOK
  <1> QED BY <1>1, <1>3, <1>6 DEF WorldInv, TypeOK

\* The facts every step's proof starts from.
LEMMA WorldFacts ==
    ASSUME WorldInv
    PROVE  /\ PoolTypeOK /\ ObjectTypeOK /\ SeatTypeOK /\ PeerTypeOK
           /\ NidCoherence /\ SeatMapSound /\ PlayersReachable
           /\ player_clients \subseteq Obj
           /\ \A p \in player_clients : kind[p] = "Player"
           /\ Listed \subseteq Obj
           /\ \A o \in Listed : kind[o] # "Freed"
           /\ \A o \in Obj : o # Null
           /\ VehicleNids \subseteq Nids
  BY ServerWorldAssumption
  DEF WorldInv, TypeOK, ObjectTypeOK, PlayersReachable, NidCoherence, Listed,
      VehicleNids, IsVehicle, Live, PoolTypeOK

LEMMA ConnectKeeps ==
    ASSUME WorldInv, NEW s \in Slots, NEW a \in Addrs, NEW o \in Obj,
           NEW n \in Nids, Connect(s, a, o, n)
    PROVE  WorldInv'
  <1>1. /\ PoolTypeOK /\ ObjectTypeOK /\ SeatTypeOK /\ PeerTypeOK
        /\ NidCoherence /\ SeatMapSound /\ PlayersReachable
        /\ \A p \in player_clients : kind[p] = "Player"
        /\ VehicleNids \subseteq Nids
    BY WorldFacts
  <1>2. ObjectTypeOK' /\ PoolTypeOK' /\ NidCoherence'
    BY <1>1, CreateKeeps DEF Connect, Kinds
  <1>3. kind[o] = "Freed" /\ kind' = [kind EXCEPT ![o] = "Player"]
        /\ player_clients' = player_clients \union {o}
    BY <1>1 DEF Connect, Create, Without, ObjectTypeOK
  <1>4. SeatTypeOK' /\ SeatMapSound'
    <2>1. \A v \in Obj : kind[v] = "Vehicle" => kind'[v] = "Vehicle"
      BY <1>1, <1>3 DEF ObjectTypeOK
    <2> QED BY <1>1, <1>3, <2>1, SeatsUntouched DEF Connect
  <1>5. PeerTypeOK'
    BY <1>1 DEF Connect, PeerTypeOK
  <1>6. PlayersReachable'
    <2>1. \A p \in player_clients : p \in Obj /\ p # o
      BY <1>1, <1>3 DEF ObjectTypeOK
    <2>2. \A p \in player_clients' :
            kind'[p] = "Player" /\ peer'[p] \in up' /\ data'[peer'[p]] = p
      BY <1>1, <1>3, <2>1 DEF Connect, PeerTypeOK, PlayersReachable, ObjectTypeOK
    <2>3. \A p \in player_clients : addr'[peer'[p]] = addr[peer[p]] /\ addr[peer[p]] # a
      BY <1>1, <2>1 DEF Connect, PeerTypeOK, PlayersReachable, SameAddress
    <2>4. addr'[peer'[o]] = a
      BY <1>1 DEF Connect, PeerTypeOK
    <2>5. \A p, q \in player_clients' : addr'[peer'[p]] = addr'[peer'[q]] => p = q
      BY <1>1, <1>3, <2>3, <2>4 DEF PlayersReachable
    <2> QED BY <2>2, <2>5 DEF PlayersReachable
  <1> QED BY <1>2, <1>4, <1>5, <1>6 DEF WorldInv, TypeOK

LEMMA ReconnectKeeps ==
    ASSUME WorldInv, NEW s \in Slots, NEW a \in Addrs, NEW o \in Obj,
           NEW n \in Nids, Reconnect(s, a, o, n)
    PROVE  WorldInv'
  <1>1. /\ PoolTypeOK /\ ObjectTypeOK /\ SeatTypeOK /\ PeerTypeOK
        /\ NidCoherence /\ SeatMapSound /\ PlayersReachable
        /\ player_clients \subseteq Obj
        /\ \A p \in player_clients : kind[p] = "Player"
        /\ VehicleNids \subseteq Nids
    BY WorldFacts
  <1>2. PICK q \in SameAddress(a) :
          IF StaleVehicle(q) THEN Fail("StaleVehicle")
          ELSE /\ Create({q}, o, n, "Player")
               /\ PlayerLeaves(q)
               /\ peer' = [peer EXCEPT ![q] = Null, ![o] = s]
               /\ up' = up \union {s}
               /\ addr' = [addr EXCEPT ![s] = a]
               /\ data' = [data EXCEPT ![s] = o]
               /\ known' = [known EXCEPT ![q] = {}, ![o] = VehicleNids]
               /\ UNCHANGED fault
    BY DEF Reconnect
  <1>3. q \in player_clients /\ q \in Obj /\ kind[q] = "Player"
    BY <1>1 DEF SameAddress
  <1>4. CASE StaleVehicle(q)
    BY <1>2, <1>4, FailKeeps DEF Faults
  <1>5. CASE ~StaleVehicle(q)
    <2>1. ObjectTypeOK' /\ PoolTypeOK' /\ NidCoherence'
      <3>1. {q} \in SUBSET Obj /\ \A x \in {q} : kind[x] # "Freed"
        BY <1>3
      <3> QED BY <1>1, <1>2, <1>5, <3>1, CreateKeeps DEF Kinds
    <2>2. /\ kind[o] = "Freed" \/ o = q
          /\ \A v \in Obj : kind'[v] = IF v = o THEN "Player"
                                       ELSE IF v = q THEN "Freed" ELSE kind[v]
          /\ player_clients' = (player_clients \ {q}) \union {o}
      BY <1>1, <1>2, <1>5 DEF Create, Without, ObjectTypeOK
    <2>3. SeatTypeOK' /\ SeatMapSound'
      <3>1. \A v \in Obj : kind[v] = "Vehicle" => kind'[v] = "Vehicle"
        BY <1>3, <2>2
      <3> QED BY <1>1, <1>2, <1>3, <1>5, <2>2, <3>1, LeaveKeepsSeats
    <2>4. PeerTypeOK'
      BY <1>1, <1>2, <1>3, <1>5 DEF PeerTypeOK
    <2>5. PlayersReachable'
      <3>1. \A p \in player_clients \ {q} : p \in Obj /\ p # o
        BY <1>1, <2>2
      <3>2. s \notin up
        BY DEF Reconnect
      <3>3. \A p \in player_clients \ {q} :
              /\ peer'[p] = peer[p] /\ peer[p] \in up /\ peer[p] # s
              /\ addr'[peer'[p]] = addr[peer[p]] /\ addr[peer[p]] # a
        BY <1>1, <1>2, <1>3, <1>5, <3>1, <3>2
        DEF PeerTypeOK, PlayersReachable, SameAddress
      <3>4. peer'[o] = s /\ addr'[s] = a /\ data'[s] = o /\ s \in up'
        BY <1>1, <1>2, <1>5 DEF PeerTypeOK
      <3>5. \A p \in player_clients' :
              kind'[p] = "Player" /\ peer'[p] \in up' /\ data'[peer'[p]] = p
        BY <1>1, <1>2, <1>5, <2>2, <3>1, <3>3, <3>4
        DEF PeerTypeOK, PlayersReachable
      <3>6. \A p, r \in player_clients' : addr'[peer'[p]] = addr'[peer'[r]] => p = r
        BY <1>1, <2>2, <3>3, <3>4 DEF PlayersReachable
      <3> QED BY <3>5, <3>6 DEF PlayersReachable
    <2> QED BY <2>1, <2>3, <2>4, <2>5 DEF WorldInv, TypeOK
  <1> QED BY <1>4, <1>5

LEMMA DisconnectKeeps ==
    ASSUME WorldInv, NEW s \in Slots, Disconnect(s)
    PROVE  WorldInv'
  <1> DEFINE p == data[s]
  <1>1. /\ PoolTypeOK /\ ObjectTypeOK /\ SeatTypeOK /\ PeerTypeOK
        /\ NidCoherence /\ SeatMapSound /\ PlayersReachable
        /\ player_clients \subseteq Obj
        /\ \A x \in player_clients : kind[x] = "Player"
    BY WorldFacts
  <1>2. CASE p \notin player_clients \/ StaleVehicle(p)
    BY <1>2, FailKeeps DEF Disconnect, Faults
  <1>3. CASE p \in player_clients /\ ~StaleVehicle(p)
    <2>1. /\ Release({p})
          /\ PlayerLeaves(p)
          /\ peer' = [peer EXCEPT ![p] = Null]
          /\ up' = up \ {s}
          /\ addr' = [addr EXCEPT ![s] = Null]
          /\ data' = [data EXCEPT ![s] = Null]
          /\ known' = [known EXCEPT ![p] = {}]
          /\ UNCHANGED fault
      BY <1>3 DEF Disconnect
    <2>2. p \in Obj /\ kind[p] = "Player"
      BY <1>1, <1>3
    <2>3. ObjectTypeOK' /\ PoolTypeOK' /\ NidCoherence'
      <3>1. {p} \in SUBSET Obj /\ \A x \in {p} : kind[x] # "Freed"
        BY <2>2
      <3> QED BY <1>1, <2>1, <3>1, ReleaseKeeps
    <2>4. /\ \A v \in Obj : kind'[v] = IF v = p THEN "Freed" ELSE kind[v]
          /\ player_clients' = player_clients \ {p}
      BY <1>1, <2>1 DEF Release, Without, ObjectTypeOK
    <2>5. SeatTypeOK' /\ SeatMapSound'
      BY <1>1, <2>1, <2>2, <2>4, LeaveKeepsSeats
    <2>6. PeerTypeOK'
      BY <1>1, <2>1, <2>2 DEF PeerTypeOK
    <2>7. PlayersReachable'
      <3>1. \A x \in player_clients' :
              /\ x \in Obj /\ x # p /\ x \in player_clients
              /\ peer'[x] = peer[x] /\ peer[x] # s
        BY <1>1, <2>1, <2>2, <2>4 DEF PlayersReachable, PeerTypeOK
      <3>2. \A x \in player_clients' :
              /\ kind'[x] = "Player" /\ peer'[x] \in up' /\ data'[peer'[x]] = x
              /\ addr'[peer'[x]] = addr[peer[x]]
        BY <1>1, <2>1, <2>4, <3>1 DEF PlayersReachable, PeerTypeOK
      <3> QED BY <1>1, <3>1, <3>2 DEF PlayersReachable
    <2> QED BY <2>3, <2>5, <2>6, <2>7 DEF WorldInv, TypeOK
  <1> QED BY <1>2, <1>3

LEMMA SpawnObjectKeeps ==
    ASSUME WorldInv, NEW o \in Obj, NEW n \in Nids, NEW k \in SpawnTypes,
           SpawnObject(o, n, k)
    PROVE  WorldInv'
  <1>1. /\ PoolTypeOK /\ ObjectTypeOK /\ SeatTypeOK /\ PeerTypeOK
        /\ NidCoherence /\ SeatMapSound /\ PlayersReachable
        /\ player_clients \subseteq Obj
        /\ \A x \in player_clients : kind[x] = "Player"
    BY WorldFacts
  <1>2. k \in ObjectTypes
    BY ServerWorldAssumption
  <1>3. ObjectTypeOK' /\ PoolTypeOK' /\ NidCoherence'
    BY <1>1, <1>2, CreateKeeps DEF SpawnObject, Kinds, ObjectTypes
  <1>4. kind[o] = "Freed" /\ kind' = [kind EXCEPT ![o] = k]
        /\ player_clients' = player_clients
    BY <1>1, <1>2 DEF SpawnObject, Create, Without, ObjectTypeOK, ObjectTypes
  <1>5. SeatTypeOK' /\ SeatMapSound'
    <2>1. \A v \in Obj : kind[v] = "Vehicle" => kind'[v] = "Vehicle"
      BY <1>1, <1>4 DEF ObjectTypeOK
    <2> QED BY <1>1, <1>4, <2>1, SeatsUntouched DEF SpawnObject
  <1>6. PlayersReachable'
    BY <1>1, <1>4 DEF SpawnObject, connVars, PlayersReachable, ObjectTypeOK
  <1>7. PeerTypeOK'
    BY <1>1 DEF SpawnObject, connVars, PeerTypeOK
  <1> QED BY <1>3, <1>5, <1>6, <1>7 DEF WorldInv, TypeOK

LEMMA DestroyByPacketKeeps ==
    ASSUME WorldInv, NEW s \in Slots, NEW n \in Nids, DestroyByPacket(s, n)
    PROVE  WorldInv'
  <1> DEFINE o == Lookup(n)
  <1>1. n # Null
    BY ServerWorldAssumption
  <1>2. o \in Obj /\ kind[o] # "Freed"
    BY <1>1 DEF DestroyByPacket, Lookup, WorldInv, TypeOK, ObjectTypeOK, NidCoherence
  <1>3. CASE kind[o] = "Player"
    BY <1>3, FailKeeps DEF DestroyByPacket, Faults
  <1>4. CASE kind[o] # "Player"
    <2>1. Destroy({o})
      BY <1>4 DEF DestroyByPacket
    <2>2. {o} \in SUBSET Obj /\ \A x \in {o} : kind[x] \notin {"Freed", "Player"}
      BY <1>2, <1>4
    <2> QED BY <2>1, <2>2, DestroyKeeps
  <1> QED BY <1>3, <1>4

\* Steps that touch only the marks of players and objects, or owner records.
LEMMA MarksKeep ==
    ASSUME WorldInv,
           UNCHANGED <<poolVars, kind, nid, sync_type, net_objects,
                       player_clients, seatVars, connVars, known, fault>>,
           (joined \subseteq Obj /\ dead \subseteq Obj)',
           owner' \in [Nids -> Nids \union {Null}],
           \A n \in Nids : owner'[n] = Null <=> owner[n] = Null
    PROVE  WorldInv'
  <1>1. TypeOK'
    BY DEF WorldInv, TypeOK, PoolTypeOK, ObjectTypeOK, SeatTypeOK, PeerTypeOK,
           poolVars, seatVars, connVars
  <1>2. NidCoherence'
    BY DEF WorldInv, NidCoherence, Live, poolVars
  <1>3. SeatMapSound' /\ PlayersReachable'
    BY DEF WorldInv, SeatMapSound, PlayersReachable, IsVehicle, seatVars, connVars
  <1> QED BY <1>1, <1>2, <1>3 DEF WorldInv

LEMMA RefreshOwnersKeeps ==
    ASSUME WorldInv, RefreshOwners
    PROVE  WorldInv'
  <1>1. PICK nearest \in [DistanceObjects -> JoinedPlayers \union {Null}] :
          owner' = [n \in Nids |->
                      IF net_objects[n] \in DistanceObjects
                      THEN NewOwner(n, nearest[net_objects[n]])
                      ELSE owner[n]]
    BY DEF RefreshOwners
  <1>2. \A n \in Nids : n # Null
    BY ServerWorldAssumption
  <1>3. \A o \in JoinedPlayers : nid[o] \in Nids
    BY WorldFacts DEF JoinedPlayers, NidCoherence, PoolTypeOK, Live
  <1>4. \A n \in Nids : net_objects[n] \in DistanceObjects =>
          NewOwner(n, nearest[net_objects[n]]) \in Nids
    BY <1>1, <1>3 DEF NewOwner
  <1>5. \A n \in Nids : net_objects[n] \in DistanceObjects => owner[n] # Null
    BY WorldFacts DEF DistanceObjects, Listed, NidCoherence
  <1>6. owner' \in [Nids -> Nids \union {Null}]
    BY <1>1, <1>4, WorldFacts DEF ObjectTypeOK
  <1>7. \A n \in Nids : owner'[n] = Null <=> owner[n] = Null
    BY <1>1, <1>2, <1>4, <1>5
  <1>8. (joined \subseteq Obj /\ dead \subseteq Obj)'
    BY WorldFacts DEF RefreshOwners, ObjectTypeOK
  <1> QED BY <1>6, <1>7, <1>8, MarksKeep DEF RefreshOwners

LEMMA SetVehicleKeeps ==
    ASSUME WorldInv, NEW s \in Slots, NEW n \in Nids \union {Null},
           NEW seat \in Seats, SetVehicle(s, n, seat)
    PROVE  WorldInv'
  <1> DEFINE p == data[s]
             v == Lookup(n)
  <1>1. /\ PoolTypeOK /\ ObjectTypeOK /\ SeatTypeOK /\ PeerTypeOK
        /\ NidCoherence /\ SeatMapSound /\ PlayersReachable
        /\ player_clients \subseteq Obj
        /\ \A x \in player_clients : kind[x] = "Player"
        /\ \A x \in Obj : x # Null
    BY WorldFacts
  <1>2. p \in player_clients /\ p \in Obj /\ v \in Obj \union {Null}
    BY <1>1 DEF SetVehicle, Receive, Lookup, ObjectTypeOK
  <1>3. CASE (v # Null /\ ~IsVehicle(v)) \/ StaleVehicle(p)
    BY <1>3, FailKeeps DEF SetVehicle, Faults
  <1>4. CASE ~(v # Null /\ ~IsVehicle(v)) /\ ~StaleVehicle(p)
    <2>1. /\ Streamer(p, seat, v)
          /\ SetPlayerVehicle(p, seat, v)
          /\ UNCHANGED <<poolVars, kind, nid, net_objects, player_clients,
                         joined, dead, connVars, known, fault>>
      BY <1>4 DEF SetVehicle
    <2>2. v # Null => v \in Obj /\ kind[v] = "Vehicle"
      BY <1>2, <1>4 DEF IsVehicle
    <2>3. SeatTypeOK' /\ SeatMapSound'
      BY <1>1, <1>2, <2>1, <2>2, SetKeepsSeats
    <2>4. \A o \in Obj : kind[o] # "Freed" => nid[o] \in Nids /\ owner[nid[o]] # Null
      BY <1>1 DEF NidCoherence, PoolTypeOK, Live
    <2>5. nid[p] \in Nids /\ nid[p] # Null
      BY <1>1, <1>2, <2>4, ServerWorldAssumption
    <2>6. /\ sync_type' \in [Obj -> SyncTypes]
          /\ \A o \in Obj : kind[o] # "Freed" => sync_type'[o] # "None"
          /\ owner' \in [Nids -> Nids \union {Null}]
          /\ \A m \in Nids : owner'[m] = Null <=> owner[m] = Null
      <3>1. CASE seat = Driver /\ v # Null
        <4>1. LockToDriver(p, v)
          BY <2>1, <3>1 DEF Streamer
        <4> QED BY <1>1, <2>2, <2>4, <2>5, <3>1, <4>1
                DEF LockToDriver, ObjectTypeOK, SyncTypes
      <3>2. CASE ~(seat = Driver /\ v # Null) /\ DrivesOff(p, seat, v)
        <4>1. Unlock(vehicle[p])
          BY <2>1, <3>2 DEF Streamer
        <4>2. vehicle[p] \in Obj /\ kind[vehicle[p]] = "Vehicle"
          BY <1>1, <1>2, <1>4, <3>2 DEF DrivesOff, StaleVehicle, IsVehicle, SeatTypeOK
        <4>3. nid[vehicle[p]] \in Nids /\ nid[vehicle[p]] # Null
              /\ owner[nid[vehicle[p]]] # Null
          BY <2>4, <4>2, ServerWorldAssumption
        <4> QED BY <1>1, <4>1, <4>2, <4>3 DEF Unlock, ObjectTypeOK, SyncTypes
      <3>3. CASE ~(seat = Driver /\ v # Null) /\ ~DrivesOff(p, seat, v)
        BY <1>1, <2>1, <3>3 DEF Streamer, ObjectTypeOK
      <3> QED BY <3>1, <3>2, <3>3
    <2>7. ObjectTypeOK' /\ PoolTypeOK'
      BY <1>1, <2>1, <2>6 DEF ObjectTypeOK, PoolTypeOK, poolVars
    <2>8. NidCoherence'
      BY <1>1, <2>1, <2>6 DEF NidCoherence, Live, poolVars
    <2>9. PlayersReachable' /\ PeerTypeOK'
      BY <1>1, <2>1, PeersUntouched
    <2> QED BY <2>3, <2>7, <2>8, <2>9 DEF WorldInv, TypeOK
  <1> QED BY <1>3, <1>4

LEMMA StateSyncKeeps ==
    ASSUME WorldInv, NEW s \in Slots, NEW n \in Nids \union {Null},
           NEW seat \in Seats, StateSync(s, n, seat)
    PROVE  WorldInv'
  <1> DEFINE p == data[s]
             v == IF IsVehicle(Lookup(n)) THEN Lookup(n) ELSE Null
             t == IF v = Null THEN Null ELSE seat
  <1>1. /\ PoolTypeOK /\ ObjectTypeOK /\ SeatTypeOK /\ PeerTypeOK
        /\ NidCoherence /\ SeatMapSound /\ PlayersReachable
        /\ player_clients \subseteq Obj
    BY WorldFacts
  <1>2. p \in player_clients /\ v \in Obj \union {Null}
    BY <1>1 DEF StateSync, Receive, Lookup, ObjectTypeOK
  <1>3. CASE StaleVehicle(p)
    BY <1>3, FailKeeps DEF StateSync, Faults
  <1>4. CASE ~StaleVehicle(p)
    <2>1. /\ SetPlayerVehicle(p, t, v)
          /\ UNCHANGED <<poolVars, objVars, joined, dead, connVars, known, fault>>
      BY <1>4 DEF StateSync
    <2>2. v # Null => kind[v] = "Vehicle" /\ t \in Seats
      BY DEF IsVehicle
    <2>3. t \in Seats \union {Null}
      OBVIOUS
    <2>4. UNCHANGED <<player_clients, kind>>
      BY <2>1 DEF objVars
    <2> HIDE DEF p, v, t
    <2>5. SeatTypeOK' /\ SeatMapSound'
      BY <1>1, <1>2, <2>1, <2>2, <2>3, <2>4, SetKeepsSeats
    <2>6. ObjectTypeOK' /\ PoolTypeOK' /\ NidCoherence'
      BY <1>1, <2>1 DEF ObjectTypeOK, PoolTypeOK, NidCoherence, Live, poolVars, objVars
    <2>7. PlayersReachable' /\ PeerTypeOK'
      BY <1>1, <2>1, <2>4, PeersUntouched
    <2> QED BY <2>5, <2>6, <2>7 DEF WorldInv, TypeOK
  <1> QED BY <1>3, <1>4

LEMMA InitKeeps == Init => WorldInv
  <1> SUFFICES ASSUME Init PROVE WorldInv
    OBVIOUS
  <1>1. TypeOK
    BY DEF Init, TypeOK, PoolTypeOK, ObjectTypeOK, SeatTypeOK, PeerTypeOK, Kinds,
           SyncTypes, Faults, EmptySeats
  <1>2. NidCoherence
    BY DEF Init, NidCoherence, Live
  <1>3. SeatMapSound /\ PlayersReachable
    BY DEF Init, SeatMapSound, PlayersReachable, EmptySeats
  <1> QED BY <1>1, <1>2, <1>3 DEF WorldInv

LEMMA NextKeeps == WorldInv /\ [Next]_vars => WorldInv'
  <1> SUFFICES ASSUME WorldInv, [Next]_vars PROVE WorldInv'
    OBVIOUS
  <1>1. ASSUME NEW s \in Slots, NEW a \in Addrs, NEW o \in Obj, NEW n \in Nids,
               Connect(s, a, o, n) \/ Reconnect(s, a, o, n)
        PROVE  WorldInv'
    BY <1>1, ConnectKeeps, ReconnectKeeps
  <1>2. ASSUME NEW s \in Slots, Disconnect(s)
        PROVE  WorldInv'
    BY <1>2, DisconnectKeeps
  <1>3. ASSUME NEW s \in Slots, ReceiveStale(s)
        PROVE  WorldInv'
    BY <1>3, FailKeeps DEF ReceiveStale, Faults
  <1>4. ASSUME NEW s \in Slots, Join(s)
        PROVE  WorldInv'
    BY <1>4, MarksKeep, WorldFacts DEF Join, Receive, objVars, ObjectTypeOK
  <1>5. ASSUME NEW o \in Obj, NEW n \in Nids, NEW k \in SpawnTypes, SpawnObject(o, n, k)
        PROVE  WorldInv'
    BY <1>5, SpawnObjectKeeps
  <1>6. ASSUME NEW s \in Slots, NEW n \in Nids, DestroyByPacket(s, n)
        PROVE  WorldInv'
    BY <1>6, DestroyByPacketKeeps
  <1>7. ASSUME NEW s \in Slots, NEW n \in Nids, NEW dies \in BOOLEAN,
               SyncHealth(s, n, dies)
        PROVE  WorldInv'
    <2>1. Lookup(n) \in Obj
      BY <1>7, WorldFacts DEF SyncHealth, Lookup, ObjectTypeOK
    <2> QED BY <1>7, <2>1, MarksKeep, WorldFacts DEF SyncHealth, objVars, ObjectTypeOK
  <1>8. ASSUME NEW s \in Slots, NEW n \in Nids \union {Null}, NEW seat \in Seats,
               SetVehicle(s, n, seat) \/ StateSync(s, n, seat)
        PROVE  WorldInv'
    BY <1>8, SetVehicleKeeps, StateSyncKeeps
  <1>9. CASE NidsExhausted
    BY <1>9, FailKeeps DEF NidsExhausted, Faults
  <1>10. ASSUME NEW o \in Obj, DestroyObject(o)
         PROVE  WorldInv'
    <2>1. {o} \in SUBSET Obj /\ \A x \in {o} : kind[x] \notin {"Freed", "Player"}
      BY <1>10, WorldFacts DEF DestroyObject
    <2> QED BY <1>10, <2>1, DestroyKeeps DEF DestroyObject
  <1>11. CASE DestroyDead
    <2>1. DeadObjects \in SUBSET Obj
          /\ \A x \in DeadObjects : kind[x] \notin {"Freed", "Player"}
      BY WorldFacts DEF DeadObjects
    <2> QED BY <1>11, <2>1, DestroyKeeps DEF DestroyDead
  <1>12. CASE RefreshOwners
    BY <1>12, RefreshOwnersKeeps
  <1>13. CASE UNCHANGED vars
    BY <1>13
    DEF WorldInv, TypeOK, PoolTypeOK, ObjectTypeOK, SeatTypeOK, PeerTypeOK,
        NidCoherence, Live, SeatMapSound, IsVehicle, PlayersReachable,
        vars, poolVars, objVars, seatVars, connVars
  <1> QED
    BY <1>1, <1>2, <1>3, <1>4, <1>5, <1>6, <1>7, <1>8, <1>9, <1>10, <1>11, <1>12,
       <1>13 DEF Next, Events, Packets, Jobs

-----------------------------------------------------------------------------
(* Who streams a vehicle                                                   *)

\* Objects that come and go leave the sync type and the owner of a vehicle
\* that survives alone.
LEMMA ReleaseKeepsStreamers ==
    ASSUME WorldInv, NEW D \in SUBSET Obj, \A o \in D : kind[o] # "Freed", Release(D),
           NEW v \in Obj, SameVehicle(v)
    PROVE  sync_type'[v] = sync_type[v] /\ owner'[nid[v]] = owner[nid[v]]
  <1>1. ObjectTypeOK /\ PoolTypeOK /\ NidCoherence
    BY WorldFacts
  <1>2. v \notin D /\ nid[v] \in Nids
    BY <1>1 DEF SameVehicle, IsVehicle, Release, Without, ObjectTypeOK, PoolTypeOK,
                NidCoherence, Live
  <1>3. nid[v] \notin NidsOf(D)
    BY <1>1, <1>2, LiveNid DEF SameVehicle, IsVehicle
  <1> QED BY <1>1, <1>2, <1>3 DEF Release, Without, Untracked, ObjectTypeOK

LEMMA CreateKeepsStreamers ==
    ASSUME WorldInv, NEW D \in SUBSET Obj, \A x \in D : kind[x] = "Player",
           NEW o \in Obj, NEW n \in Nids, NEW k \in Kinds \ {"Freed"},
           Create(D, o, n, k), NEW v \in Obj, SameVehicle(v)
    PROVE  sync_type'[v] = sync_type[v] /\ owner'[nid[v]] = owner[nid[v]]
  <1>1. ObjectTypeOK /\ PoolTypeOK /\ NidCoherence
    BY WorldFacts
  <1>2. v \notin D /\ v # o /\ kind[v] = "Vehicle" /\ nid[v] \in used_nids /\ nid[v] \in Nids
    BY <1>1 DEF SameVehicle, IsVehicle, Create, PoolTypeOK, NidCoherence, Live
  <1>3. nid[v] \notin NidsOf(D)
    BY <1>1, <1>2, LiveNid
  <1>4. nid[v] # n
    BY <1>1, <1>2, <1>3 DEF Create, NidCoherence
  <1> QED BY <1>1, <1>2, <1>3, <1>4 DEF Create, Without, Untracked, ObjectTypeOK

\* What a SetVehicle packet does to the streamer of any vehicle.
LEMMA SetVehicleStreamers ==
    ASSUME WorldInv, NEW s \in Slots, NEW n \in Nids \union {Null},
           NEW seat \in Seats, SetVehicle(s, n, seat), NEW w \in Obj, SameVehicle(w)
    PROVE  \/ sync_type'[w] = sync_type[w] /\ owner'[nid[w]] = owner[nid[w]]
           \/ /\ sync_type'[w] = "Locked"
              /\ players'[w][Driver] # Null
              /\ owner'[nid[w]] = nid'[players'[w][Driver]]
           \/ /\ sync_type'[w] # "Locked"
              /\ players[w][Driver] # Null
              /\ players'[w][Driver] = Null
  <1> DEFINE p == data[s]
             v == Lookup(n)
  <1>1. /\ ObjectTypeOK /\ PoolTypeOK /\ SeatTypeOK /\ NidCoherence /\ SeatMapSound
        /\ player_clients \subseteq Obj
        /\ \A x \in Obj : x # Null
    BY WorldFacts
  <1>2. p \in Obj /\ v \in Obj \union {Null} /\ p # Null
    BY <1>1 DEF SetVehicle, Receive, Lookup, ObjectTypeOK
  <1>3. CASE (v # Null /\ ~IsVehicle(v)) \/ StaleVehicle(p)
    BY <1>3 DEF SetVehicle, Fail, objVars
  <1>4. CASE ~(v # Null /\ ~IsVehicle(v)) /\ ~StaleVehicle(p)
    <2>1. Streamer(p, seat, v) /\ SetPlayerVehicle(p, seat, v) /\ UNCHANGED nid
      BY <1>4 DEF SetVehicle
    <2>2. /\ SeatsLeftBy(p) \in [Obj -> [Seats -> Obj \union {Null}]]
          /\ \A x \in Obj, t \in Seats :
               SeatsLeftBy(p)[x][t] =
                 IF players[x][t] = p THEN Null ELSE players[x][t]
      BY <1>1, <1>2, SeatsLeft
    <2>3. Driver \in Seats
      BY ServerWorldAssumption
    <2>4. \A x, y \in Obj : kind[x] = "Vehicle" /\ kind[y] = "Vehicle" /\ nid[x] = nid[y]
                            => x = y
      BY <1>1 DEF NidCoherence, Live
    <2>5. nid[w] \in Nids /\ kind[w] = "Vehicle"
      BY <1>1 DEF SameVehicle, IsVehicle, NidCoherence, Live, PoolTypeOK
    <2>6. CASE seat = Driver /\ v # Null
      <3>1. LockToDriver(p, v) /\ v \in Obj /\ kind[v] = "Vehicle"
        BY <1>2, <1>4, <2>1, <2>6 DEF Streamer, IsVehicle
      <3>2. players' = [SeatsLeftBy(p) EXCEPT ![v][Driver] = p]
        BY <2>1, <2>6 DEF SetPlayerVehicle, SeatsTakenBy
      <3>3. CASE w = v
        <4>1. players'[w][Driver] = p
          BY <2>2, <2>3, <3>1, <3>2, <3>3
        <4>2. sync_type'[w] = "Locked" /\ owner'[nid[w]] = nid[p]
          BY <1>1, <2>5, <3>1, <3>3 DEF LockToDriver, ObjectTypeOK
        <4> QED BY <1>2, <2>1, <4>1, <4>2
      <3>4. CASE w # v
        BY <1>1, <2>4, <2>5, <3>1, <3>4 DEF LockToDriver, ObjectTypeOK
      <3> QED BY <3>3, <3>4
    <2>7. CASE ~(seat = Driver /\ v # Null) /\ DrivesOff(p, seat, v)
      <3>1. Unlock(vehicle[p]) /\ v = Null /\ vehicle[p] # Null
            /\ players[vehicle[p]][Driver] = p
        BY <2>1, <2>7 DEF Streamer, DrivesOff
      <3>2. vehicle[p] \in Obj /\ kind[vehicle[p]] = "Vehicle"
        BY <1>1, <1>2, <1>4, <3>1 DEF StaleVehicle, IsVehicle, SeatTypeOK
      <3>3. CASE w = vehicle[p]
        <4>1. players' = SeatsLeftBy(p)
          BY <2>1, <3>1 DEF SetPlayerVehicle, SeatsTakenBy
        <4>2. players[w][Driver] = p /\ players'[w][Driver] = Null
          BY <2>2, <2>3, <3>1, <3>3, <4>1
        <4>3. sync_type'[w] = "Distance"
          BY <1>1, <3>1, <3>2, <3>3 DEF Unlock, ObjectTypeOK
        <4> QED BY <1>2, <4>2, <4>3
      <3>4. CASE w # vehicle[p]
        BY <1>1, <2>4, <2>5, <3>1, <3>2, <3>4 DEF Unlock, ObjectTypeOK
      <3> QED BY <3>3, <3>4
    <2>8. CASE ~(seat = Driver /\ v # Null) /\ ~DrivesOff(p, seat, v)
      BY <2>1, <2>8 DEF Streamer
    <2> QED BY <2>6, <2>7, <2>8
  <1> QED BY <1>3, <1>4

\* What any step does to the streamer of a vehicle that survives it.
LEMMA StepStreamers ==
    ASSUME WorldInv, [Next]_vars, NEW w \in Obj, SameVehicle(w)
    PROVE  \/ /\ sync_type'[w] = sync_type[w]
              /\ owner'[nid[w]] = owner[nid[w]] \/ sync_type[w] # "Locked"
           \/ /\ sync_type'[w] = "Locked"
              /\ players'[w][Driver] # Null
              /\ owner'[nid[w]] = nid'[players'[w][Driver]]
           \/ /\ sync_type'[w] # "Locked"
              /\ players[w][Driver] # Null
              /\ players'[w][Driver] = Null
  <1> DEFINE Kept == sync_type'[w] = sync_type[w] /\ owner'[nid[w]] = owner[nid[w]]
  <1>1. ASSUME NEW f \in Faults, Fail(f) PROVE Kept
    BY <1>1 DEF Fail, objVars
  <1>2. ASSUME NEW s \in Slots, NEW a \in Addrs, NEW o \in Obj, NEW n \in Nids,
               Connect(s, a, o, n)
        PROVE  Kept
    BY <1>2, CreateKeepsStreamers DEF Connect, Kinds
  <1>3. ASSUME NEW s \in Slots, NEW a \in Addrs, NEW o \in Obj, NEW n \in Nids,
               Reconnect(s, a, o, n)
        PROVE  Kept
    <2>1. PICK q \in SameAddress(a) : \/ Fail("StaleVehicle")
                                      \/ Create({q}, o, n, "Player")
      BY <1>3 DEF Reconnect
    <2>2. {q} \in SUBSET Obj /\ \A x \in {q} : kind[x] = "Player"
      BY WorldFacts DEF SameAddress
    <2>3. Create({q}, o, n, "Player") => Kept
      BY <2>2, CreateKeepsStreamers DEF Kinds
    <2> QED BY <1>1, <2>1, <2>3 DEF Faults
  <1>4. ASSUME NEW s \in Slots, Disconnect(s) PROVE Kept
    <2>1. CASE data[s] \in player_clients /\ Release({data[s]})
      <3>1. {data[s]} \in SUBSET Obj /\ \A x \in {data[s]} : kind[x] # "Freed"
        BY <2>1, WorldFacts
      <3> QED BY <2>1, <3>1, ReleaseKeepsStreamers
    <2> QED BY <1>1, <1>4, <2>1 DEF Disconnect, Faults
  <1>5. ASSUME NEW s \in Slots, ReceiveStale(s) PROVE Kept
    BY <1>1, <1>5 DEF ReceiveStale, Faults
  <1>6. ASSUME NEW s \in Slots, Join(s) PROVE Kept
    BY <1>6 DEF Join, objVars
  <1>7. ASSUME NEW o \in Obj, NEW n \in Nids, NEW k \in SpawnTypes, SpawnObject(o, n, k)
        PROVE  Kept
    <2>1. k \in Kinds \ {"Freed"}
      BY ServerWorldAssumption DEF Kinds, ObjectTypes
    <2> QED BY <1>7, <2>1, CreateKeepsStreamers DEF SpawnObject
  <1>8. ASSUME NEW D \in SUBSET Obj, \A x \in D : kind[x] # "Freed", Destroy(D)
        PROVE  Kept
    BY <1>8, ReleaseKeepsStreamers DEF Destroy
  <1>9. ASSUME NEW s \in Slots, NEW n \in Nids, DestroyByPacket(s, n) PROVE Kept
    <2>1. {Lookup(n)} \in SUBSET Obj /\ \A x \in {Lookup(n)} : kind[x] # "Freed"
      BY <1>9, ServerWorldAssumption
      DEF DestroyByPacket, Lookup, WorldInv, TypeOK, ObjectTypeOK, NidCoherence
    <2> QED BY <1>1, <1>8, <1>9, <2>1 DEF DestroyByPacket, Faults
  <1>10. ASSUME NEW s \in Slots, NEW n \in Nids, NEW dies \in BOOLEAN,
                SyncHealth(s, n, dies)
         PROVE  Kept
    BY <1>10 DEF SyncHealth, objVars
  <1>11. ASSUME NEW s \in Slots, NEW n \in Nids \union {Null}, NEW seat \in Seats,
                StateSync(s, n, seat)
         PROVE  Kept
    BY <1>1, <1>11 DEF StateSync, objVars, Faults
  <1>12. ASSUME NidsExhausted PROVE Kept
    BY <1>1, <1>12 DEF NidsExhausted, Faults
  <1>13. ASSUME NEW o \in Obj, DestroyObject(o) PROVE Kept
    <2>1. {o} \in SUBSET Obj /\ \A x \in {o} : kind[x] # "Freed"
      BY <1>13, WorldFacts DEF DestroyObject
    <2> QED BY <1>8, <1>13, <2>1 DEF DestroyObject
  <1>14. ASSUME DestroyDead PROVE Kept
    <2>1. DeadObjects \in SUBSET Obj /\ \A x \in DeadObjects : kind[x] # "Freed"
      BY WorldFacts DEF DeadObjects
    <2> QED BY <1>8, <1>14, <2>1 DEF DestroyDead
  <1>15. CASE RefreshOwners
    <2>1. nid[w] \in Nids /\ net_objects[nid[w]] = w
      BY WorldFacts DEF SameVehicle, IsVehicle, NidCoherence, Live, PoolTypeOK
    <2>2. w \notin DistanceObjects => owner'[nid[w]] = owner[nid[w]]
      BY <1>15, <2>1 DEF RefreshOwners
    <2> QED BY <1>15, <2>2 DEF RefreshOwners, DistanceObjects
  <1>16. ASSUME UNCHANGED vars PROVE Kept
    BY <1>16 DEF vars, objVars
  <1> HIDE DEF Kept
  <1>17. \/ Kept
         \/ RefreshOwners
         \/ \E s \in Slots, n \in Nids \union {Null}, seat \in Seats :
              SetVehicle(s, n, seat)
    BY <1>2, <1>3, <1>4, <1>5, <1>6, <1>7, <1>9, <1>10, <1>11, <1>12, <1>13, <1>14,
       <1>16 DEF Next, Events, Packets, Jobs
  <1> QED BY <1>15, <1>17, SetVehicleStreamers DEF Kept

-----------------------------------------------------------------------------
(* Theorems                                                                *)

\* Whatever clients, scripts and timers do, the invariant holds.
THEOREM WorldInvariant == Spec => []WorldInv
  BY InitKeeps, NextKeeps, PTL DEF Spec

\* The server's tables keep their types, and every object has a SyncType.
THEOREM TypeCorrect == Spec => []TypeOK
  <1>1. WorldInv => TypeOK
    BY DEF WorldInv
  <1> QED BY <1>1, WorldInvariant, PTL

\* The NID pool, the object lists and the librg records always agree.
THEOREM NidsCoherent == Spec => []NidCoherence
  <1>1. WorldInv => NidCoherence
    BY DEF WorldInv
  <1> QED BY <1>1, WorldInvariant, PTL

\* Whoever is in a seat map is a listed player who remembers that seat.
THEOREM SeatMapsSound == Spec => []SeatMapSound
  <1>1. WorldInv => SeatMapSound
    BY DEF WorldInv
  <1> QED BY <1>1, WorldInvariant, PTL

\* A listed player always has a connected peer of his own.
THEOREM PlayersAreReachable == Spec => []PlayersReachable
  <1>1. WorldInv => PlayersReachable
    BY DEF WorldInv
  <1> QED BY <1>1, WorldInvariant, PTL

\* A surviving vehicle is unlocked only by the exit of its own driver.
THEOREM DriversUnlock == Spec => UnlockedByItsDriver
  <1>1. WorldInv /\ [Next]_vars => UnlockStep
    BY StepStreamers DEF UnlockStep
  <1> QED BY <1>1, WorldInvariant, PTL DEF Spec, UnlockedByItsDriver

\* A vehicle that stays locked changes streamer only to its new driver.
THEOREM LockedStreamersAreDrivers == Spec => LockedStreamerIsNewDriver
  <1>1. WorldInv /\ [Next]_vars => StreamerStep
    BY StepStreamers DEF StreamerStep
  <1> QED BY <1>1, WorldInvariant, PTL DEF Spec, LockedStreamerIsNewDriver

-----------------------------------------------------------------------------
(* The clients                                                             *)

ClientTypeOK ==
    /\ packets \in [Slots -> Seq(SUBSET Nids)]
    /\ copy \in [Slots -> [Nids -> Blocks \union {Null}]]
    /\ owned \in [Slots -> SUBSET Blocks]

\* A peer without a player has no client behind it; a client has no copy of its
\* own player and is never told to stream it; its copies are blocks of their own.
ClientSound(s) ==
    /\ Len(packets[s]) <= MaxPackets
    /\ ~Linked(s) => packets[s] = <<>> /\ copy[s] = NoCopies /\ owned[s] = {}
    /\ Linked(s) =>
         /\ copy[s][nid[data[s]]] = Null
         /\ \A i \in DOMAIN packets[s] : nid[data[s]] \notin packets[s][i]
    /\ \A m, n \in Nids : copy[s][m] = copy[s][n] /\ copy[s][m] # Null => m = n

ClientsInv == ClientTypeOK /\ \A s \in Slots : ClientSound(s)

\* Whether and how a peer is linked stays as it is.
SameLink(s) ==
    /\ Linked(s)' <=> Linked(s)
    /\ Linked(s) => data'[s] = data[s] /\ nid'[data[s]] = nid[data[s]]

\* Packets and jobs leave every player his peer and his NID.
LEMMA PlayersStay ==
    ASSUME WorldInv, Packets \/ Jobs, NEW s \in Slots
    PROVE  SameLink(s)
<1>1. /\ player_clients \subseteq Obj /\ kind \in [Obj -> Kinds] /\ Listed \subseteq Obj
      /\ \A p \in player_clients : kind[p] = "Player"
      /\ nid \in [Obj -> Nids \union {Null}]
  BY WorldFacts DEF ObjectTypeOK
<1> DEFINE Kept == /\ player_clients' = player_clients /\ UNCHANGED connVars
                   /\ \A p \in player_clients : nid'[p] = nid[p]
<1>2. SUFFICES Kept
  BY DEF SameLink, Linked, connVars
<1>3. ASSUME NEW D \in SUBSET Obj, \A o \in D : kind[o] # "Player", Destroy(D) PROVE Kept
  BY <1>1, <1>3 DEF Destroy, Release, Without
<1>4. ASSUME NEW f, Fail(f) PROVE Kept
  BY <1>4 DEF Fail, objVars
<1>5. ASSUME NEW x \in Slots, Join(x) PROVE Kept
  BY <1>5 DEF Join, objVars
<1>6. ASSUME NEW o \in Obj, NEW n \in Nids, NEW k \in SpawnTypes, SpawnObject(o, n, k)
      PROVE  Kept
  <2>1. k # "Player"
    BY ServerWorldAssumption DEF ObjectTypes
  <2>2. kind[o] = "Freed" /\ nid' = [Without(nid, {}, Null) EXCEPT ![o] = n]
    BY <1>6 DEF SpawnObject, Create
  <2>3. player_clients' = player_clients /\ UNCHANGED connVars
    BY <1>6, <2>1 DEF SpawnObject, Create
  <2>4. \A p \in player_clients : p # o /\ nid'[p] = nid[p]
    BY <1>1, <2>2 DEF Without
  <2>5. QED
    BY <2>3, <2>4
<1>7. ASSUME NEW x \in Slots, NEW n \in Nids, DestroyByPacket(x, n) PROVE Kept
  <2>1. CASE Destroy({Lookup(n)}) /\ kind[Lookup(n)] # "Player"
    <3>1. {Lookup(n)} \in SUBSET Obj
      BY <1>7, ServerWorldAssumption, WorldFacts DEF DestroyByPacket, Lookup, ObjectTypeOK
    <3>2. QED
      BY <1>3, <2>1, <3>1
  <2>2. QED
    BY <1>4, <1>7, <2>1 DEF DestroyByPacket
<1>8. ASSUME NEW x \in Slots, NEW n \in Nids, NEW dies \in BOOLEAN, SyncHealth(x, n, dies)
      PROVE  Kept
  BY <1>8 DEF SyncHealth, objVars
<1>9. ASSUME NEW x \in Slots, NEW n \in Nids \union {Null}, NEW seat \in Seats,
             SetVehicle(x, n, seat) \/ StateSync(x, n, seat)
      PROVE  Kept
  BY <1>4, <1>9 DEF SetVehicle, StateSync, objVars
<1>10. CASE NidsExhausted
  BY <1>4, <1>10 DEF NidsExhausted
<1>11. ASSUME NEW o \in Obj, DestroyObject(o) PROVE Kept
  BY <1>1, <1>3, <1>11 DEF DestroyObject
<1>12. CASE DestroyDead
  <2>1. DeadObjects \in SUBSET Obj /\ \A o \in DeadObjects : kind[o] # "Player"
    BY <1>1 DEF DeadObjects
  <2>2. QED
    BY <1>3, <1>12, <2>1 DEF DestroyDead
<1>13. CASE RefreshOwners
  BY <1>13 DEF RefreshOwners
<1> HIDE DEF Kept
<1>14. QED
  BY <1>5, <1>6, <1>7, <1>8, <1>9, <1>10, <1>11, <1>12, <1>13 DEF Packets, Jobs

\* A player whose peer stays his through an enet event keeps his NID.
LEMMA EventsKeepLinks ==
    ASSUME WorldInv, Events, NEW s \in Slots, Linked(s), Linked(s)'
    PROVE  SameLink(s)
<1>1. /\ player_clients \subseteq Obj /\ kind \in [Obj -> Kinds]
      /\ \A p \in player_clients : kind[p] = "Player"
      /\ nid \in [Obj -> Nids \union {Null}]
      /\ peer \in [Obj -> Slots \union {Null}] /\ data \in [Slots -> Obj \union {Null}]
  BY WorldFacts DEF ObjectTypeOK, PeerTypeOK
<1> DEFINE p == data[s]
<1>2. s \in up /\ p \in player_clients /\ peer[p] = s
  BY DEF Linked
<1>3. s \in up' /\ data'[s] \in player_clients' /\ peer'[data'[s]] = s
  BY DEF Linked
<1>4. SUFFICES data'[s] = p /\ nid'[p] = nid[p]
  BY DEF SameLink
<1>5. ASSUME NEW f, Fail(f) PROVE data'[s] = p /\ nid'[p] = nid[p]
  BY <1>5 DEF Fail, objVars, connVars
<1>6. ASSUME NEW x \in Slots, NEW a \in Addrs, NEW o \in Obj, NEW n \in Nids, Connect(x, a, o, n)
      PROVE  data'[s] = p /\ nid'[p] = nid[p]
  <2>1. /\ kind[o] = "Freed" /\ nid' = [Without(nid, {}, Null) EXCEPT ![o] = n]
        /\ x \notin up /\ data' = [data EXCEPT ![x] = o]
    BY <1>6 DEF Connect, Create
  <2>2. p # o /\ x # s
    BY <1>1, <1>2, <2>1
  <2>3. QED
    BY <1>1, <1>2, <2>1, <2>2 DEF Without
<1>7. ASSUME NEW x \in Slots, NEW a \in Addrs, NEW o \in Obj, NEW n \in Nids, Reconnect(x, a, o, n)
      PROVE  data'[s] = p /\ nid'[p] = nid[p]
  <2>1. PICK q \in SameAddress(a) :
          IF StaleVehicle(q) THEN Fail("StaleVehicle")
          ELSE /\ Create({q}, o, n, "Player")
               /\ peer' = [peer EXCEPT ![q] = Null, ![o] = x]
               /\ data' = [data EXCEPT ![x] = o]
    BY <1>7 DEF Reconnect
  <2>2. x # s /\ q \in player_clients
    BY <1>2, <1>7, <2>1 DEF Reconnect, SameAddress
  <2>3. CASE ~ StaleVehicle(q)
    <3>1. /\ kind[o] = "Freed" \/ o = q
          /\ nid' = [Without(nid, {q}, Null) EXCEPT ![o] = n]
          /\ peer' = [peer EXCEPT ![q] = Null, ![o] = x]
          /\ data' = [data EXCEPT ![x] = o]
      BY <2>1, <2>3 DEF Create
    <3>2. data'[s] = p
      BY <1>1, <2>2, <3>1
    <3>3. p # o
      BY <1>1, <1>3, <2>2, <3>1, <3>2
    <3>4. p # q
      BY <1>1, <1>2, <1>3, <3>1, <3>2, <3>3, ServerWorldAssumption
    <3>5. QED
      BY <1>1, <1>2, <3>1, <3>2, <3>3, <3>4 DEF Without
  <2>4. QED
    BY <1>5, <2>1, <2>3
<1>8. ASSUME NEW x \in Slots, Disconnect(x)
      PROVE  data'[s] = p /\ nid'[p] = nid[p]
  <2>1. CASE ~ (\E f : Fail(f))
    <3>1. /\ Release({data[x]}) /\ up' = up \ {x} /\ data' = [data EXCEPT ![x] = Null]
      BY <1>8, <2>1 DEF Disconnect
    <3>2. x # s /\ data'[s] = p
      BY <1>1, <1>3, <3>1
    <3>3. p \in player_clients'
      BY <1>3, <3>2
    <3>4. p # data[x]
      BY <3>1, <3>3 DEF Release
    <3>5. QED
      BY <1>1, <1>2, <3>1, <3>2, <3>4 DEF Release, Without
  <2>2. QED
    BY <1>5, <2>1
<1>9. ASSUME NEW x \in Slots, ReceiveStale(x)
      PROVE  data'[s] = p /\ nid'[p] = nid[p]
  BY <1>5, <1>9 DEF ReceiveStale
<1>10. QED
  BY <1>6, <1>7, <1>8, <1>9 DEF Events

LEMMA ClientsInit == HandoverInit => ClientsInv
<1> SUFFICES ASSUME HandoverInit PROVE ClientsInv
  OBVIOUS
<1>1. /\ packets = [s \in Slots |-> <<>>] /\ copy = [s \in Slots |-> NoCopies]
      /\ owned = [s \in Slots |-> {}]
  BY DEF HandoverInit
<1>2. ClientTypeOK
  BY <1>1 DEF ClientTypeOK, NoCopies
<1>3. ASSUME NEW s \in Slots PROVE ClientSound(s)
  <2>1. packets[s] = <<>> /\ copy[s] = NoCopies /\ owned[s] = {} /\ up = {}
    BY <1>1 DEF HandoverInit, Init
  <2>2. Len(packets[s]) <= MaxPackets
    BY <2>1, HandoverAssumption
  <2>3. \A m \in Nids : copy[s][m] = Null
    BY <2>1 DEF NoCopies
  <2>4. ~ Linked(s)
    BY <2>1 DEF Linked
  <2>5. QED
    BY <2>1, <2>2, <2>3, <2>4 DEF ClientSound
<1>4. QED
  BY <1>2, <1>3 DEF ClientsInv

\* What is kept of a client whose link stays.
LEMMA SameClient ==
    ASSUME NEW s \in Slots, ClientSound(s), SameLink(s),
           packets'[s] = packets[s], copy'[s] = copy[s], owned'[s] = owned[s]
    PROVE  ClientSound(s)'
  BY DEF ClientSound, SameLink

LEMMA ClientsStep ==
    ASSUME WorldInv, ClientsInv, [HandoverNext]_handoverVars
    PROVE  ClientsInv'
<1> USE DEF ClientsInv
<1>1. /\ packets \in [Slots -> Seq(SUBSET Nids)]
      /\ copy \in [Slots -> [Nids -> Blocks \union {Null}]]
      /\ owned \in [Slots -> SUBSET Blocks]
  BY DEF ClientTypeOK
<1>2. CASE Events /\ ClientsLeave
  <2>1. \A s \in Slots :
          /\ packets'[s] = IF Linked(s)' THEN packets[s] ELSE <<>>
          /\ copy'[s] = IF Linked(s)' THEN copy[s] ELSE NoCopies
          /\ owned'[s] = IF Linked(s)' THEN owned[s] ELSE {}
    BY <1>2 DEF ClientsLeave
  <2>2. ClientTypeOK'
    BY <1>1, <1>2 DEF ClientsLeave, ClientTypeOK, NoCopies
  <2>3. ASSUME NEW s \in Slots PROVE ClientSound(s)'
    <3>1. CASE Linked(s) /\ Linked(s)'
      BY <1>2, <2>1, <3>1, EventsKeepLinks, SameClient
    <3>2. CASE ~ (Linked(s) /\ Linked(s)')
      <4>1. packets'[s] = <<>> /\ copy'[s] = NoCopies /\ owned'[s] = {}
        BY <2>1, <3>2 DEF ClientSound
      <4>2. Len(packets'[s]) <= MaxPackets
        BY <4>1, HandoverAssumption
      <4>3. \A m \in Nids : copy'[s][m] = Null
        BY <4>1 DEF NoCopies
      <4>4. Linked(s)' => copy'[s][nid'[data'[s]]] = Null
        <5>1. Linked(s)' => nid'[data'[s]] \in Nids
          <6>1. WorldInv'
            BY <1>2, NextKeeps DEF Next
          <6>2. Linked(s)' => data'[s] \in player_clients'
            BY DEF Linked
          <6>3. QED
            BY <6>1, <6>2, ServerWorldAssumption
            DEF WorldInv, TypeOK, ObjectTypeOK, PoolTypeOK, PlayersReachable, NidCoherence, Live
        <5>2. QED
          BY <4>3, <5>1
      <4>5. DOMAIN packets'[s] = {}
        BY <4>1
      <4>6. QED
        BY <4>1, <4>2, <4>3, <4>4, <4>5 DEF ClientSound
    <3>3. QED
      BY <3>1, <3>2
  <2>4. QED
    BY <2>2, <2>3
<1>3. CASE /\ Packets \/ Jobs
           /\ UNCHANGED clientVars
  <2>1. UNCHANGED <<packets, copy, owned>>
    BY <1>3 DEF clientVars
  <2>2. \A s \in Slots : ClientSound(s)'
    BY <1>3, <2>1, PlayersStay, SameClient
  <2>3. QED
    BY <2>1, <2>2 DEF ClientTypeOK
<1>4. CASE RefreshNetObjectSync
  <2>1. /\ \A s \in Slots : SameLink(s)
        /\ UNCHANGED <<copy, owned>>
        /\ \A s \in Slots : Len(packets[s]) < MaxPackets
    BY <1>4, PlayersStay DEF RefreshNetObjectSync, Jobs
  <2>2. \A s \in Slots :
          packets'[s] = IF Told(s) THEN Append(packets[s], OwnedNids(data[s])) ELSE packets[s]
    BY <1>4 DEF RefreshNetObjectSync
  <2>3. \A p : OwnedNids(p) \in SUBSET Nids
    BY WorldFacts DEF OwnedNids, PoolTypeOK
  <2>4. \A s \in Slots : packets'[s] \in Seq(SUBSET Nids)
    <3>1. \A S : \A q \in Seq(S) : \A x \in S : Append(q, x) \in Seq(S)
      OBVIOUS
    <3>2. ASSUME NEW s \in Slots
          PROVE  /\ packets[s] \in Seq(SUBSET Nids)
                 /\ Append(packets[s], OwnedNids(data[s])) \in Seq(SUBSET Nids)
      BY <1>1, <2>3, <3>1
    <3>3. QED
      BY <2>2, <3>2
  <2>5. ClientTypeOK'
    BY <1>1, <1>4, <2>1, <2>4 DEF RefreshNetObjectSync, ClientTypeOK
  <2>6. ASSUME NEW s \in Slots PROVE ClientSound(s)'
    <3>1. CASE ~ Told(s)
      BY <2>1, <2>2, <3>1, SameClient
    <3>2. CASE Told(s)
      <4> DEFINE S == OwnedNids(data[s])
      <4>1. Linked(s) /\ nid[data[s]] \notin S
        BY <3>2 DEF Told, OwnedNids
      <4>2. S \in SUBSET Nids /\ packets[s] \in Seq(SUBSET Nids) /\ Len(packets[s]) < MaxPackets
        BY <1>1, <2>1, <2>3
      <4>3. packets'[s] = Append(packets[s], S)
        BY <2>2, <3>2
      <4> HIDE DEF S
      <4>4. /\ Len(packets'[s]) = Len(packets[s]) + 1
            /\ \A i \in DOMAIN packets'[s] :
                 \/ i \in DOMAIN packets[s] /\ packets'[s][i] = packets[s][i]
                 \/ packets'[s][i] = S
        BY <4>2, <4>3
      <4>5. Len(packets'[s]) <= MaxPackets
        BY <4>2, <4>4, HandoverAssumption
      <4>6. \A i \in DOMAIN packets'[s] : nid[data[s]] \notin packets'[s][i]
        BY <4>1, <4>4 DEF ClientSound
      <4>7. QED
        BY <2>1, <4>1, <4>5, <4>6 DEF ClientSound, SameLink
    <3>3. QED
      BY <3>1, <3>2
  <2>7. QED
    BY <2>5, <2>6
<1>5. \A s \in Slots : UNCHANGED vars => SameLink(s)
  BY DEF SameLink, Linked, vars, objVars, connVars
<1>6. ASSUME NEW x \in Slots, NEW n \in Nids, NEW b \in Blocks, MakeCopy(x, n, b)
      PROVE  ClientsInv'
  <2>1. /\ n # nid[data[x]] /\ \A m \in Nids : copy[x][m] # b
        /\ copy' = [copy EXCEPT ![x][n] = b]
        /\ UNCHANGED <<vars, packets, owned>>
    BY <1>6 DEF MakeCopy
  <2>2. ClientTypeOK'
    BY <1>1, <2>1 DEF ClientTypeOK
  <2>3. ASSUME NEW s \in Slots PROVE ClientSound(s)'
    <3>1. CASE s # x
      BY <1>1, <1>5, <2>1, <3>1, SameClient
    <3>2. CASE s = x
      <4>1. /\ \A m \in Nids : copy'[s][m] = IF m = n THEN b ELSE copy[s][m]
            /\ Linked(s) /\ SameLink(s) /\ packets'[s] = packets[s]
        BY <1>1, <1>5, <1>6, <2>1, <3>2 DEF MakeCopy
      <4>2. \A l, m \in Nids : copy'[s][l] = copy'[s][m] /\ copy'[s][l] # Null => l = m
        BY <2>1, <3>2, <4>1 DEF ClientSound
      <4>3. copy'[s][nid[data[s]]] = Null
        <5>1. copy'[s] = [copy[s] EXCEPT ![n] = b] /\ copy[s] \in [Nids -> Blocks \union {Null}]
          BY <1>1, <2>1, <3>2
        <5>2. copy[s][nid[data[s]]] = Null
          BY <4>1 DEF ClientSound
        <5>3. nid[data[s]] \in Nids
          BY <4>1, ServerWorldAssumption
          DEF Linked, WorldInv, TypeOK, ObjectTypeOK, PoolTypeOK, PlayersReachable, NidCoherence, Live
        <5>4. QED
          BY <2>1, <3>2, <4>1, <5>2, <5>3
      <4>4. QED
        BY <4>1, <4>2, <4>3 DEF ClientSound, SameLink
    <3>3. QED
      BY <3>1, <3>2
  <2>4. QED
    BY <2>2, <2>3
<1>7. ASSUME NEW x \in Slots, NEW n \in Nids, FreeCopy(x, n) PROVE ClientsInv'
  <2>1. /\ copy' = [copy EXCEPT ![x][n] = Null] /\ copy[x][n] # Null /\ Linked(x)
        /\ UNCHANGED <<vars, packets, owned>>
    BY <1>7 DEF FreeCopy
  <2>2. ClientTypeOK'
    BY <1>1, <2>1 DEF ClientTypeOK
  <2>3. ASSUME NEW s \in Slots PROVE ClientSound(s)'
    <3>1. CASE s # x
      BY <1>1, <1>5, <2>1, <3>1, SameClient
    <3>2. CASE s = x
      <4>1. /\ \A m \in Nids : copy'[s][m] = IF m = n THEN Null ELSE copy[s][m]
            /\ Linked(s) /\ SameLink(s) /\ packets'[s] = packets[s]
        BY <1>1, <1>5, <2>1, <3>2
      <4>2. nid[data[s]] \in Nids
        BY <4>1, ServerWorldAssumption
        DEF Linked, WorldInv, TypeOK, ObjectTypeOK, PoolTypeOK, PlayersReachable, NidCoherence, Live
      <4>3. QED
        BY <4>1, <4>2 DEF ClientSound, SameLink
    <3>3. QED
      BY <3>1, <3>2
  <2>4. QED
    BY <2>2, <2>3
<1>8. ASSUME NEW x \in Slots, Ownerships(x) PROVE ClientsInv'
  <2>1. /\ packets[x] # <<>>
        /\ owned' = [owned EXCEPT ![x] = CopiesOf(x, Head(packets[x]))]
        /\ packets' = [packets EXCEPT ![x] = Tail(@)]
        /\ UNCHANGED <<vars, copy>>
    BY <1>8 DEF Ownerships
  <2>2. packets[x] \in Seq(SUBSET Nids)
    BY <1>1
  <2>3. /\ Head(packets[x]) \in SUBSET Nids /\ Tail(packets[x]) \in Seq(SUBSET Nids)
        /\ Len(Tail(packets[x])) = Len(packets[x]) - 1
        /\ \A i \in DOMAIN Tail(packets[x]) :
             i + 1 \in DOMAIN packets[x] /\ Tail(packets[x])[i] = packets[x][i + 1]
    BY <2>1, <2>2
  <2>4. CopiesOf(x, Head(packets[x])) \in SUBSET Blocks
    BY <1>1, <2>3 DEF CopiesOf
  <2>5. ClientTypeOK'
    <3>1. packets' \in [Slots -> Seq(SUBSET Nids)]
      BY <1>1, <2>1, <2>3
    <3>2. owned' \in [Slots -> SUBSET Blocks]
      BY <1>1, <2>1, <2>4
    <3>3. QED
      BY <1>1, <2>1, <3>1, <3>2 DEF ClientTypeOK
  <2>6. ASSUME NEW s \in Slots PROVE ClientSound(s)'
    <3>1. CASE s # x
      BY <1>1, <1>5, <2>1, <3>1, SameClient
    <3>2. CASE s = x
      <4>1. /\ packets'[s] = Tail(packets[s]) /\ copy'[s] = copy[s] /\ SameLink(s)
        BY <1>1, <1>5, <2>1, <3>2
      <4>2. Linked(s) /\ Len(packets[s]) <= MaxPackets
        BY <2>1, <3>2 DEF ClientSound
      <4>3. Len(packets'[s]) <= MaxPackets
        BY <2>2, <2>3, <3>2, <4>1, <4>2, HandoverAssumption
      <4>4. \A i \in DOMAIN packets'[s] : nid[data[s]] \notin packets'[s][i]
        BY <2>3, <3>2, <4>1, <4>2 DEF ClientSound
      <4>5. QED
        BY <4>1, <4>2, <4>3, <4>4 DEF ClientSound, SameLink
    <3>3. QED
      BY <3>1, <3>2
  <2>7. QED
    BY <2>5, <2>6
<1>9. CASE UNCHANGED handoverVars
  <2>1. UNCHANGED <<vars, packets, copy, owned>>
    BY <1>9 DEF handoverVars, clientVars
  <2>2. \A s \in Slots : ClientSound(s)'
    BY <1>5, <2>1, SameClient
  <2>3. QED
    BY <2>1, <2>2 DEF ClientTypeOK
<1>10. QED
  BY <1>2, <1>3, <1>4, <1>6, <1>7, <1>8, <1>9 DEF HandoverNext, ServerStep, Jobs

-----------------------------------------------------------------------------
(* The safety half of the two liveness properties                          *)

\* The last element of a queue.
LEMMA LastOf ==
    ASSUME NEW S, NEW q \in Seq(S)
    PROVE  /\ \A x \in S : /\ Append(q, x) # <<>> /\ Len(Append(q, x)) = Len(q) + 1
                            /\ Append(q, x)[Len(Append(q, x))] = x
           /\ q # <<>> =>
                \/ Tail(q) = <<>> /\ Head(q) = q[Len(q)]
                \/ Tail(q) # <<>> /\ Tail(q)[Len(Tail(q))] = q[Len(q)]
<1>1. ASSUME NEW x \in S
      PROVE  /\ Append(q, x) # <<>> /\ Len(Append(q, x)) = Len(q) + 1
             /\ Append(q, x)[Len(Append(q, x))] = x
  OBVIOUS
<1>2. ASSUME q # <<>>
      PROVE  \/ Tail(q) = <<>> /\ Head(q) = q[Len(q)]
             \/ Tail(q) # <<>> /\ Tail(q)[Len(Tail(q))] = q[Len(q)]
  <2>1. /\ Len(q) \in Nat \ {0} /\ Head(q) = q[1] /\ Tail(q) \in Seq(S)
        /\ Len(Tail(q)) = Len(q) - 1
        /\ \A i \in 1 .. Len(q) - 1 : Tail(q)[i] = q[i + 1]
    BY <1>2
  <2>2. \A t \in Seq(S) : Len(t) = 0 <=> t = <<>>
    OBVIOUS
  <2> DEFINE t == Tail(q)
  <2>3. /\ t \in Seq(S) /\ Len(t) = Len(q) - 1
        /\ \A i \in 1 .. Len(q) - 1 : t[i] = q[i + 1]
    BY <2>1
  <2> HIDE DEF t
  <2>4. t = <<>> <=> Len(q) = 1
    <3>1. t = <<>> <=> Len(t) = 0
      BY <2>2, <2>3
    <3>2. QED
      BY <2>1, <2>3, <3>1
  <2>5. CASE Len(q) = 1
    BY <2>1, <2>4, <2>5 DEF t
  <2>6. CASE Len(q) # 1
    <3>1. Len(q) - 1 \in 1 .. Len(q) - 1 /\ (Len(q) - 1) + 1 = Len(q)
      BY <2>1, <2>6
    <3>2. t[Len(t)] = q[Len(q)]
      BY <2>3, <3>1
    <3>3. QED
      BY <2>4, <2>6, <3>2 DEF t
  <2>7. QED
    BY <2>5, <2>6
<1>3. QED
  BY <1>1, <1>2

\* What a refresh leaves: see DistanceOwnersRefreshed.
LEMMA RefreshStep ==
    ASSUME WorldInv, RefreshOwners PROVE DistanceOwnersValid'
<1>1. PICK nearest \in [DistanceObjects -> JoinedPlayers \union {Null}] :
        owner' = [n \in Nids |-> IF net_objects[n] \in DistanceObjects
                                 THEN NewOwner(n, nearest[net_objects[n]])
                                 ELSE owner[n]]
  BY DEF RefreshOwners
<1>2. /\ Listed' = Listed /\ JoinedPlayers' = JoinedPlayers
      /\ kind' = kind /\ sync_type' = sync_type /\ nid' = nid
  BY DEF RefreshOwners, Listed, JoinedPlayers
<1>3. SUFFICES ASSUME NEW o \in Listed, kind[o] # "Player", sync_type[o] = "Distance"
               PROVE  \/ owner'[nid[o]] = nid[o]
                      \/ \E p \in JoinedPlayers : owner'[nid[o]] = nid[p]
  BY <1>2 DEF DistanceOwnersValid
<1>4. o \in DistanceObjects
  BY <1>3 DEF DistanceObjects
<1>5. nid[o] \in Nids /\ net_objects[nid[o]] = o
  BY <1>3, WorldFacts DEF NidCoherence, Live, PoolTypeOK
<1>6. owner'[nid[o]] = NewOwner(nid[o], nearest[o]) /\ nearest[o] \in JoinedPlayers \union {Null}
  BY <1>1, <1>4, <1>5
<1>7. QED
  BY <1>6 DEF NewOwner

Still == UNCHANGED <<owner, used_nids, nid, joined, player_clients, connVars, copy>>

\* The last packet under way to s says what s owns, or s streams just that.
Truthful(s) ==
    LET q == packets[s] IN
    IF q = <<>> THEN owned[s] = CopiesOf(s, OwnedNids(data[s]))
                ELSE q[Len(q)] = OwnedNids(data[s])

SettledStep ==
    Still => \A s \in Slots :
               /\ Linked(s) /\ data[s] \in joined
               /\ RefreshNetObjectSync \/ Truthful(s)
               => Truthful(s)'

LEMMA SettledKeeps ==
    ASSUME WorldInv, ClientsInv, [HandoverNext]_handoverVars PROVE SettledStep
<1>1. SUFFICES ASSUME Still, NEW s \in Slots, Linked(s), data[s] \in joined,
                      RefreshNetObjectSync \/ Truthful(s)
               PROVE  Truthful(s)'
  BY DEF SettledStep
<1>2. /\ OwnedNids(data[s])' = OwnedNids(data[s]) /\ data' = data /\ copy' = copy
      /\ Linked(s)' /\ \A S : CopiesOf(s, S)' = CopiesOf(s, S)
  BY <1>1 DEF Still, connVars, OwnedNids, Linked, CopiesOf
<1>3. /\ packets \in [Slots -> Seq(SUBSET Nids)] /\ packets[s] \in Seq(SUBSET Nids)
      /\ owned \in [Slots -> SUBSET Blocks]
  BY DEF ClientsInv, ClientTypeOK
<1>4. CASE UNCHANGED <<packets[s], owned[s]>>
  <2>1. CASE RefreshNetObjectSync
    <3>1. packets'[s] = Append(packets[s], OwnedNids(data[s]))
      BY <1>1, <2>1 DEF RefreshNetObjectSync, Told
    <3>2. Append(packets[s], OwnedNids(data[s])) # packets[s]
      <4>1. \A S, q, x : q \in Seq(S) => Len(Append(q, x)) # Len(q)
        OBVIOUS
      <4>2. QED
        BY <1>3, <4>1
    <3>3. QED
      BY <1>4, <3>1, <3>2
  <2>2. CASE Truthful(s)
    BY <1>2, <1>4, <2>2 DEF Truthful
  <2>3. QED
    BY <1>1, <2>1, <2>2
<1>5. CASE RefreshNetObjectSync
  <2> DEFINE S == OwnedNids(data[s])
  <2>1. packets'[s] = Append(packets[s], S) /\ S \in SUBSET Nids
    BY <1>1, <1>5, WorldFacts DEF RefreshNetObjectSync, Told, OwnedNids, PoolTypeOK
  <2> HIDE DEF S
  <2>2. packets'[s] # <<>> /\ packets'[s][Len(packets'[s])] = S
    <3>1. \A x \in SUBSET Nids :
            /\ Append(packets[s], x) # <<>>
            /\ Append(packets[s], x)[Len(Append(packets[s], x))] = x
      BY <1>3, LastOf, SMTT(30)
    <3>2. QED
      BY <2>1, <3>1
  <2>3. QED
    BY <1>2, <2>2 DEF Truthful, S
<1>6. CASE Ownerships(s)
  <2>1. /\ Truthful(s)
        /\ packets[s] # <<>>
        /\ owned'[s] = CopiesOf(s, Head(packets[s]))
        /\ packets'[s] = Tail(packets[s])
    <3>1. ~ RefreshNetObjectSync
      <4>1. RefreshNetObjectSync => Len(packets'[s]) = Len(packets[s]) + 1
        <5>1. RefreshNetObjectSync => packets'[s] = Append(packets[s], OwnedNids(data[s]))
          BY <1>1 DEF RefreshNetObjectSync, Told
        <5>2. \A S, q, x : q \in Seq(S) => Len(Append(q, x)) = Len(q) + 1
          OBVIOUS
        <5>3. QED
          BY <1>3, <5>1, <5>2
      <4>2. Len(packets'[s]) = Len(packets[s]) - 1
        BY <1>3, <1>6 DEF Ownerships
      <4>3. Len(packets[s]) \in Nat
        BY <1>3
      <4>4. QED
        BY <4>1, <4>2, <4>3
    <3>2. QED
      BY <1>1, <1>3, <1>6, <3>1 DEF Ownerships
  <2> DEFINE q == packets[s]
  <2>2. q \in Seq(SUBSET Nids) /\ q # <<>> /\ q[Len(q)] = OwnedNids(data[s])
    BY <1>3, <2>1 DEF Truthful
  <2> HIDE DEF q
  <2>3. \/ Tail(q) = <<>> /\ Head(q) = q[Len(q)]
        \/ Tail(q) # <<>> /\ Tail(q)[Len(Tail(q))] = q[Len(q)]
    BY <2>2, LastOf
  <2>4. QED
    BY <1>2, <2>1, <2>2, <2>3 DEF Truthful, q
<1>7. ASSUME NEW x \in Slots, Ownerships(x), x # s
      PROVE  UNCHANGED <<packets[s], owned[s]>>
  BY <1>3, <1>7 DEF Ownerships
<1>8. CASE Events /\ ClientsLeave
  <2>1. UNCHANGED <<packets[s], owned[s]>>
    BY <1>2, <1>3, <1>8 DEF ClientsLeave
  <2>2. QED
    BY <1>4, <2>1
<1>9. ASSUME ~ (Events /\ ClientsLeave), ~ RefreshNetObjectSync, \A x \in Slots : ~ Ownerships(x)
      PROVE  UNCHANGED <<packets[s], owned[s]>>
  BY <1>9 DEF HandoverNext, ServerStep, MakeCopy, FreeCopy, clientVars, handoverVars
<1>10. QED
  BY <1>4, <1>5, <1>6, <1>7, <1>8, <1>9

-----------------------------------------------------------------------------
(* Theorems about the clients                                              *)

\* Nothing a client does with its copies and its Ownerships packets, and no
\* packet on its way, is a step of the server: whatever holds of ServerWorld
\* holds of it with its clients.
THEOREM HandoverImplementsWorld == HandoverSpec => Spec
<1>1. HandoverInit => Init
  BY DEF HandoverInit
<1>2. [HandoverNext]_handoverVars => [Next]_vars
  <2> SUFFICES ASSUME [HandoverNext]_handoverVars PROVE [Next]_vars
    OBVIOUS
  <2>1. ASSUME ServerStep PROVE Next
    BY <2>1 DEF ServerStep, Next, Jobs
  <2>2. ASSUME RefreshNetObjectSync PROVE Next
    BY <2>2 DEF RefreshNetObjectSync, Next, Jobs
  <2>3. ASSUME NEW s \in Slots,
               \/ \E n \in Nids : FreeCopy(s, n) \/ \E b \in Blocks : MakeCopy(s, n, b)
               \/ Ownerships(s)
        PROVE  UNCHANGED vars
    BY <2>3 DEF FreeCopy, MakeCopy, Ownerships
  <2>4. ASSUME UNCHANGED handoverVars PROVE UNCHANGED vars
    BY <2>4 DEF handoverVars
  <2>5. QED
    BY <2>1, <2>2, <2>3, <2>4 DEF HandoverNext
<1>3. HandoverSpec => HandoverInit /\ [][HandoverNext]_handoverVars
  BY PTL DEF HandoverSpec
<1>4. QED
  BY <1>1, <1>2, <1>3, PTL DEF Spec

\* A client that left leaves nothing behind for the next one at its peer; a
\* client never has a copy of its own player, nor is it told to stream it; no
\* two of its copies share a block, and no more packets wait than the bound.
THEOREM ClientsStaySound == HandoverSpec => []ClientsInv
<1>1. HandoverSpec => HandoverInit /\ [][HandoverNext]_handoverVars
  BY PTL DEF HandoverSpec
<1>2. HandoverSpec => []WorldInv
  BY HandoverImplementsWorld, WorldInvariant, PTL
<1>3. WorldInv /\ ClientsInv /\ [HandoverNext]_handoverVars => ClientsInv'
  BY ClientsStep
<1>4. QED
  BY <1>1, <1>2, <1>3, ClientsInit, PTL

\* One refresh repairs every owner record: after it each SyncType_Distance
\* object streams itself or is streamed by a joined player, whoever left before.
THEOREM RefreshRepairs == Spec => [][RefreshOwners => DistanceOwnersValid']_vars
<1>1. WorldInv /\ [Next]_vars => (RefreshOwners => DistanceOwnersValid')
  BY RefreshStep
<1>2. QED
  BY <1>1, WorldInvariant, PTL DEF Spec

\* While owners, players and copies stay as they are, one refresh makes the last
\* packet under way to every joined client true, and true it stays until the
\* client, having handled it, streams just what it names.
THEOREM SettledClients == HandoverSpec => [][SettledStep]_handoverVars
<1>1. HandoverSpec => HandoverInit /\ [][HandoverNext]_handoverVars
  BY PTL DEF HandoverSpec
<1>2. HandoverSpec => []WorldInv
  BY HandoverImplementsWorld, WorldInvariant, PTL
<1>3. WorldInv /\ ClientsInv /\ [HandoverNext]_handoverVars => SettledStep
  BY SettledKeeps
<1>4. QED
  BY <1>1, <1>2, <1>3, ClientsStaySound, PTL
=============================================================================
