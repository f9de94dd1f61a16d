----------------------------- MODULE ServerWorld -----------------------------
(***************************************************************************)
(* The server's object world: the pool of network ids, the object lists,   *)
(* the librg tracking records, the player clients behind the enet peers,   *)
(* and the seats that tie players to vehicles.  One action per packet      *)
(* handler, enet event or periodic job; each runs to completion on the     *)
(* server's main thread, so a handler is one step.                         *)
(*                                                                         *)
(* An object is its heap block: a pointer that outlives its object still   *)
(* names the block, and the block may be given to a later object.  A       *)
(* PlayerClient and the Player it owns are created and freed together and  *)
(* share one block here.  The state in which the process dies (a failed    *)
(* check(), a use of freed memory) is recorded in fault and is final.      *)
(***************************************************************************)
EXTENDS Naturals, FiniteSets

CONSTANTS
    Obj,        \* heap blocks an object may occupy
    Nids,       \* the ids of the pool (1 .. 65534 in the code)
    Slots,      \* the ENetPeer structures of the host
    Addrs,      \* client addresses (ip and port)
    Seats,      \* the seats of a vehicle, VehicleSeat_None left out
    Driver,     \* VehicleSeat_Driver
    SpawnTypes, \* the object types the instance lets clients spawn
    Null        \* nullptr, INVALID_NID, VehicleSeat_None

ObjectTypes == {"Vehicle", "Damageable", "Grenade", "Pickup", "Blip"}

ASSUME ServerWorldAssumption ==
    /\ Null \notin Obj \union Nids \union Slots \union Addrs \union Seats
    /\ Driver \in Seats
    /\ SpawnTypes \subseteq ObjectTypes

VARIABLES
    free_nids, used_nids,   \* the two sets of the NID pool
    kind, nid, sync_type,   \* per block: what lives in it, its NID, its SyncType
    net_objects,            \* NID -> object, the map of ObjectLists
    player_clients,         \* the listed PlayerClients
    owner,                  \* librg: tracked NID -> NID of its owner
    joined, dead,           \* PlayerClient::joined; objects with hp <= 0
    players,                \* VehicleNetObject::players, seat -> Player*
    vehicle, vehicle_seat,  \* Player::vehicle and Player::vehicle_seat
    peer,                   \* PlayerClient::peer
    up, addr, data,         \* per ENetPeer: connected, address, data pointer
    known,                  \* per player: the NIDs its client ever knew as vehicles
    fault

poolVars == <<free_nids, used_nids>>
objVars  == <<kind, nid, sync_type, net_objects, player_clients, owner>>
seatVars == <<players, vehicle, vehicle_seat>>
connVars == <<peer, up, addr, data>>
vars == <<poolVars, objVars, joined, dead, seatVars, connVars,
          known, fault>>

Faults == {"none", "NoFreeNid", "InvalidCast", "StaleVehicle", "StaleClient",
           "DestroyPlayer"}
SyncTypes == {"None", "Global", "Distance", "Locked"}
Kinds == {"Freed", "Player"} \union ObjectTypes
EmptySeats == [s \in Seats |-> Null]

Running == fault = "none"
Live(o) == o # Null /\ kind[o] # "Freed"
IsVehicle(o) == o # Null /\ kind[o] = "Vehicle"
Listed == {net_objects[n] : n \in Nids} \ {Null}
JoinedPlayers == player_clients \intersect joined

\* get_net_object_from_lists: INVALID_NID and unknown NIDs are the null pointer.
Lookup(n) == IF n = Null THEN Null ELSE net_objects[n]

PoolTypeOK == free_nids \subseteq Nids /\ used_nids \subseteq Nids

ObjectTypeOK ==
    /\ kind \in [Obj -> Kinds]
    /\ nid \in [Obj -> Nids \union {Null}]
    /\ sync_type \in [Obj -> SyncTypes]
    /\ net_objects \in [Nids -> Obj \union {Null}]
    /\ player_clients \subseteq Obj
    /\ owner \in [Nids -> Nids \union {Null}]
    /\ joined \subseteq Obj /\ dead \subseteq Obj
    /\ \A o \in Obj : kind[o] # "Freed" => sync_type[o] # "None"

SeatTypeOK ==
    /\ players \in [Obj -> [Seats -> Obj \union {Null}]]
    /\ vehicle \in [Obj -> Obj \union {Null}]
    /\ vehicle_seat \in [Obj -> Seats \union {Null}]

PeerTypeOK ==
    /\ peer \in [Obj -> Slots \union {Null}]
    /\ up \subseteq Slots
    /\ addr \in [Slots -> Addrs \union {Null}]
    /\ data \in [Slots -> Obj \union {Null}]
    /\ known \in [Obj -> SUBSET Nids]
    /\ fault \in Faults

\* Every variable has its type, and an object that exists has a SyncType.
TypeOK == PoolTypeOK /\ ObjectTypeOK /\ SeatTypeOK /\ PeerTypeOK

Init ==
    /\ free_nids = Nids /\ used_nids = {}
    /\ kind = [o \in Obj |-> "Freed"]
    /\ nid = [o \in Obj |-> Null]
    /\ sync_type = [o \in Obj |-> "None"]
    /\ net_objects = [n \in Nids |-> Null]
    /\ player_clients = {}
    /\ owner = [n \in Nids |-> Null]
    /\ joined = {} /\ dead = {}
    /\ players = [o \in Obj |-> EmptySeats]
    /\ vehicle = [o \in Obj |-> Null]
    /\ vehicle_seat = [o \in Obj |-> Null]
    /\ peer = [o \in Obj |-> Null]
    /\ up = {}
    /\ addr = [s \in Slots |-> Null]
    /\ data = [s \in Slots |-> Null]
    /\ known = [o \in Obj |-> {}]
    /\ fault = "none"

-----------------------------------------------------------------------------
(* Objects come and go                                                     *)

Without(f, D, default) == [x \in DOMAIN f |-> IF x \in D THEN default ELSE f[x]]
NidsOf(D) == {nid[o] : o \in D}

\* ~EntityRg untracks the record of each object; the records of the objects
\* that it owned keep naming its NID.
NotUntracked(D) == owner
Untracked(D) == Without(owner, NidsOf(D), Null)

\* The SyncType each constructor sets; a pickup ignores the one it is given.
NoPlayerSyncType(k) == IF k = "Pickup" THEN "Global"
                       ELSE IF k = "Player" THEN "None" ELSE "Distance"
InitialSyncType(k) ==
    IF k = "Player" THEN "Locked"
    ELSE IF k = "Pickup" THEN "Global" ELSE "Distance"

\* The objects of D leave the lists and are freed: their librg records are
\* untracked and their NIDs go back to the pool.
Release(D) ==
    /\ free_nids' = free_nids \union NidsOf(D)
    /\ used_nids' = used_nids \ NidsOf(D)
    /\ kind' = Without(kind, D, "Freed")
    /\ nid' = Without(nid, D, Null)
    /\ sync_type' = Without(sync_type, D, "None")
    /\ net_objects' = Without(net_objects, NidsOf(D), Null)
    /\ owner' = Untracked(D)
    /\ player_clients' = player_clients \ D
    /\ joined' = joined \ D
    /\ dead' = dead \ D

\* Once the objects of D are gone, a new object of kind k takes any free block
\* o and any free NID n, owns itself, and is listed.
Create(D, o, n, k) ==
    /\ kind[o] = "Freed" \/ o \in D
    /\ n \in free_nids \union NidsOf(D)
    /\ free_nids' = (free_nids \union NidsOf(D)) \ {n}
    /\ used_nids' = (used_nids \ NidsOf(D)) \union {n}
    /\ kind' = [Without(kind, D, "Freed") EXCEPT ![o] = k]
    /\ nid' = [Without(nid, D, Null) EXCEPT ![o] = n]
    /\ sync_type' = [Without(sync_type, D, "None") EXCEPT
                        ![o] = InitialSyncType(k)]
    /\ net_objects' = [Without(net_objects, NidsOf(D), Null) EXCEPT ![n] = o]
    /\ owner' = [Untracked(D) EXCEPT ![n] = n]
    /\ player_clients' = (player_clients \ D) \union
                            (IF k = "Player" THEN {o} ELSE {})
    /\ joined' = joined \ D
    /\ dead' = dead \ D

\* check() failed or freed memory was used: the process ends here.
Fail(f) ==
    /\ fault' = f
    /\ UNCHANGED <<poolVars, objVars, joined, dead, seatVars, connVars,
                   known>>

StaleVehicle(p) == vehicle[p] # Null /\ ~IsVehicle(vehicle[p])

\* VehicleNetObject::remove_player on the vehicle that p remembers.
SeatsLeftBy(p) ==
    IF vehicle[p] = Null
    THEN players
    ELSE [players EXCEPT ![vehicle[p]] =
            [s \in Seats |-> IF @[s] = p THEN Null ELSE @[s]]]

\* VehicleNetObject::set_player: the seat is overridden.
SeatsTakenBy(p, seat, v) ==
    IF v = Null THEN SeatsLeftBy(p)
    ELSE [SeatsLeftBy(p) EXCEPT ![v][seat] = p]

PlayerForgotten(p) ==
    /\ UNCHANGED players
    /\ vehicle' = [vehicle EXCEPT ![p] = Null]
    /\ vehicle_seat' = [vehicle_seat EXCEPT ![p] = Null]

\* ~Player and ~PlayerClient of a listed player whose vehicle pointer is good.
PlayerLeaves(p) ==
    /\ players' = SeatsLeftBy(p)
    /\ vehicle' = [vehicle EXCEPT ![p] = Null]
    /\ vehicle_seat' = [vehicle_seat EXCEPT ![p] = Null]

-----------------------------------------------------------------------------
(* enet events                                                             *)

NobodyHasAddress(a) == {}
SameAddress(a) == {q \in player_clients : addr[peer[q]] = a}

\* The vehicles a new client is going to be told about.
VehicleNids == {nid[o] : o \in {x \in Obj : IsVehicle(x)}}

\* CONNECT from an address no listed player has.
Connect(s, a, o, n) ==
    /\ Running /\ s \notin up /\ SameAddress(a) = {}
    /\ Create({}, o, n, "Player")
    /\ peer' = [peer EXCEPT ![o] = s]
    /\ up' = up \union {s}
    /\ addr' = [addr EXCEPT ![s] = a]
    /\ data' = [data EXCEPT ![s] = o]
    /\ known' = [known EXCEPT ![o] = VehicleNids]
    /\ UNCHANGED <<seatVars, fault>>

\* CONNECT from the address of a listed player q: q is removed first.  The
\* ENetPeer of q stays connected and keeps its data pointer.
Reconnect(s, a, o, n) ==
    /\ Running /\ s \notin up
    /\ \E q \in SameAddress(a) :
         IF StaleVehicle(q) THEN Fail("StaleVehicle")
         ELSE /\ Create({q}, o, n, "Player")
              /\ PlayerLeaves(q)
              /\ peer' = [peer EXCEPT ![q] = Null, ![o] = s]
              /\ up' = up \union {s}
              /\ addr' = [addr EXCEPT ![s] = a]
              /\ data' = [data EXCEPT ![s] = o]
              /\ known' = [known EXCEPT ![q] = {}, ![o] = VehicleNids]
              /\ UNCHANGED fault

\* DISCONNECT or DISCONNECT_TIMEOUT on s.
Disconnect(s) ==
    LET p == data[s] IN
    /\ Running /\ s \in up
    /\ IF p \notin player_clients THEN Fail("StaleClient")
       ELSE IF StaleVehicle(p) THEN Fail("StaleVehicle")
       ELSE /\ Release({p})
            /\ PlayerLeaves(p)
            /\ peer' = [peer EXCEPT ![p] = Null]
            /\ up' = up \ {s}
            /\ addr' = [addr EXCEPT ![s] = Null]
            /\ data' = [data EXCEPT ![s] = Null]
            /\ known' = [known EXCEPT ![p] = {}]
            /\ UNCHANGED fault

\* RECEIVE: the dispatcher insists that the packet's client is listed.
ReceiveStale(s) ==
    /\ Running /\ s \in up /\ data[s] \notin player_clients
    /\ Fail("StaleClient")

Receive(s) == Running /\ s \in up /\ data[s] \in player_clients

Join(s) ==
    /\ Receive(s)
    /\ joined' = joined \union {data[s]}
    /\ UNCHANGED <<poolVars, objVars, dead, seatVars, connVars, known,
                   fault>>

-----------------------------------------------------------------------------
(* Objects of the world                                                    *)

\* WorldPID_SpawnObject from a client, or a script's spawn call.
SpawnObject(o, n, k) ==
    /\ Running
    /\ Create({}, o, n, k)
    /\ known' = [p \in Obj |-> IF k = "Vehicle" /\ p \in player_clients
                               THEN known[p] \union {n} ELSE known[p]]
    /\ UNCHANGED <<seatVars, connVars, fault>>

\* GET_FREE_NID on an empty pool, for a player or any other object.
NidsExhausted == Running /\ free_nids = {} /\ Fail("NoFreeNid")

\* destroy_net_object for every object of D: ~VehicleNetObject takes its
\* occupants out of the vehicle before the object is freed.
Destroy(D) ==
    LET occupants == {players[v][s] : v \in D, s \in Seats} IN
    /\ Release(D)
    /\ players' = Without(players, D, EmptySeats)
    /\ vehicle' = Without(vehicle, occupants, Null)
    /\ vehicle_seat' = Without(vehicle_seat, occupants, Null)
    /\ UNCHANGED <<connVars, known, fault>>

\* A script, or a resource that is stopped, destroys an object it created.
DestroyObject(o) ==
    /\ Running /\ o \in Listed /\ kind[o] # "Player"
    /\ Destroy({o})

\* WorldPID_DestroyObject from an administrator, for a NID once seen as a
\* vehicle.
DestroyByPacket(s, n) ==
    LET o == Lookup(n) IN
    /\ Receive(s) /\ o # Null /\ n \in known[data[s]]
    /\ IF kind[o] = "Player" THEN Fail("DestroyPlayer") ELSE Destroy({o})

\* The sweep of refresh_net_object_sync: what can be destroyed and is dead goes.
DeadObjects ==
    {o \in Listed \intersect dead : kind[o] \in {"Vehicle", "Damageable", "Grenade"}}
DestroyDead == Running /\ DeadObjects # {} /\ Destroy(DeadObjects)

\* EntityRg: is p the owner of the entity tracked under NID n?
OwnedBy(n, p) == owner[n] = nid[p]

\* WorldPID_SyncObject with NetObjectVar_Health: only the owner is believed.
SyncHealth(s, n, dies) ==
    LET o == Lookup(n) IN
    /\ Receive(s) /\ o # Null /\ kind[o] # "Player"
    /\ OwnedBy(n, data[s])
    /\ dead' = IF dies THEN dead \union {o} ELSE dead \ {o}
    /\ UNCHANGED <<poolVars, objVars, joined, seatVars, connVars, known,
                   fault>>


\* refresh_net_object_sync collects the SyncType_Distance objects, and leaves
\* the players and the Global and Locked objects alone.
AllObjects == {o \in Listed : kind[o] # "Player" /\ sync_type[o] # "Global"}
DistanceObjects == {o \in Listed : kind[o] # "Player" /\ sync_type[o] = "Distance"}

\* set_owner(new_owner): no owner means the object itself.
KeptOwner(n, p) == IF p = Null THEN owner[n] ELSE nid[p]
NewOwner(n, p) == IF p = Null THEN n ELSE nid[p]

\* refresh_net_object_sync: each SyncType_Distance object goes to the nearest
\* joined player in range, or back to itself.  Positions are arbitrary.
RefreshOwners ==
    /\ Running
    /\ \E nearest \in [DistanceObjects -> JoinedPlayers \union {Null}] :
         owner' = [n \in Nids |->
                     IF net_objects[n] \in DistanceObjects
                     THEN NewOwner(n, nearest[net_objects[n]])
                     ELSE owner[n]]
    /\ UNCHANGED <<poolVars, kind, nid, sync_type, net_objects, player_clients,
                   joined, dead, seatVars, connVars, known, fault>>

-----------------------------------------------------------------------------
(* Seats                                                                   *)

\* Player::set_vehicle
SetPlayerVehicle(p, seat, v) ==
    /\ players' = SeatsTakenBy(p, seat, v)
    /\ vehicle' = [vehicle EXCEPT ![p] = v]
    /\ vehicle_seat' = [vehicle_seat EXCEPT ![p] = seat]

\* nh::player::set_vehicle on the streamer of the vehicles concerned: a driver
\* locks the vehicle to himself, a driver who leaves unlocks it.
LockToDriver(p, v) ==
    /\ sync_type' = [sync_type EXCEPT ![v] = "Locked"]
    /\ owner' = [owner EXCEPT ![nid[v]] = nid[p]]

Unlock(v) ==
    /\ sync_type' = [sync_type EXCEPT ![v] = "Distance"]
    /\ owner' = [owner EXCEPT ![nid[v]] = nid[v]]

LeavesDriverSeat(p, seat, v) == seat = Driver /\ v = Null /\ vehicle[p] # Null
DrivesOff(p, seat, v) ==
    /\ seat = Driver /\ v = Null /\ vehicle[p] # Null
    /\ players[vehicle[p]][Driver] = p

Streamer(p, seat, v) ==
    IF seat = Driver /\ v # Null THEN LockToDriver(p, v)
    ELSE IF DrivesOff(p, seat, v) THEN Unlock(vehicle[p])
    ELSE UNCHANGED <<sync_type, owner>>

\* A packet names no vehicle, or one its sender's client once knew: the object
\* may be gone, and its NID reused, by the time the packet is handled.
Names(p, n) == n = Null \/ n \in known[p]

\* PlayerPID_SetVehicle: v is the vehicle entered, Null when one is left.
SetVehicle(s, n, seat) ==
    LET p == data[s]
        v == Lookup(n) IN
    /\ Receive(s) /\ Names(p, n)
    /\ IF v # Null /\ ~IsVehicle(v) THEN Fail("InvalidCast")
       ELSE IF StaleVehicle(p) THEN Fail("StaleVehicle")
       ELSE /\ Streamer(p, seat, v)
            /\ SetPlayerVehicle(p, seat, v)
            /\ UNCHANGED <<poolVars, kind, nid, net_objects, player_clients,
                           joined, dead, connVars, known, fault>>

\* PlayerPID_StateSync: the periodic restatement of a player's vehicle and
\* seat.  A NID that is no vehicle counts as none; the streamer is untouched.
StateSync(s, n, seat) ==
    LET p == data[s]
        v == IF IsVehicle(Lookup(n)) THEN Lookup(n) ELSE Null IN
    /\ Receive(s) /\ Names(p, n)
    /\ IF StaleVehicle(p) THEN Fail("StaleVehicle")
       ELSE /\ SetPlayerVehicle(p, IF v = Null THEN Null ELSE seat, v)
            /\ UNCHANGED <<poolVars, objVars, joined, dead, connVars,
                           known, fault>>

-----------------------------------------------------------------------------

Events ==
    \/ \E s \in Slots, a \in Addrs, o \in Obj, n \in Nids :
         Connect(s, a, o, n) \/ Reconnect(s, a, o, n)
    \/ \E s \in Slots : Disconnect(s) \/ ReceiveStale(s)

Packets ==
    \/ \E s \in Slots : Join(s)
    \/ \E o \in Obj, n \in Nids, k \in SpawnTypes : SpawnObject(o, n, k)
    \/ \E s \in Slots, n \in Nids : DestroyByPacket(s, n)
    \/ \E s \in Slots, n \in Nids, dies \in BOOLEAN : SyncHealth(s, n, dies)
    \/ \E s \in Slots, n \in Nids \union {Null}, seat \in Seats :
         SetVehicle(s, n, seat) \/ StateSync(s, n, seat)

Jobs ==
    \/ NidsExhausted
    \/ \E o \in Obj : DestroyObject(o)
    \/ DestroyDead
    \/ RefreshOwners

Next == Events \/ Packets \/ Jobs

Spec == Init /\ [][Next]_vars

-----------------------------------------------------------------------------
(* Properties                                                              *)

\* A NID is free or used, never both; the used ones are exactly the NIDs of
\* the objects that exist, no two of which share one; and the map of
\* ObjectLists and the librg records hold exactly those objects.  This is what
\* lets FREE_NID and remove_net_object assert what they assert.
NidCoherence ==
    /\ free_nids \intersect used_nids = {}
    /\ free_nids \union used_nids = Nids
    /\ \A o \in Obj : Live(o) => nid[o] \in used_nids /\ net_objects[nid[o]] = o
    /\ \A n \in Nids : n \in used_nids <=> net_objects[n] # Null
    /\ \A n \in Nids : net_objects[n] # Null =>
         kind[net_objects[n]] # "Freed" /\ nid[net_objects[n]] = n
    /\ \A n \in Nids : n \in used_nids <=> owner[n] # Null

\* Whoever sits in a vehicle's seat map is a listed player that remembers this
\* vehicle and this seat, so a player never sits in two seats and the map never
\* holds a player that was freed (on_net_var_change and ~VehicleNetObject
\* dereference every entry).
SeatMapSound ==
    \A v \in Obj, s \in Seats : players[v][s] # Null =>
        /\ IsVehicle(v)
        /\ players[v][s] \in player_clients
        /\ vehicle[players[v][s]] = v
        /\ vehicle_seat[players[v][s]] = s

\* However peers time out and reconnect, a listed player is still reached by a
\* connected peer of his own, and no two listed players share an address.
PlayersReachable ==
    /\ \A p \in player_clients :
         kind[p] = "Player" /\ peer[p] \in up /\ data[peer[p]] = p
    /\ \A p, q \in player_clients : addr[peer[p]] = addr[peer[q]] => p = q

SameVehicle(v) == IsVehicle(v) /\ kind'[v] = "Vehicle" /\ nid'[v] = nid[v]

\* A vehicle that survives a step is unlocked only by the exit of its own
\* driver: a player who lost the seat to another cannot unlock it.
UnlockStep ==
    \A v \in Obj :
        (SameVehicle(v) /\ sync_type[v] = "Locked" /\ sync_type'[v] # "Locked")
        => players[v][Driver] # Null /\ players'[v][Driver] = Null
UnlockedByItsDriver == [][UnlockStep]_vars

\* While a vehicle stays locked its streamer changes only to the player who is
\* in the driver seat after the step: no refresh hands it to someone else.
StreamerStep ==
    \A v \in Obj :
        (SameVehicle(v) /\ sync_type[v] = "Locked" /\ sync_type'[v] = "Locked"
           /\ owner'[nid[v]] # owner[nid[v]])
        => /\ players'[v][Driver] # Null
           /\ owner'[nid[v]] = nid'[players'[v][Driver]]
LockedStreamerIsNewDriver == [][StreamerStep]_vars

\* A SyncType_Distance object whose streamer left gets a streamer that is
\* joined, or none, again and again as long as the server runs.
DistanceOwnersValid ==
    \A o \in Listed : (kind[o] # "Player" /\ sync_type[o] = "Distance") =>
        \/ owner[nid[o]] = nid[o]
        \/ \E p \in JoinedPlayers : owner[nid[o]] = nid[p]
DistanceOwnersRefreshed == []<>(~Running \/ DistanceOwnersValid)
=============================================================================
