--------------------------- MODULE VehicleHandover ---------------------------
(***************************************************************************)
(* ServerWorld together with what its clients believe they stream.  Every  *)
(* 100 ms the server tells each joined player the NIDs it owns, before it  *)
(* gives the SyncType_Distance objects to the nearest player.  The client  *)
(* keeps a set of pointers to its copies of those objects, which nothing   *)
(* but the next such packet corrects.                                      *)
(*                                                                         *)
(* The client behind a peer is named by its slot.                          *)
(***************************************************************************)
EXTENDS ServerWorld, Sequences

CONSTANTS
    Blocks,     \* heap blocks of a client that hold copies of objects
    MaxPackets  \* bound: no refresh while so many packets are under way

ASSUME HandoverAssumption == Null \notin Blocks /\ MaxPackets \in Nat

VARIABLES
    packets,    \* per client: the Ownerships packets under way
    copy,       \* per client: its net_objects, players left out
    owned       \* per client: net_object_globals::owned_entities

clientVars == <<packets, copy, owned>>
handoverVars == <<vars, clientVars>>

NoCopies == [n \in Nids |-> Null]

HandoverInit ==
    /\ Init
    /\ packets = [s \in Slots |-> <<>>]
    /\ copy = [s \in Slots |-> NoCopies]
    /\ owned = [s \in Slots |-> {}]

\* The peer in s and the player that is listed for it refer to each other.
Linked(s) == s \in up /\ data[s] \in player_clients /\ peer[data[s]] = s

-----------------------------------------------------------------------------
(* The server                                                              *)

\* get_owned_entities: what librg has under the player's NID, itself left out.
OwnedNids(p) == {n \in used_nids : owner[n] = nid[p]} \ {nid[p]}

\* Mutant of Told: a player that owns nothing is passed over.
ToldIfAny(s) == Linked(s) /\ data[s] \in joined /\ OwnedNids(data[s]) # {}

\* A player that owns nothing is told so.
Told(s) == Linked(s) /\ data[s] \in joined

\* refresh_net_object_sync: the packets go out first.
RefreshNetObjectSync ==
    /\ \A s \in Slots : Len(packets[s]) < MaxPackets
    /\ RefreshOwners
    /\ packets' = [s \in Slots |->
                     IF Told(s) THEN Append(packets[s], OwnedNids(data[s]))
                     ELSE packets[s]]
    /\ UNCHANGED <<copy, owned>>

\* With the connection goes the client process, and what was on its way.
ClientsLeave ==
    /\ packets' = [s \in Slots |-> IF Linked(s)' THEN packets[s] ELSE <<>>]
    /\ copy' = [s \in Slots |-> IF Linked(s)' THEN copy[s] ELSE NoCopies]
    /\ owned' = [s \in Slots |-> IF Linked(s)' THEN owned[s] ELSE {}]

ServerStep ==
    \/ Events /\ ClientsLeave
    \/ (Packets \/ NidsExhausted \/ DestroyDead) /\ UNCHANGED clientVars
    \/ \E o \in Obj : DestroyObject(o) /\ UNCHANGED clientVars

-----------------------------------------------------------------------------
(* A client                                                                *)

\* spawn_net_object on a Create packet, also a late one, for a vehicle.
MakeCopy(s, n, b) ==
    /\ Linked(s) /\ n \in known[data[s]] \ {nid[data[s]]}
    /\ copy[s][n] = Null /\ \A m \in Nids : copy[s][m] # b
    /\ copy' = [copy EXCEPT ![s][n] = b]
    /\ UNCHANGED <<vars, packets, owned>>

\* destroy_net_object: the pointer stays in owned_entities, and the next object
\* at that address counts as owned.
FreeCopy(s, n) ==
    /\ Linked(s) /\ copy[s][n] # Null
    /\ copy' = [copy EXCEPT ![s][n] = Null]
    /\ UNCHANGED <<vars, packets, owned>>

CopiesOf(s, S) == {copy[s][n] : n \in S} \ {Null}

\* nh::player_client::ownerships: the old ones are forgotten, and NIDs without
\* an object are passed over.
Ownerships(s) ==
    /\ packets[s] # <<>>
    /\ owned' = [owned EXCEPT ![s] = CopiesOf(s, Head(packets[s]))]
    /\ packets' = [packets EXCEPT ![s] = Tail(@)]
    /\ UNCHANGED <<vars, copy>>

HandoverNext ==
    \/ ServerStep
    \/ RefreshNetObjectSync
    \/ \E s \in Slots :
        \/ \E n \in Nids : FreeCopy(s, n) \/ \E b \in Blocks : MakeCopy(s, n, b)
        \/ Ownerships(s)

\* The server's main loop never stops calling Net::tick, nor a client its own.
HandoverSpec ==
    /\ HandoverInit /\ [][HandoverNext]_handoverVars
    /\ WF_handoverVars(RefreshNetObjectSync)
    /\ \A s \in Slots : WF_handoverVars(Ownerships(s))

-----------------------------------------------------------------------------
(* What holds                                                              *)

\* Whatever happened before, stale packets, NIDs and pointers included: once
\* owners, players and a client's copies stay as they are, a joined client
\* streams its copies of the objects the server lets it stream, and no others.
Settled ==
    <>[][UNCHANGED <<owner, used_nids, nid, joined, player_clients, connVars,
                     copy>>]_handoverVars
StreamsRightful ==
    \A s \in Slots : Linked(s) /\ data[s] \in joined =>
        owned[s] = CopiesOf(s, OwnedNids(data[s]))
StreamsFollowOwners == Settled => <>[](~Running \/ StreamsRightful)
=============================================================================
