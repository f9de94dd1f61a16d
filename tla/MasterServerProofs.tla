------------------------- MODULE MasterServerProofs -------------------------
(***************************************************************************)
(* Proofs about MasterServer, for any number of game servers and           *)
(* connections.  The invariant is the life of a connection: what the four  *)
(* kinds of thread have done of it and what they have not.                 *)
(***************************************************************************)
EXTENDS MasterServer, TLAPS

AcceptAt(c, s) == accepting # Null /\ accepting.conn = c /\ accepting.at = s
NotAccepting(c) == accepting = Null \/ accepting.conn # c
ReapAt(c, s) == reaping # Null /\ reaping.conn = c /\ reaping.at = s
NotReaping(c) == reaping = Null \/ reaping.conn # c

\* A connection that no thread of the masterserver has seen.
Unseen(c) ==
    /\ NotAccepting(c) /\ NotReaping(c)
    /\ reader[c] = "None" /\ base[c] = "None"
    /\ c \notin servers /\ c \notin clients
    /\ peer[c] = Null => c \notin backlog

\* In the hands of the accept thread.
Made(c) ==
    /\ AcceptAt(c, "Made") /\ NotReaping(c)
    /\ reader[c] \in {"Reading", "Ended"} /\ base[c] = "None"
    /\ c \notin servers /\ c \notin clients
Linked(c) ==
    /\ AcceptAt(c, "Linked") /\ NotReaping(c)
    /\ reader[c] # "None" /\ base[c] = "Alive"
    /\ c \notin servers /\ c \notin clients
Known(c) ==
    /\ AcceptAt(c, "Known") /\ NotReaping(c)
    /\ reader[c] # "None" /\ base[c] = "Alive"
    /\ c \in servers /\ c \notin clients

\* In both lists, and in the hands of the update thread at the end.
Listed(c) ==
    /\ NotAccepting(c) /\ NotReaping(c)
    /\ reader[c] # "None" /\ base[c] = "Alive"
    /\ c \in servers /\ c \in clients
Deleting(c) ==
    /\ NotAccepting(c) /\ ReapAt(c, "Delete")
    /\ reader[c] = "Ended" /\ base[c] = "Alive"
    /\ c \in servers /\ c \in clients
Erasing(c) ==
    /\ NotAccepting(c) /\ ReapAt(c, "Erase")
    /\ reader[c] = "Ended" /\ base[c] = "Freed"
    /\ c \in servers /\ c \in clients
Dropping(c) ==
    /\ NotAccepting(c) /\ ReapAt(c, "Drop")
    /\ reader[c] = "Ended" /\ base[c] = "Freed"
    /\ c \notin servers /\ c \in clients

Accepted(c) ==
    \/ Made(c) \/ Linked(c) \/ Known(c)
    \/ Listed(c) \/ Deleting(c) \/ Erasing(c) \/ Dropping(c)

Life(c) == Unseen(c) \/ (Accepted(c) /\ c \notin backlog /\ peer[c] # Null)

\* The types without what TypeOK says of the lists, which the lives imply.
Types ==
    /\ running \subseteq Hosts
    /\ ms_conn \in [Hosts -> Conns \union {Null}]
    /\ peer \in [Conns -> Hosts \union {Null}]
    /\ info_sent \subseteq Conns /\ backlog \subseteq Conns
    /\ accepting \in {Null} \union Accepting
    /\ reader \in [Conns -> {"None", "Reading", "Handling", "Ended"}]
    /\ base \in [Conns -> {"None", "Alive", "Freed"}]
    /\ info \in [Conns -> Infos]
    /\ servers \subseteq Conns /\ clients \subseteq Conns
    /\ reaping \in {Null} \union Reaping
    /\ walk \in {Null} \union Walks
    /\ published \subseteq Infos \union {Junk}

IInv == Types /\ \A c \in Conns : Life(c)

-----------------------------------------------------------------------------

\* In the beginning there are no connections.
LEMMA InitInv == Init => IInv
<1> SUFFICES ASSUME Init PROVE IInv
  OBVIOUS
<1>1. Types
  BY DEF Init, Types, Infos
<1>2. ASSUME NEW c \in Conns PROVE Unseen(c)
  BY DEF Init, Unseen, NotAccepting, NotReaping
<1> QED BY <1>1, <1>2 DEF IInv, Life

\* Every step keeps the types.
LEMMA TypesStep ==
    ASSUME IInv, [Next]_vars
    PROVE  Types'
<1> USE DEF IInv, Types
<1>1. ASSUME NEW h \in Hosts,
             StartHost(h) \/ Reconnect(h) \/ SendInfo(h) \/ Break(h) \/ StopHost(h)
      PROVE  Types'
  BY <1>1 DEF StartHost, Reconnect, SendInfo, Break, StopHost, Dial, TellAgain,
     objVars, listVars
<1>2. CASE AcceptStep
  <2>1. ASSUME NEW c \in Conns, Accept(c) PROVE Types'
    BY <2>1 DEF Accept, hostVars, listVars, Accepting
  <2>2. CASE LinkServer \/ PushServer \/ PushClient
    BY <2>2 DEF LinkServer, PushServer, PushClient, hostVars, objVars, listVars,
       Accepting
  <2> QED BY <1>2, <2>1, <2>2 DEF AcceptStep
<1>3. ASSUME NEW c \in Conns, ReaderStep(c) PROVE Types'
  <2>1. CASE ReadInfo(c)
    BY <2>1 DEF ReadInfo, listVars
  <2>2. CASE SetInfo(c)
    <3>1. peer[c] \in Hosts
      BY <2>2 DEF SetInfo, Life, Unseen
    <3> QED BY <2>2, <3>1 DEF SetInfo, hostVars, listVars, Infos
  <2>3. CASE ReadFails(c)
    BY <2>3 DEF ReadFails, hostVars, listVars
  <2> QED BY <1>3, <2>1, <2>2, <2>3 DEF ReaderStep
<1>4. CASE ReapStep
  <2>1. ASSUME NEW c \in Conns, Reap(c) PROVE Types'
    BY <2>1 DEF Reap, hostVars, objVars, listVars, Reaping
  <2>2. CASE DeleteServer \/ EraseServer
    BY <2>2 DEF DeleteServer, EraseServer, hostVars, objVars, listVars, Reaping
  <2>3. CASE DropConn
    BY <2>3 DEF DropConn, Reaping, Infos
  <2> QED BY <1>4, <2>1, <2>2, <2>3 DEF ReapStep
<1>5. CASE UpdateStep
  <2>1. CASE BeginWalk
    BY <2>1 DEF BeginWalk, hostVars, objVars, listVars, Walks
  <2>2. CASE Visit
    BY <2>2 DEF Visit, hostVars, objVars, listVars, Walks
  <2>3. CASE Publish
    BY <2>3 DEF Publish, hostVars, objVars, listVars, Walks
  <2> QED BY <1>5, <2>1, <2>2, <2>3 DEF UpdateStep
<1>6. CASE UNCHANGED vars
  BY <1>6 DEF vars, hostVars, objVars, listVars
<1> QED BY <1>1, <1>2, <1>3, <1>4, <1>5, <1>6 DEF Next

\* Every step leaves every connection in one of the points of its life.
LEMMA LifeStep ==
    ASSUME IInv, [Next]_vars, NEW d \in Conns
    PROVE  Life(d)'
<1> USE DEF IInv, Types, Life, Accepted, Unseen, Made, Linked, Known, Listed,
            Deleting, Erasing, Dropping, AcceptAt, NotAccepting, ReapAt, NotReaping
<1>0. Life(d)
  OBVIOUS
<1>1. ASSUME NEW h \in Hosts,
             StartHost(h) \/ Reconnect(h) \/ SendInfo(h) \/ Break(h) \/ StopHost(h)
      PROVE  Life(d)'
  <2>1. CASE StartHost(h) \/ Reconnect(h)
    BY <1>0, <2>1, MasterAssumption DEF StartHost, Reconnect, Dial, objVars, listVars
  <2>2. CASE SendInfo(h) \/ Break(h) \/ StopHost(h)
    BY <1>0, <2>2 DEF SendInfo, Break, StopHost, objVars, listVars
  <2> QED BY <1>1, <2>1, <2>2
<1>2. CASE AcceptStep
  <2>1. ASSUME NEW c \in Conns, Accept(c) PROVE Life(d)'
    <3>1. CASE d = c
      <4>1. Unseen(c) /\ peer[c] # Null
        BY <2>1 DEF Accept
      <4> QED BY <2>1, <3>1, <4>1, MasterAssumption
              DEF Accept, hostVars, listVars, Accepting
    <3>2. CASE d # c
      BY <1>0, <2>1, <3>2 DEF Accept, hostVars, listVars
    <3> QED BY <3>1, <3>2
  <2>2. CASE LinkServer
    BY <1>0, <2>2, MasterAssumption DEF LinkServer, hostVars, listVars, Accepting
  <2>3. CASE PushServer
    BY <1>0, <2>3, MasterAssumption DEF PushServer, hostVars, objVars, Accepting
  <2>4. CASE PushClient
    BY <1>0, <2>4, MasterAssumption DEF PushClient, hostVars, objVars, Accepting
  <2> QED BY <1>2, <2>1, <2>2, <2>3, <2>4 DEF AcceptStep
<1>3. ASSUME NEW c \in Conns, ReaderStep(c) PROVE Life(d)'
  BY <1>0, <1>3 DEF ReaderStep, ReadInfo, SetInfo, ReadFails, hostVars, listVars
<1>4. CASE ReapStep
  <2>1. ASSUME NEW c \in Conns, Reap(c) PROVE Life(d)'
    BY <1>0, <2>1, MasterAssumption
       DEF Reap, Closed, hostVars, objVars, listVars, Reaping
  <2>2. CASE DeleteServer
    BY <1>0, <2>2, MasterAssumption DEF DeleteServer, hostVars, listVars, Reaping
  <2>3. CASE EraseServer
    BY <1>0, <2>3, MasterAssumption DEF EraseServer, hostVars, objVars, Reaping
  <2>4. CASE DropConn
    BY <1>0, <2>4 DEF DropConn, Reaping
  <2> QED BY <1>4, <2>1, <2>2, <2>3, <2>4 DEF ReapStep
<1>5. CASE UpdateStep
  BY <1>0, <1>5 DEF UpdateStep, BeginWalk, Visit, Publish, hostVars, objVars, listVars
<1>6. CASE UNCHANGED vars
  BY <1>0, <1>6 DEF vars, hostVars, objVars, listVars
<1> QED BY <1>1, <1>2, <1>3, <1>4, <1>5, <1>6 DEF Next

\* The invariant holds in every state of every behaviour.
LEMMA Invariance == Spec => []IInv
<1>1. IInv /\ [Next]_vars => IInv'
  BY TypesStep, LifeStep DEF IInv
<1> QED BY InitInv, <1>1, PTL DEF Spec

\* What the threads share keeps its types, and only connections that were made
\* are in the lists.
THEOREM MasterTypeCorrect == Spec => []TypeOK
<1>1. IInv => TypeOK
  <2> SUFFICES ASSUME IInv PROVE TypeOK
    OBVIOUS
  <2>1. \A c \in servers \union clients : peer[c] # Null
    BY DEF IInv, Types, Life, Unseen
  <2> QED BY <2>1 DEF IInv, Types, TypeOK
<1> QED BY Invariance, <1>1, PTL

\* A walk over the list meets a freed Server only in the middle of a
\* remove_server, for any number of connections.
THEOREM ListedExist == Spec => []ListedServersExist
<1>1. ASSUME IInv, NEW c \in servers
      PROVE  base[c] = "Alive" \/ reaping = [conn |-> c, at |-> "Erase"]
  <2>1. base[c] = "Alive" \/ ReapAt(c, "Erase")
    BY <1>1 DEF IInv, Types, Life, Accepted, Unseen, Made, Linked, Known, Listed,
       Deleting, Erasing, Dropping
  <2> QED BY <1>1, <2>1 DEF ReapAt, IInv, Types, Reaping
<1>2. IInv => ListedServersExist
  BY <1>1 DEF ListedServersExist
<1> QED BY Invariance, <1>2, PTL

\* No handler works on a deleted Server.
THEOREM HandlersSafe == Spec => []HandlerServerExists
<1>1. IInv => HandlerServerExists
  BY DEF IInv, Types, Life, Accepted, Unseen, Made, Linked, Known, Listed,
     Deleting, Erasing, Dropping, HandlerServerExists
<1> QED BY Invariance, <1>1, PTL
=============================================================================
