--------------------------- MODULE ScriptingProofs ---------------------------
(***************************************************************************)
(* Proofs about what scripts run on: ScriptTimers, for any number of       *)
(* resources and timers, and EventDispatch, for any nesting depth, counter *)
(* bound and number of cancellations.                                      *)
(*                                                                         *)
(* Timers: the invariant says where the walk of update stands, and that a  *)
(* timer that fired after it was killed lies in the list that is visited,  *)
(* behind the walk unless a rehash has brought it up again.                *)
(*                                                                         *)
(* Events: the id of a cancelled event stays on the stack, under larger    *)
(* ones only, until the event ends.  Each such event has its own place on  *)
(* the stack, so that counting tells the leftovers of events that were     *)
(* cancelled twice, and the dispatcher implements CancellableEvents.       *)
(***************************************************************************)
EXTENDS ScriptTimers, EventDispatch, SequenceTheorems, FiniteSetTheorems, TLAPS

(* The timers                                                              *)

PassSound ==
    /\ ~pass.on => pass = NoPass
    /\ pass.cur # Null => pass.rsrc # Null
    /\ pass.rsrc = Null => pass.todo = {}

LateSound ==
    \A t \in Timers :
       /\ late[t] <= 1 + pass.rehashed
       /\ t \in pass.todo => late[t] <= pass.rehashed
       /\ late[t] # 0 => /\ t \in pending
                         /\ pass.rsrc # Null /\ t \in timer_list[pass.rsrc]

Passes == [on : BOOLEAN, rsrc : Resources \union {Null},
           todo : SUBSET Timers, rest : SUBSET Resources,
           cur : Timers \union {Null}, rehashed : Nat]

TimersInv == TypeOK /\ TimersLive /\ PassSound /\ LateSound

-----------------------------------------------------------------------------

\* Live in terms of the lists.
LEMMA LiveIsListed ==
    \A t : t \in Live <=> \E r \in Resources : t \in timer_list[r]
BY DEF Live

\* The sizes of lists are numbers.
LEMMA RoomIsNat ==
    ASSUME TypeOK, NEW r \in Resources, NEW t \in Timers
    PROVE  /\ Room(NewList(r, t), list_room[r]) \in Nat
           /\ Room(NewKeys(r), keys_room) \in Nat
<1>1. IsFiniteSet(NewList(r, t)) /\ IsFiniteSet(NewKeys(r))
  <2>1. NewList(r, t) \in SUBSET Timers /\ NewKeys(r) \in SUBSET Resources
    BY DEF TypeOK, NewList, NewKeys
  <2> QED BY <2>1, MemoryAssumption, FS_Subset
<1>2. Cardinality(NewList(r, t)) \in Nat /\ Cardinality(NewKeys(r)) \in Nat
  BY <1>1, FS_CardinalityType
<1> QED BY <1>2 DEF TypeOK, Room

\* What setTimer does to the walk: the timer or the resource is met or not, or
\* a rehash takes the walk to any entries of the table it is in.
LEMMA WalkAfterSet ==
    ASSUME pass \in Passes, NEW r \in Resources, NEW t \in Timers,
           timer_list \in [Resources -> SUBSET Timers], timer_keys \subseteq Resources,
           pass' \in MayMeet(r, t) \union MayMeetAnew(r, t)
    PROVE  /\ pass' \in Passes
           /\ pass'.on = pass.on /\ pass'.rsrc = pass.rsrc /\ pass'.cur = pass.cur
           /\ ~pass.on => pass' = pass
           /\ pass'.rest = pass.rest \/ pass'.rest \subseteq pass.rest \union NewKeys(r)
           /\ \/ pass'.rehashed = pass.rehashed /\ pass'.todo = pass.todo
              \/ /\ pass'.rehashed = pass.rehashed /\ pass.rsrc = r
                 /\ pass'.todo = pass.todo \union {t}
              \/ /\ pass'.rehashed = pass.rehashed + 1 /\ pass.rsrc = r
                 /\ pass'.todo \subseteq NewList(r, t)
<1>1. CASE pass' \in MayMeet(r, t)
  <2>1. CASE pass' = pass
    BY <2>1
  <2>2. CASE /\ pass.on /\ pass.rsrc = r
             /\ pass' = [pass EXCEPT !.todo = pass.todo \union {t}]
    BY <2>2 DEF Passes
  <2>3. CASE /\ pass.on /\ pass' = [pass EXCEPT !.rest = pass.rest \union {r}]
    BY <2>3 DEF Passes, NewKeys
  <2> QED BY <1>1, <2>1, <2>2, <2>3 DEF MayMeet
<1>2. CASE pass' \in MayMeetAnew(r, t)
  <2>1. CASE pass.on /\ pass.rsrc = r
    <3>1. PICK s \in SUBSET NewList(r, t) :
            pass' = [pass EXCEPT !.todo = s, !.rehashed = pass.rehashed + 1]
      BY <1>2, <2>1 DEF MayMeetAnew
    <3>2. s \in SUBSET Timers
      BY DEF NewList
    <3>3. pass.rehashed + 1 \in Nat
      BY DEF Passes
    <3>4. /\ pass'.on = pass.on /\ pass'.rsrc = pass.rsrc /\ pass'.cur = pass.cur
          /\ pass'.rest = pass.rest /\ pass'.todo = s
          /\ pass'.rehashed = pass.rehashed + 1
      BY <3>1 DEF Passes
    <3>5. pass' \in Passes
      BY <3>1, <3>2, <3>3 DEF Passes
    <3> QED BY <3>4, <3>5, <2>1
  <2>2. CASE ~(pass.on /\ pass.rsrc = r)
    <3>1. pass.on /\ \E s \in SUBSET NewKeys(r) : pass' = [pass EXCEPT !.rest = s]
      BY <1>2, <2>2 DEF MayMeetAnew
    <3>2. PICK s \in SUBSET NewKeys(r) : pass' = [pass EXCEPT !.rest = s]
      BY <3>1
    <3> QED BY <3>1, <3>2 DEF Passes, NewKeys
  <2> QED BY <2>1, <2>2
<1> QED BY <1>1, <1>2

\* Set from inside or outside of a pass, the invariant's other parts follow.
LEMMA SetKeeps ==
    ASSUME TimersInv, NEW r \in Resources, NEW t \in Timers,
           NEW n \in 0 .. MaxTimes, SetTimer(r, t, n)
    PROVE  TypeOK' /\ TimersLive' /\ PassSound' /\ LateSound'
<1>1. TypeOK /\ TimersLive /\ PassSound /\ LateSound
  BY DEF TimersInv
<1>2. pass \in Passes
  BY <1>1 DEF TypeOK, Passes
<1>3. /\ pass' \in Passes
      /\ pass'.on = pass.on /\ pass'.rsrc = pass.rsrc /\ pass'.cur = pass.cur
      /\ ~pass.on => pass' = pass
      /\ pass'.rest = pass.rest \/ pass'.rest \subseteq pass.rest \union NewKeys(r)
      /\ \/ pass'.rehashed = pass.rehashed /\ pass'.todo = pass.todo
         \/ /\ pass'.rehashed = pass.rehashed /\ pass.rsrc = r
            /\ pass'.todo = pass.todo \union {t}
         \/ /\ pass'.rehashed = pass.rehashed + 1 /\ pass.rsrc = r
            /\ pass'.todo \subseteq NewList(r, t)
  <2>1. pass' \in MayMeet(r, t) \union MayMeetAnew(r, t)
    BY DEF SetTimer
  <2>2. timer_list \in [Resources -> SUBSET Timers] /\ timer_keys \subseteq Resources
    BY <1>1 DEF TypeOK
  <2> HIDE DEF Passes
  <2> QED BY <2>1, <2>2, <1>2, WalkAfterSet
<1>4. /\ timer_list' = [timer_list EXCEPT ![r] = timer_list[r] \union {t}]
      /\ timer_keys' = timer_keys \union {r}
      /\ alive' = alive /\ pending' = pending /\ late' = late /\ fault' = fault
      /\ r \in alive /\ t \notin Live
      /\ NewList(r, t) = timer_list'[r] /\ NewKeys(r) = timer_keys'
  BY <1>1 DEF SetTimer, Calls, NewList, NewKeys, TypeOK
<1>5. \A q \in Resources : t \notin timer_list[q]
  BY <1>4 DEF Live
<1>6. TypeOK'
  <2>1. timer' \in [Timers -> [times : 0 .. MaxTimes, left : -1 .. MaxTimes]]
    BY <1>1 DEF SetTimer, TypeOK
  <2>2. timer_list' \in [Resources -> SUBSET Timers] /\ timer_keys' \subseteq Resources
    BY <1>1, <1>4 DEF TypeOK
  <2>3. pending' \subseteq Live'
    BY <1>1, <1>4 DEF TypeOK, Live
  <2>4. keys_room' \in Nat /\ list_room' \in [Resources -> Nat]
    BY <1>1, RoomIsNat DEF SetTimer, TypeOK
  <2>5. held' \in [Resources -> SUBSET Timers]
    BY <1>1 DEF SetTimer, TypeOK
  <2> QED BY <1>1, <1>3, <1>4, <2>1, <2>2, <2>3, <2>4, <2>5 DEF TypeOK, Passes
<1>7. TimersLive'
  <2>1. \A q \in Resources : timer_list'[q] # {} => q \in alive /\ q \in timer_keys'
    BY <1>1, <1>4 DEF TimersLive, TypeOK
  <2>2. \A p, q \in Resources : p # q => timer_list'[p] \intersect timer_list'[q] = {}
    BY <1>1, <1>4, <1>5 DEF TimersLive, TypeOK
  <2>3. timer_keys' \subseteq alive
    BY <1>1, <1>4 DEF TimersLive
  <2>4. ASSUME pass.rsrc # Null
        PROVE  /\ pass'.todo \subseteq timer_list'[pass.rsrc]
               /\ pass.cur # Null => pass.cur \in timer_list'[pass.rsrc]
    BY <2>4, <1>1, <1>2, <1>3, <1>4 DEF TimersLive, TypeOK, Passes
  <2>5. pass'.rest \subseteq timer_keys'
    BY <1>1, <1>3, <1>4 DEF TimersLive
  <2> QED BY <1>3, <1>4, <2>1, <2>2, <2>3, <2>4, <2>5 DEF TimersLive
<1>8. PassSound'
  BY <1>1, <1>3, NullAssumption DEF PassSound, NoPass
<1>9. LateSound'
  <2> SUFFICES ASSUME NEW u \in Timers
               PROVE  /\ late[u] <= 1 + pass'.rehashed
                      /\ u \in pass'.todo => late[u] <= pass'.rehashed
                      /\ late[u] # 0 => /\ u \in pending
                                        /\ pass.rsrc # Null
                                        /\ u \in timer_list'[pass.rsrc]
    BY <1>3, <1>4 DEF LateSound
  <2>1. /\ late[u] <= 1 + pass.rehashed
        /\ u \in pass.todo => late[u] <= pass.rehashed
        /\ late[u] # 0 => /\ u \in pending /\ pass.rsrc # Null
                          /\ u \in timer_list[pass.rsrc]
    BY <1>1 DEF LateSound
  <2>2. late[u] \in Nat /\ pass.rehashed \in Nat
    BY <1>1, <1>2 DEF TypeOK, Passes
  <2>3. late[t] = 0
    BY <1>1, <1>2, <1>5 DEF LateSound, Passes
  <2>4. late[u] # 0 => u \in timer_list'[pass.rsrc]
    BY <2>1, <1>1, <1>2, <1>4 DEF TypeOK, Passes
  <2> QED BY <2>1, <2>2, <2>3, <2>4, <1>3
<1> QED BY <1>6, <1>7, <1>8, <1>9

\* No resource, no timer and no pass in the beginning.
LEMMA InitInv == Init => TimersInv
BY NullAssumption, TimesAssumption DEF Init, TimersInv, TypeOK, TimersLive, PassSound,
   LateSound, NoPass, NoTimer, Live

\* Every step keeps the types.
LEMMA TypeStep ==
    ASSUME TimersInv, [Next]_vars
    PROVE  TypeOK'
<1> USE NullAssumption, TimesAssumption, LiveIsListed DEF TimersInv, TypeOK, TimersLive, PassSound, NoPass, Live
<1>1. ASSUME NEW r \in Resources, StartResource(r) PROVE TypeOK'
  BY <1>1 DEF StartResource, tables, Idle, Visiting
<1>2. ASSUME NEW r \in Resources, StopResource(r) PROVE TypeOK'
  BY <1>2 DEF StopResource, Freed, KeysAfterStop, NoTimer, tables, Idle, Visiting
<1>3. CASE Update
  <2>1. pass' \in Passes
    BY <1>3 DEF Passes, Update
  <2>2. late' \in [Timers -> Nat] /\ timer' \in [Timers -> [times : 0 .. MaxTimes, left : -1 .. MaxTimes]]
    BY <1>3 DEF Update, tables, Idle, Visiting
  <2> QED BY <1>3, <2>1, <2>2 DEF Passes, Update, tables, Idle, Visiting
<1>4. ASSUME NEW r \in Resources, NextResource(r) PROVE TypeOK'
  <2>1. pass' \in Passes
    BY <1>4 DEF Passes, NextResource
  <2>2. late' \in [Timers -> Nat] /\ timer' \in [Timers -> [times : 0 .. MaxTimes, left : -1 .. MaxTimes]]
    BY <1>4 DEF NextResource, tables, Idle, Visiting
  <2> QED BY <1>4, <2>1, <2>2 DEF Passes, NextResource, tables, Idle, Visiting
<1>5. ASSUME NEW t \in Timers, Fire(t) PROVE TypeOK'
  <2>1. pass' \in Passes
    BY <1>5 DEF Passes, Fire
  <2>2. late' \in [Timers -> Nat] /\ timer' \in [Timers -> [times : 0 .. MaxTimes, left : -1 .. MaxTimes]]
    BY <1>5 DEF Fire, Decremented, tables, Idle, Visiting
  <2> QED BY <1>5, <2>1, <2>2 DEF Passes, Fire, tables, Idle, Visiting
<1>6. CASE AfterCallback
  BY <1>6 DEF AfterCallback, Spent, tables, Idle, Visiting
<1>7. ASSUME NEW t \in Timers, Waits(t) PROVE TypeOK'
  BY <1>7 DEF Waits, Spent, tables, Idle, Visiting
<1>8. CASE Sweep
  <2>1. pass' \in Passes
    BY <1>8 DEF Passes, Sweep
  <2>2. late' \in [Timers -> Nat] /\ timer' \in [Timers -> [times : 0 .. MaxTimes, left : -1 .. MaxTimes]]
    BY <1>8 DEF Sweep, Freed, NoTimer
  <2>3. timer_list' \in [Resources -> SUBSET Timers]
    BY <1>8 DEF Sweep
  <2>4. pending' \subseteq Live'
    BY <1>8 DEF Sweep, Freed, Swept
  <2> QED BY <1>8, <2>1, <2>2, <2>3, <2>4 DEF Passes, Sweep
<1>9. CASE Updated
  BY <1>9 DEF Updated, NoPass, tables, Idle, Visiting
<1>10. ASSUME NEW r \in Resources, NEW t \in Timers, NEW n \in 0 .. MaxTimes, SetTimer(r, t, n) PROVE TypeOK'
  BY <1>10, SetKeeps
<1>11. ASSUME NEW r \in Resources, NEW t \in Timers, KillTimer(r, t) PROVE TypeOK'
  BY <1>11 DEF KillTimer, Calls, tables, Idle, Visiting
<1>12. ASSUME NEW r \in Resources, NEW t \in Timers, ResetTimer(r, t) PROVE TypeOK'
  BY <1>12 DEF ResetTimer, Calls, tables, Idle, Visiting
<1>13. ASSUME NEW r \in Resources, NEW t \in Timers, TouchFreed(r, t) PROVE TypeOK'
  BY <1>13 DEF TouchFreed, Calls, tables, Idle, Visiting
<1>14. CASE UNCHANGED vars
  BY <1>14 DEF vars, tables
<1> QED BY <1>1, <1>2, <1>3, <1>4, <1>5, <1>6, <1>7, <1>8, <1>9, <1>10, <1>11, <1>12, <1>13, <1>14
   DEF Next, Proceed, ScriptCalls

\* No step leaves a freed timer, or one of a resource that is gone, to a walk.
LEMMA LiveStep ==
    ASSUME TimersInv, [Next]_vars
    PROVE  TimersLive'
<1> USE NullAssumption, TimesAssumption, LiveIsListed DEF TimersInv, TypeOK, TimersLive, PassSound, NoPass
<1>1. ASSUME NEW r \in Resources, StartResource(r) PROVE TimersLive'
  BY <1>1 DEF StartResource, tables, Idle, Visiting
<1>2. ASSUME NEW r \in Resources, StopResource(r) PROVE TimersLive'
  BY <1>2 DEF StopResource, Freed, KeysAfterStop, NoTimer, tables, Idle, Visiting
<1>3. CASE Update
  BY <1>3 DEF Update, NoPass, tables, Idle, Visiting
<1>4. ASSUME NEW r \in Resources, NextResource(r) PROVE TimersLive'
  BY <1>4 DEF NextResource, tables, Idle, Visiting
<1>5. ASSUME NEW t \in Timers, Fire(t) PROVE TimersLive'
  BY <1>5 DEF Fire, Decremented, tables, Idle, Visiting
<1>6. CASE AfterCallback
  BY <1>6 DEF AfterCallback, Spent, tables, Idle, Visiting
<1>7. ASSUME NEW t \in Timers, Waits(t) PROVE TimersLive'
  BY <1>7 DEF Waits, Spent, tables, Idle, Visiting
<1>8. CASE Sweep
  BY <1>8 DEF Sweep, Freed, Swept, NoTimer, tables, Idle, Visiting
<1>9. CASE Updated
  BY <1>9 DEF Updated, NoPass, tables, Idle, Visiting
<1>10. ASSUME NEW r \in Resources, NEW t \in Timers, NEW n \in 0 .. MaxTimes, SetTimer(r, t, n) PROVE TimersLive'
  BY <1>10, SetKeeps
<1>11. ASSUME NEW r \in Resources, NEW t \in Timers, KillTimer(r, t) PROVE TimersLive'
  BY <1>11 DEF KillTimer, Calls, tables, Idle, Visiting
<1>12. ASSUME NEW r \in Resources, NEW t \in Timers, ResetTimer(r, t) PROVE TimersLive'
  BY <1>12 DEF ResetTimer, Calls, tables, Idle, Visiting
<1>13. ASSUME NEW r \in Resources, NEW t \in Timers, TouchFreed(r, t) PROVE TimersLive'
  BY <1>13 DEF TouchFreed, Calls, tables, Idle, Visiting
<1>14. CASE UNCHANGED vars
  BY <1>14 DEF vars, tables
<1> QED BY <1>1, <1>2, <1>3, <1>4, <1>5, <1>6, <1>7, <1>8, <1>9, <1>10, <1>11, <1>12, <1>13, <1>14
   DEF Next, Proceed, ScriptCalls

\* The walk stays well-formed.
LEMMA PassStep ==
    ASSUME TimersInv, [Next]_vars
    PROVE  PassSound'
<1> USE NullAssumption, TimesAssumption, LiveIsListed DEF TimersInv, TypeOK, PassSound, NoPass
<1>1. ASSUME NEW r \in Resources, StartResource(r) PROVE PassSound'
  BY <1>1 DEF StartResource, tables, Idle, Visiting
<1>2. ASSUME NEW r \in Resources, StopResource(r) PROVE PassSound'
  BY <1>2 DEF StopResource, Freed, KeysAfterStop, NoTimer, tables, Idle, Visiting
<1>3. CASE Update
  BY <1>3 DEF Update, NoPass, tables, Idle, Visiting
<1>4. ASSUME NEW r \in Resources, NextResource(r) PROVE PassSound'
  BY <1>4 DEF NextResource, tables, Idle, Visiting
<1>5. ASSUME NEW t \in Timers, Fire(t) PROVE PassSound'
  BY <1>5 DEF Fire, Decremented, tables, Idle, Visiting
<1>6. CASE AfterCallback
  BY <1>6 DEF AfterCallback, Spent, tables, Idle, Visiting
<1>7. ASSUME NEW t \in Timers, Waits(t) PROVE PassSound'
  BY <1>7 DEF Waits, Spent, tables, Idle, Visiting
<1>8. CASE Sweep
  BY <1>8 DEF Sweep, Freed, Swept, NoTimer, tables, Idle, Visiting
<1>9. CASE Updated
  BY <1>9 DEF Updated, NoPass, tables, Idle, Visiting
<1>10. ASSUME NEW r \in Resources, NEW t \in Timers, NEW n \in 0 .. MaxTimes, SetTimer(r, t, n) PROVE PassSound'
  BY <1>10, SetKeeps
<1>11. ASSUME NEW r \in Resources, NEW t \in Timers, KillTimer(r, t) PROVE PassSound'
  BY <1>11 DEF KillTimer, Calls, tables, Idle, Visiting
<1>12. ASSUME NEW r \in Resources, NEW t \in Timers, ResetTimer(r, t) PROVE PassSound'
  BY <1>12 DEF ResetTimer, Calls, tables, Idle, Visiting
<1>13. ASSUME NEW r \in Resources, NEW t \in Timers, TouchFreed(r, t) PROVE PassSound'
  BY <1>13 DEF TouchFreed, Calls, tables, Idle, Visiting
<1>14. CASE UNCHANGED vars
  BY <1>14 DEF vars, tables
<1> QED BY <1>1, <1>2, <1>3, <1>4, <1>5, <1>6, <1>7, <1>8, <1>9, <1>10, <1>11, <1>12, <1>13, <1>14
   DEF Next, Proceed, ScriptCalls

\* A timer that fired after it was killed is not met again without a rehash.
LEMMA LateStep ==
    ASSUME TimersInv, [Next]_vars
    PROVE  LateSound'
<1> USE NullAssumption, TimesAssumption, LiveIsListed DEF TimersInv, TypeOK, TimersLive, PassSound, LateSound, NoPass
<1>1. ASSUME NEW r \in Resources, StartResource(r) PROVE LateSound'
  BY <1>1 DEF StartResource, tables, Idle, Visiting
<1>2. ASSUME NEW r \in Resources, StopResource(r) PROVE LateSound'
  BY <1>2 DEF StopResource, Freed, KeysAfterStop, NoTimer, tables, Idle, Visiting
<1>3. CASE Update
  BY <1>3 DEF Update, NoPass, tables, Idle, Visiting
<1>4. ASSUME NEW r \in Resources, NextResource(r) PROVE LateSound'
  BY <1>4 DEF NextResource, tables, Idle, Visiting
<1>5. ASSUME NEW t \in Timers, Fire(t) PROVE LateSound'
  BY <1>5 DEF Fire, Decremented, tables, Idle, Visiting
<1>6. CASE AfterCallback
  BY <1>6 DEF AfterCallback, Spent, tables, Idle, Visiting
<1>7. ASSUME NEW t \in Timers, Waits(t) PROVE LateSound'
  BY <1>7 DEF Waits, Spent, tables, Idle, Visiting
<1>8. CASE Sweep
  BY <1>8 DEF Sweep, Freed, Swept, NoTimer, tables, Idle, Visiting
<1>9. CASE Updated
  BY <1>9 DEF Updated, NoPass, tables, Idle, Visiting
<1>10. ASSUME NEW r \in Resources, NEW t \in Timers, NEW n \in 0 .. MaxTimes, SetTimer(r, t, n) PROVE LateSound'
  BY <1>10, SetKeeps
<1>11. ASSUME NEW r \in Resources, NEW t \in Timers, KillTimer(r, t) PROVE LateSound'
  BY <1>11 DEF KillTimer, Calls, tables, Idle, Visiting
<1>12. ASSUME NEW r \in Resources, NEW t \in Timers, ResetTimer(r, t) PROVE LateSound'
  BY <1>12 DEF ResetTimer, Calls, tables, Idle, Visiting
<1>13. ASSUME NEW r \in Resources, NEW t \in Timers, TouchFreed(r, t) PROVE LateSound'
  BY <1>13 DEF TouchFreed, Calls, tables, Idle, Visiting
<1>14. CASE UNCHANGED vars
  BY <1>14 DEF vars, tables
<1> QED BY <1>1, <1>2, <1>3, <1>4, <1>5, <1>6, <1>7, <1>8, <1>9, <1>10, <1>11, <1>12, <1>13, <1>14
   DEF Next, Proceed, ScriptCalls

\* The invariant is inductive.
LEMMA StepInv == TimersInv /\ [Next]_vars => TimersInv'
BY TypeStep, LiveStep, PassStep, LateStep DEF TimersInv

\* The invariant holds in every reachable state.
LEMMA Invariance == Spec => []TimersInv
BY InitInv, StepInv, PTL DEF Spec

\* Tables, flags and counts keep their types, and only listed timers are
\* pending, whatever scripts call from wherever.
THEOREM TimersTypeCorrect == Spec => []TypeOK
<1>1. TimersInv => TypeOK
  BY DEF TimersInv
<1> QED BY <1>1, Invariance, PTL

\* update never visits a freed timer or one whose resource is gone, also when
\* setTimer rehashes the tables that it walks.
THEOREM TimersAlwaysLive == Spec => []TimersLive
<1>1. TimersInv => TimersLive
  BY DEF TimersInv
<1> QED BY <1>1, Invariance, PTL

\* A killed timer fires at most once more, and once more for each time its set
\* is rehashed under the visit.
THEOREM KilledOnce == Spec => []KilledFiresOnce
<1>1. TimersInv => KilledFiresOnce
  BY DEF TimersInv, LateSound, KilledFiresOnce
<1> QED BY <1>1, Invariance, PTL

-----------------------------------------------------------------------------
(* The events                                                              *)

\* Inner events have larger ids than the events around them.
IdsIncrease ==
    /\ \A k, l \in 1 .. Len(frames) : k < l => frames[k].id < frames[l].id
    /\ \A k \in 1 .. Len(frames) : frames[k].id <= id

\* An event can be cancelled until one nested in it ends.
CancellableMeans ==
    cancellable <=> frames # <<>> /\ ~frames[Len(frames)].interrupted

\* Right after a trigger, and as long as a cancelled event runs, the counter is
\* the id of the innermost event ...
CounterIsInnermost ==
    (cancellable \/ \E k \in 1 .. Len(frames) : frames[k].asked) =>
        /\ frames # <<>>
        /\ frames[Len(frames)].id = id

\* ... because inside of a cancelled event the stack is never empty, and so the
\* ids are consecutive.
IdsConsecutive ==
    \A j, k \in 1 .. Len(frames) :
        (j <= k /\ k < Len(frames) /\ frames[j].asked)
        => frames[k + 1].id = frames[k].id + 1

DispatchInv ==
    /\ DispatchTypeOK /\ IdsIncrease /\ CancellableMeans /\ CounterIsInnermost
    /\ IdsConsecutive /\ CancellationsKept /\ VerdictMatches

LEMMA TypeFacts ==
    ASSUME DispatchTypeOK
    PROVE  /\ id \in Int /\ frames \in Seq(Frame) /\ Len(frames) \in Nat
           /\ cancelled_events \in Seq(Int) /\ Len(cancelled_events) \in Nat
           /\ \A k \in 1 .. Len(frames) :
                /\ frames[k] \in Frame /\ frames[k].id \in Int
                /\ frames[k].asked \in BOOLEAN /\ frames[k].interrupted \in BOOLEAN
           /\ \A i \in 1 .. Len(cancelled_events) : cancelled_events[i] \in Int
<1>1. frames \in Seq(Frame) /\ cancelled_events \in Seq(Int) /\ id \in Int
  BY DEF DispatchTypeOK
<1>2. \A k \in 1 .. Len(frames) : frames[k] \in Frame
  BY <1>1
<1> QED BY <1>1, <1>2 DEF Frame

\* A function on 1 .. n is a sequence of length n.
LEMMA FunctionIsSeq ==
    ASSUME NEW S, NEW n \in Nat, NEW f \in [1 .. n -> S]
    PROVE  f \in Seq(S) /\ Len(f) = n
<1>1. f \in Seq(S)
  OBVIOUS
<1>2. DOMAIN f = 1 .. n /\ DOMAIN f = 1 .. Len(f) /\ Len(f) \in Nat
  BY <1>1, LenProperties
<1> QED BY <1>1, <1>2

LEMMA PopFacts ==
    ASSUME NEW S, NEW s \in Seq(S), Len(s) # 0
    PROVE  /\ Pop(s) \in Seq(S) /\ Len(Pop(s)) = Len(s) - 1
           /\ \A i \in 1 .. Len(s) - 1 : Pop(s)[i] = s[i]
<1> DEFINE n == Len(s) - 1
<1>1. n \in Nat /\ n \in Int /\ 1 \in Int /\ n - 1 + 1 = n
  OBVIOUS
<1>2. \A i \in 1 .. n : s[i] \in S
  OBVIOUS
<1>3. /\ Pop(s) \in Seq(S)
      /\ Len(Pop(s)) = IF 1 <= n THEN n - 1 + 1 ELSE 0
      /\ \A i \in 1 .. n - 1 + 1 : Pop(s)[i] = s[1 + i - 1]
  <2> HIDE DEF n
  <2> QED BY <1>1, <1>2, SubSeqProperties DEF n, Pop
<1>4. Len(Pop(s)) = n
  <2> HIDE DEF n
  <2> QED BY <1>1, <1>3
<1>5. \A i \in 1 .. n : 1 + i - 1 = i
  OBVIOUS
<1> QED BY <1>1, <1>3, <1>4, <1>5

LEMMA AppendFacts ==
    ASSUME NEW S, NEW s \in Seq(S), NEW e \in S
    PROVE  /\ Append(s, e) \in Seq(S) /\ Len(Append(s, e)) = Len(s) + 1
           /\ \A i \in 1 .. Len(s) : Append(s, e)[i] = s[i]
           /\ Append(s, e)[Len(s) + 1] = e
  OBVIOUS

-----------------------------------------------------------------------------
(* What each step does to the running events and to the stack.             *)

LEMMA TriggerFacts ==
    ASSUME DispatchTypeOK, TriggerEvent
    PROVE  /\ frames' \in Seq(Frame) /\ Len(frames') = Len(frames) + 1
           /\ \A k \in 1 .. Len(frames) : frames'[k] = frames[k]
           /\ frames'[Len(frames) + 1] =
                [id |-> id + 1, asked |-> FALSE, interrupted |-> FALSE]
           /\ id' = id + 1 /\ cancellable' = TRUE
           /\ cancelled_events' = cancelled_events /\ verdict' = verdict
<1>1. [id |-> id + 1, asked |-> FALSE, interrupted |-> FALSE] \in Frame
  BY TypeFacts DEF Frame
<1>2. frames' = Append(frames, [id |-> id + 1, asked |-> FALSE, interrupted |-> FALSE])
  BY DEF TriggerEvent, NextId
<1>3. /\ frames' \in Seq(Frame) /\ Len(frames') = Len(frames) + 1
      /\ \A k \in 1 .. Len(frames) : frames'[k] = frames[k]
      /\ frames'[Len(frames) + 1] =
           [id |-> id + 1, asked |-> FALSE, interrupted |-> FALSE]
  BY <1>1, <1>2, TypeFacts, AppendFacts
<1> QED BY <1>3 DEF TriggerEvent, NextId

\* cancel_event changes the innermost event only, and outside of any event
\* nothing at all.
LEMMA CancelFacts ==
    ASSUME DispatchTypeOK, CancelEvent
    PROVE  /\ frames' \in Seq(Frame) /\ Len(frames') = Len(frames)
           /\ \A k \in 1 .. Len(frames) :
                /\ frames'[k].id = frames[k].id
                /\ frames'[k].interrupted = frames[k].interrupted
                /\ frames'[k].asked = IF k = Len(frames)
                                      THEN frames[k].asked \/ ~frames[k].interrupted
                                      ELSE frames[k].asked
           /\ id' = id /\ cancellable' = cancellable /\ verdict' = verdict
           /\ cancelled_events' \in Seq(Int)
           /\ ~cancellable => cancelled_events' = cancelled_events
           /\ cancellable =>
                /\ Len(cancelled_events') = Len(cancelled_events) + 1
                /\ cancelled_events'[Len(cancelled_events) + 1] = id
                /\ \A i \in 1 .. Len(cancelled_events) :
                     cancelled_events'[i] = cancelled_events[i]
<1> DEFINE n == Len(frames)
           new(k) == [frames[k] EXCEPT !.asked = @ \/ ~frames[k].interrupted]
<1>1. n \in Nat /\ \A k \in 1 .. n : frames[k] \in Frame
  BY TypeFacts
<1>2. ASSUME NEW k \in 1 .. n
      PROVE  /\ new(k) \in Frame /\ new(k).id = frames[k].id
             /\ new(k).interrupted = frames[k].interrupted
             /\ new(k).asked = (frames[k].asked \/ ~frames[k].interrupted)
  BY <1>1 DEF Frame
<1>3. frames' = [k \in 1 .. n |-> IF k = n THEN new(k) ELSE frames[k]]
  BY DEF CancelEvent
<1>4. frames' \in [1 .. n -> Frame]
  BY <1>1, <1>2, <1>3
<1>5. frames' \in Seq(Frame) /\ Len(frames') = n
  BY <1>1, <1>4, FunctionIsSeq
<1>6. \A k \in 1 .. n : frames'[k] = IF k = n THEN new(k) ELSE frames[k]
  BY <1>3
<1>7. \A k \in 1 .. n :
        /\ frames'[k].id = frames[k].id
        /\ frames'[k].interrupted = frames[k].interrupted
        /\ frames'[k].asked = IF k = n THEN frames[k].asked \/ ~frames[k].interrupted
                                       ELSE frames[k].asked
  <2> TAKE k \in 1 .. n
  <2>1. CASE k = n
    <3>1. frames'[k] = new(k)
      BY <2>1, <1>6
    <3>2. /\ frames'[k].id = frames[k].id
          /\ frames'[k].interrupted = frames[k].interrupted
          /\ frames'[k].asked = (frames[k].asked \/ ~frames[k].interrupted)
      BY <3>1, <1>2, Zenon
    <3> QED BY <3>2, <2>1, Zenon
  <2>2. CASE k # n
    BY <2>2, <1>6, Zenon
  <2> QED BY <2>1, <2>2
<1>8. CASE ~cancellable
  BY <1>5, <1>7, <1>8, TypeFacts DEF CancelEvent
<1>9. CASE cancellable
  <2>1. cancelled_events' = Append(cancelled_events, id)
    BY <1>9 DEF CancelEvent
  <2>2. /\ cancelled_events' \in Seq(Int)
        /\ Len(cancelled_events') = Len(cancelled_events) + 1
        /\ cancelled_events'[Len(cancelled_events) + 1] = id
        /\ \A i \in 1 .. Len(cancelled_events) :
             cancelled_events'[i] = cancelled_events[i]
    BY <2>1, TypeFacts, AppendFacts
  <2> QED BY <1>5, <1>7, <1>9, <2>2 DEF CancelEvent
<1> QED BY <1>8, <1>9

\* The innermost event ends: the others stay, and the one around it is
\* interrupted.  Only the ended event's id, on top of the stack, is taken.
LEMMA EndFacts ==
    ASSUME DispatchTypeOK, EndEvent
    PROVE  /\ Len(frames) \in Nat \ {0} /\ Len(frames) \in 1 .. Len(frames)
           /\ frames' \in Seq(Frame) /\ Len(frames') = Len(frames) - 1
           /\ \A k \in 1 .. Len(frames) - 1 :
                /\ frames'[k].id = frames[k].id
                /\ frames'[k].asked = frames[k].asked
                /\ frames'[k].interrupted = (frames[k].interrupted \/ k = Len(frames) - 1)
           /\ cancellable' = FALSE
           /\ id' = IF Len(cancelled_events) = 0 THEN id ELSE id - 1
           /\ cancelled_events' \in Seq(Int)
           /\ WasCancelled <=> /\ Len(cancelled_events) # 0
                               /\ cancelled_events[Len(cancelled_events)] = id
           /\ Len(cancelled_events') = IF WasCancelled THEN Len(cancelled_events) - 1
                                                       ELSE Len(cancelled_events)
           /\ \A i \in 1 .. Len(cancelled_events') :
                cancelled_events'[i] = cancelled_events[i]
           /\ verdict' = [asked |-> frames[Len(frames)].asked,
                          cancelled |-> WasCancelled, surplus |-> Surplus]
<1> DEFINE n == Len(frames)
           m == Len(cancelled_events)
           new(k) == [frames[k] EXCEPT !.interrupted = TRUE]
<1>1. n \in Nat /\ m \in Nat /\ \A k \in 1 .. n : frames[k] \in Frame
  BY TypeFacts
<1>2. n # 0
  BY TypeFacts DEF EndEvent
<1>3. n - 1 \in Nat /\ n \in 1 .. n /\ \A k \in 1 .. n - 1 : k \in 1 .. n
  BY <1>1, <1>2
<1>4. ASSUME NEW k \in 1 .. n
      PROVE  /\ new(k) \in Frame /\ new(k).id = frames[k].id
             /\ new(k).asked = frames[k].asked /\ new(k).interrupted = TRUE
  BY <1>1 DEF Frame
<1>5. frames' = [k \in 1 .. n - 1 |-> IF k = n - 1 THEN new(k) ELSE frames[k]]
  BY DEF EndEvent
<1>6. frames' \in [1 .. n - 1 -> Frame]
  BY <1>1, <1>3, <1>4, <1>5
<1>7. frames' \in Seq(Frame) /\ Len(frames') = n - 1
  BY <1>3, <1>6, FunctionIsSeq
<1>8. \A k \in 1 .. n - 1 : frames'[k] = IF k = n - 1 THEN new(k) ELSE frames[k]
  BY <1>5
<1>9. \A k \in 1 .. n - 1 :
        /\ frames'[k].id = frames[k].id
        /\ frames'[k].asked = frames[k].asked
        /\ frames'[k].interrupted = (frames[k].interrupted \/ k = n - 1)
  <2> TAKE k \in 1 .. n - 1
  <2>1. k \in 1 .. n /\ frames[k].interrupted \in BOOLEAN
    BY <1>3, TypeFacts
  <2>2. CASE k = n - 1
    BY <2>1, <2>2, <1>4, <1>8
  <2>3. CASE k # n - 1
    BY <2>1, <2>3, <1>8
  <2> QED BY <2>2, <2>3
<1>10. cancelled_events = <<>> <=> m = 0
  BY TypeFacts
<1>11. id' = IF m = 0 THEN id ELSE id - 1
  BY <1>10 DEF EndEvent, IdAfter
<1>12. WasCancelled <=> m # 0 /\ cancelled_events[m] = id
  BY <1>10 DEF WasCancelled, Top
<1>13. /\ cancelled_events' \in Seq(Int)
       /\ Len(cancelled_events') = IF WasCancelled THEN m - 1 ELSE m
       /\ \A i \in 1 .. Len(cancelled_events') : cancelled_events'[i] = cancelled_events[i]
  <2>1. CASE WasCancelled
    <3>1. cancelled_events' = Pop(cancelled_events)
      BY <2>1 DEF EndEvent, StackAfter
    <3> QED BY <2>1, <3>1, <1>12, TypeFacts, PopFacts
  <2>2. CASE ~WasCancelled
    BY <2>2, TypeFacts DEF EndEvent, StackAfter
  <2> QED BY <2>1, <2>2
<1>14. /\ cancellable' = FALSE
       /\ verdict' = [asked |-> frames[n].asked, cancelled |-> WasCancelled,
                      surplus |-> Surplus]
  BY DEF EndEvent, Top
<1> QED BY <1>1, <1>2, <1>3, <1>7, <1>9, <1>11, <1>12, <1>13, <1>14

-----------------------------------------------------------------------------
(* Counting the cancellations.                                             *)

\* Each cancelled running event has a place of its own on the stack.
LEMMA SurplusFacts ==
    ASSUME DispatchTypeOK, IdsIncrease, CancellationsKept
    PROVE  /\ IsFiniteSet(AskedFrames) /\ Cardinality(AskedFrames) \in Nat
           /\ Surplus \in Nat
           /\ Surplus = 0 => NothingBesides
           /\ (/\ Len(cancelled_events) # 0
               /\ \A k \in AskedFrames :
                    frames[k].id # cancelled_events[Len(cancelled_events)])
              => Surplus > 0
<1> DEFINE A == AskedFrames
           m == Len(cancelled_events)
           OnStack(k, i) == /\ cancelled_events[i] = frames[k].id
                            /\ \A j \in i .. m : cancelled_events[j] >= frames[k].id
           place == [k \in A |-> CHOOSE i \in 1 .. m : OnStack(k, i)]
<1>1. /\ m \in Nat /\ Len(frames) \in Nat /\ A \subseteq 1 .. Len(frames)
      /\ \A k \in 1 .. Len(frames) : frames[k].id \in Int
      /\ \A i \in 1 .. m : cancelled_events[i] \in Int
  BY TypeFacts DEF AskedFrames
<1>2. ASSUME NEW k \in A PROVE place[k] \in 1 .. m /\ OnStack(k, place[k])
  <2>1. \E i \in 1 .. m : OnStack(k, i)
    BY DEF CancellationsKept
  <2>2. place[k] = CHOOSE i \in 1 .. m : OnStack(k, i)
    OBVIOUS
  <2> HIDE DEF place, OnStack
  <2> QED BY <2>1, <2>2
<1>3. ASSUME NEW k \in A, NEW l \in A, frames[k].id = frames[l].id PROVE k = l
  BY <1>1, <1>3 DEF IdsIncrease
<1>4. place \in [A -> 1 .. m]
  BY <1>2
<1>5. \A k, l \in A : place[k] = place[l] => k = l
  BY <1>2, <1>3
<1>6. place \in Injection(A, 1 .. m)
  BY <1>4, <1>5, Zenon DEF Injection, IsInjective
<1>7. IsFiniteSet(1 .. m) /\ Cardinality(1 .. m) = m
  <2>1. 1 \in Int /\ m \in Int
    BY <1>1
  <2>2. /\ IsFiniteSet(1 .. m)
        /\ Cardinality(1 .. m) = IF 1 > m THEN 0 ELSE m - 1 + 1
    <3> HIDE DEF m
    <3> QED BY <2>1, FS_Interval
  <2> HIDE DEF m
  <2> QED BY <2>2, <1>1
<1>8. /\ IsFiniteSet(A) /\ Cardinality(A) <= m
      /\ Cardinality(A) = m <=> place \in Surjection(A, 1 .. m)
  BY <1>6, <1>7, FS_Injection
<1>9. Cardinality(A) \in Nat
  BY <1>8, FS_CardinalityType
<1>10. Surplus \in Nat /\ (Surplus = 0 <=> Cardinality(A) = m)
  BY <1>1, <1>8, <1>9 DEF Surplus
<1>11. ASSUME Surplus = 0 PROVE \A i \in 1 .. m : \E k \in A : place[k] = i
  <2>1. place \in Surjection(A, 1 .. m)
    BY <1>8, <1>10, <1>11
  <2> HIDE DEF place, A
  <2> QED BY <2>1, Zenon DEF Surjection
<1>12. ASSUME Surplus = 0 PROVE NothingBesides
  <2>1. \A i \in 1 .. m : \E k \in A : frames[k].id = cancelled_events[i]
    BY <1>2, <1>11, <1>12
  <2>2. ASSUME NEW i \in 1 .. m, NEW j \in 1 .. m, i < j
        PROVE  cancelled_events[i] < cancelled_events[j]
    <3>1. PICK k \in A : place[k] = i
      BY <1>11, <1>12
    <3>2. PICK l \in A : place[l] = j
      BY <1>11, <1>12
    <3>3. OnStack(k, i) /\ OnStack(l, j)
      BY <3>1, <3>2, <1>2
    <3>4. k # l /\ frames[k].id # frames[l].id
      <4>1. i # j
        BY <2>2, <1>1
      <4>2. k # l
        BY <3>1, <3>2, <4>1, Zenon
      <4> QED BY <4>2, <1>3
    <3>5. j \in i .. m
      BY <2>2, <1>1
    <3>6. cancelled_events[j] >= cancelled_events[i]
      BY <3>3, <3>5
    <3>7. cancelled_events[i] # cancelled_events[j]
      BY <3>3, <3>4
    <3>8. cancelled_events[i] \in Int /\ cancelled_events[j] \in Int
      BY <1>1
    <3> QED BY <3>6, <3>7, <3>8
  <2> QED BY <2>1, <2>2 DEF NothingBesides
<1>13. ASSUME m # 0, \A k \in A : frames[k].id # cancelled_events[m]
       PROVE  Surplus > 0
  <2>1. m \in 1 .. m
    BY <1>1, <1>13
  <2>2. \A k \in A : place[k] # m
    BY <1>2, <1>13
  <2>3. Surplus # 0
    BY <2>1, <2>2, <1>11
  <2> QED BY <2>3, <1>10
<1> QED BY <1>8, <1>9, <1>10, <1>12, <1>13

-----------------------------------------------------------------------------
(* The invariant.                                                          *)

LEMMA InitDispatch == DispatchInit => DispatchInv
<1> SUFFICES ASSUME DispatchInit PROVE DispatchInv
  OBVIOUS
<1>1. frames = <<>> /\ Len(frames) = 0 /\ Len(cancelled_events) = 0 /\ id = -1
  BY DEF DispatchInit
<1>2. cancellable = FALSE /\ cancelled_events = <<>>
  BY DEF DispatchInit
<1>3. verdict \in Verdict /\ VerdictMatches
  <2>1. verdict = [asked |-> FALSE, cancelled |-> FALSE, surplus |-> 0]
    BY DEF DispatchInit
  <2>2. verdict.asked = FALSE /\ verdict.cancelled = FALSE
    BY <2>1
  <2>3. verdict \in Verdict
    BY <2>1 DEF Verdict
  <2>4. VerdictMatches
    BY <2>2, Zenon DEF VerdictMatches
  <2> QED BY <2>3, <2>4
<1>4. DispatchTypeOK
  <2>1. id \in Int /\ id >= Len(frames) - 1
    BY <1>1
  <2>2. cancellable \in BOOLEAN
    BY <1>2
  <2>3. cancelled_events \in Seq(Int) /\ frames \in Seq(Frame)
    BY <1>1, <1>2
  <2> QED BY <2>1, <2>2, <2>3, <1>3 DEF DispatchTypeOK
<1>5. IdsIncrease /\ CounterIsInnermost /\ IdsConsecutive
  BY <1>1, <1>2 DEF IdsIncrease, CounterIsInnermost, IdsConsecutive
<1>6. CancellableMeans
  BY <1>1, <1>2 DEF CancellableMeans
<1>7. CancellationsKept
  BY <1>1 DEF CancellationsKept, AskedFrames
<1> QED BY <1>3, <1>4, <1>5, <1>6, <1>7 DEF DispatchInv

\* trigger_event makes the new event the innermost one, not yet cancelled.
LEMMA TriggerKeeps == DispatchInv /\ TriggerEvent => DispatchInv'
<1> SUFFICES ASSUME DispatchInv, TriggerEvent PROVE DispatchInv'
  OBVIOUS
<1> DEFINE n == Len(frames)
<1>1. /\ DispatchTypeOK /\ IdsIncrease /\ CancellableMeans /\ CounterIsInnermost
      /\ IdsConsecutive /\ CancellationsKept /\ VerdictMatches
  BY DEF DispatchInv
<1>2. /\ n \in Nat /\ id \in Int /\ Len(cancelled_events) \in Nat
      /\ \A k \in 1 .. n : frames[k].id \in Int /\ frames[k].asked \in BOOLEAN
  BY <1>1, TypeFacts
<1>3. /\ frames' \in Seq(Frame) /\ Len(frames') = n + 1
      /\ \A k \in 1 .. n : frames'[k] = frames[k]
      /\ frames'[n + 1].id = id + 1 /\ frames'[n + 1].asked = FALSE
      /\ frames'[n + 1].interrupted = FALSE
      /\ id' = id + 1 /\ cancellable' = TRUE
      /\ cancelled_events' = cancelled_events /\ verdict' = verdict
  BY <1>1, TriggerFacts
<1>4. \A k \in 1 .. n + 1 : k \in 1 .. n \/ k = n + 1
  BY <1>2
<1>5. frames' # <<>>
  BY <1>2, <1>3
<1>6. DispatchTypeOK'
  BY <1>1, <1>2, <1>3 DEF DispatchTypeOK
<1>7. IdsIncrease'
  <2>1. ASSUME NEW k \in 1 .. n + 1, NEW l \in 1 .. n + 1, k < l
        PROVE  frames'[k].id < frames'[l].id
    <3>1. k \in 1 .. n
      BY <2>1, <1>2
    <3>2. CASE l \in 1 .. n
      BY <3>1, <3>2, <2>1, <1>1, <1>3 DEF IdsIncrease
    <3>3. CASE l = n + 1
      BY <3>1, <3>3, <1>1, <1>2, <1>3 DEF IdsIncrease
    <3> QED BY <3>2, <3>3, <1>4
  <2>2. \A k \in 1 .. n + 1 : frames'[k].id <= id'
    BY <1>1, <1>2, <1>3, <1>4 DEF IdsIncrease
  <2> QED BY <2>1, <2>2, <1>3 DEF IdsIncrease
<1>8. CancellableMeans'
  BY <1>3, <1>5 DEF CancellableMeans
<1>9. CounterIsInnermost'
  BY <1>3, <1>5 DEF CounterIsInnermost
<1>10. IdsConsecutive'
  <2> SUFFICES ASSUME NEW j \in 1 .. n + 1, NEW k \in 1 .. n + 1,
                      j <= k, k < n + 1, frames'[j].asked
               PROVE  frames'[k + 1].id = frames'[k].id + 1
    BY <1>3 DEF IdsConsecutive
  <2>1. j \in 1 .. n /\ k \in 1 .. n /\ frames[j].asked
    BY <1>2, <1>3
  <2>2. CASE k < n
    <3>1. k + 1 \in 1 .. n
      BY <2>1, <2>2, <1>2
    <3> QED BY <3>1, <2>1, <2>2, <1>1, <1>3 DEF IdsConsecutive
  <2>3. CASE k = n
    BY <2>1, <2>3, <1>1, <1>3 DEF CounterIsInnermost
  <2> QED BY <2>1, <2>2, <2>3, <1>2
<1>11. CancellationsKept'
  <2>1. ASSUME NEW k \in AskedFrames' PROVE k \in AskedFrames /\ frames'[k] = frames[k]
    <3>1. k \in 1 .. n
      BY <1>2, <1>3, <1>4 DEF AskedFrames
    <3> QED BY <3>1, <1>3 DEF AskedFrames
  <2> QED BY <2>1, <1>1, <1>3 DEF CancellationsKept
<1>12. VerdictMatches'
  BY <1>1, <1>3 DEF VerdictMatches
<1> QED BY <1>6, <1>7, <1>8, <1>9, <1>10, <1>11, <1>12 DEF DispatchInv

\* cancel_event pushes the id of the innermost event, the largest one.
LEMMA CancelKeeps == DispatchInv /\ CancelEvent => DispatchInv'
<1> SUFFICES ASSUME DispatchInv, CancelEvent PROVE DispatchInv'
  OBVIOUS
<1> DEFINE n == Len(frames)
           m == Len(cancelled_events)
<1>1. /\ DispatchTypeOK /\ IdsIncrease /\ CancellableMeans /\ CounterIsInnermost
      /\ IdsConsecutive /\ CancellationsKept /\ VerdictMatches
  BY DEF DispatchInv
<1>2. /\ n \in Nat /\ id \in Int /\ m \in Nat
      /\ \A k \in 1 .. n : /\ frames[k].id \in Int /\ frames[k].asked \in BOOLEAN
                           /\ frames[k].interrupted \in BOOLEAN
      /\ \A i \in 1 .. m : cancelled_events[i] \in Int
      /\ (frames # <<>> <=> n # 0)
  BY <1>1, TypeFacts
<1>3. /\ frames' \in Seq(Frame) /\ Len(frames') = n
      /\ \A k \in 1 .. n :
           /\ frames'[k].id = frames[k].id
           /\ frames'[k].interrupted = frames[k].interrupted
           /\ frames'[k].asked = IF k = n THEN frames[k].asked \/ ~frames[k].interrupted
                                 ELSE frames[k].asked
      /\ id' = id /\ cancellable' = cancellable /\ verdict' = verdict
      /\ cancelled_events' \in Seq(Int)
      /\ ~cancellable => cancelled_events' = cancelled_events
      /\ cancellable =>
           /\ Len(cancelled_events') = m + 1
           /\ cancelled_events'[m + 1] = id
           /\ \A i \in 1 .. m : cancelled_events'[i] = cancelled_events[i]
  BY <1>1, CancelFacts
<1>4. frames' # <<>> <=> n # 0
  BY <1>2, <1>3
\* A new cancellation means that the event can be cancelled.
<1>5. ASSUME NEW k \in 1 .. n, frames'[k].asked, ~frames[k].asked
      PROVE  k = n /\ cancellable
  BY <1>1, <1>2, <1>3, <1>5 DEF CancellableMeans
<1>6. DispatchTypeOK'
  BY <1>1, <1>3 DEF DispatchTypeOK
<1>7. IdsIncrease'
  BY <1>1, <1>3 DEF IdsIncrease
<1>8. CancellableMeans'
  <2>1. CASE n = 0
    BY <2>1, <1>1, <1>2, <1>3, <1>4 DEF CancellableMeans
  <2>2. CASE n # 0
    <3>1. n \in 1 .. n
      BY <2>2, <1>2
    <3> QED BY <3>1, <2>2, <1>1, <1>2, <1>3, <1>4 DEF CancellableMeans
  <2> QED BY <2>1, <2>2
<1>9. CounterIsInnermost'
  <2> SUFFICES ASSUME cancellable' \/ \E k \in 1 .. n : frames'[k].asked
               PROVE  frames' # <<>> /\ frames'[n].id = id
    BY <1>3 DEF CounterIsInnermost
  <2>1. cancellable \/ \E k \in 1 .. n : frames[k].asked
    BY <1>3, <1>5
  <2>2. frames # <<>> /\ frames[n].id = id
    BY <2>1, <1>1 DEF CounterIsInnermost
  <2>3. n \in 1 .. n
    BY <2>2, <1>2
  <2> QED BY <2>2, <2>3, <1>2, <1>3, <1>4
<1>10. IdsConsecutive'
  <2> SUFFICES ASSUME NEW j \in 1 .. n, NEW k \in 1 .. n,
                      j <= k, k < n, frames'[j].asked
               PROVE  frames'[k + 1].id = frames'[k].id + 1
    BY <1>3 DEF IdsConsecutive
  <2>1. j # n /\ k + 1 \in 1 .. n
    BY <1>2
  <2>2. frames[j].asked
    BY <2>1, <1>5
  <2> QED BY <2>1, <2>2, <1>1, <1>3 DEF IdsConsecutive
<1>11. CancellationsKept'
  <2> SUFFICES ASSUME NEW k \in 1 .. n, frames'[k].asked
               PROVE  \E i \in 1 .. Len(cancelled_events') :
                        /\ cancelled_events'[i] = frames[k].id
                        /\ \A j \in i .. Len(cancelled_events') :
                             cancelled_events'[j] >= frames[k].id
    BY <1>3 DEF CancellationsKept, AskedFrames
  <2>1. frames[k].id <= id
    BY <1>1 DEF IdsIncrease
  <2>2. CASE frames[k].asked
    <3>1. PICK i \in 1 .. m : /\ cancelled_events[i] = frames[k].id
                              /\ \A j \in i .. m : cancelled_events[j] >= frames[k].id
      BY <2>2, <1>1 DEF CancellationsKept, AskedFrames
    <3>2. CASE cancellable
      <4>1. i \in 1 .. m + 1 /\ \A j \in i .. m + 1 : j \in i .. m \/ j = m + 1
        BY <1>2
      <4>2. \A j \in i .. m + 1 : cancelled_events'[j] >= frames[k].id
        <5> TAKE j \in i .. m + 1
        <5>1. CASE j = m + 1
          BY <5>1, <3>2, <2>1, <1>2, <1>3
        <5>2. CASE j \in i .. m
          <6>1. j \in 1 .. m
            BY <5>2, <1>2
          <6> QED BY <6>1, <5>2, <3>1, <3>2, <1>3
        <5> QED BY <4>1, <5>1, <5>2
      <4> QED BY <3>1, <3>2, <4>1, <4>2, <1>3
    <3>3. CASE ~cancellable
      BY <3>1, <3>3, <1>3
    <3> QED BY <3>2, <3>3
  <2>3. CASE ~frames[k].asked
    <3>1. k = n /\ cancellable
      BY <2>3, <1>5
    <3>2. frames[k].id = id
      BY <3>1, <1>1 DEF CounterIsInnermost
    <3>3. m + 1 \in 1 .. m + 1 /\ \A j \in m + 1 .. m + 1 : j = m + 1
      BY <1>2
    <3> QED BY <3>1, <3>2, <3>3, <1>2, <1>3
  <2> QED BY <2>2, <2>3
<1>12. VerdictMatches'
  BY <1>1, <1>3 DEF VerdictMatches
<1> QED BY <1>6, <1>7, <1>8, <1>9, <1>10, <1>11, <1>12 DEF DispatchInv

\* Whether the top of the stack is the id of a running event that was cancelled
\* when the innermost event ends.
LEMMA EndVerdict ==
    ASSUME DispatchInv, EndEvent
    PROVE  /\ (\E k \in AskedFrames : TRUE) =>
                /\ Len(cancelled_events) # 0
                /\ frames[Len(frames)].id = id
           /\ (frames[Len(frames)].asked <=> WasCancelled) \/ Surplus > 0
<1> DEFINE n == Len(frames)
           m == Len(cancelled_events)
<1>1. /\ DispatchTypeOK /\ IdsIncrease /\ CounterIsInnermost /\ CancellationsKept
  BY DEF DispatchInv
<1>2. /\ n \in Nat \ {0} /\ n \in 1 .. n /\ m \in Nat /\ id \in Int
      /\ \A k \in 1 .. n : frames[k].id \in Int
      /\ \A i \in 1 .. m : cancelled_events[i] \in Int
      /\ WasCancelled <=> m # 0 /\ cancelled_events[m] = id
  BY <1>1, EndFacts, TypeFacts
<1>3. ASSUME NEW k \in AskedFrames
      PROVE  /\ k \in 1 .. n /\ frames[k].asked /\ m # 0 /\ frames[n].id = id
             /\ frames[k].id <= cancelled_events[m]
  <2>1. k \in 1 .. n /\ frames[k].asked
    BY DEF AskedFrames
  <2>2. PICK i \in 1 .. m : \A j \in i .. m : cancelled_events[j] >= frames[k].id
    BY <1>1 DEF CancellationsKept
  <2>3. m \in i .. m /\ m # 0
    BY <1>2
  <2>4. cancelled_events[m] >= frames[k].id /\ m \in 1 .. m
    BY <2>2, <2>3, <1>2
  <2> QED BY <2>1, <2>3, <2>4, <1>1, <1>2 DEF CounterIsInnermost
<1>4. ASSUME WasCancelled, ~frames[n].asked PROVE Surplus > 0
  <2>1. m # 0 /\ cancelled_events[m] = id
    BY <1>2, <1>4
  <2>2. ASSUME NEW k \in AskedFrames PROVE frames[k].id # cancelled_events[m]
    <3>1. k \in 1 .. n /\ k < n
      BY <1>2, <1>3, <1>4
    <3>2. frames[k].id < frames[n].id /\ frames[n].id <= id
      BY <3>1, <1>1, <1>2 DEF IdsIncrease
    <3> QED BY <3>1, <3>2, <2>1, <1>2
  <2> QED BY <2>1, <2>2, <1>1, SurplusFacts
<1>5. ASSUME ~WasCancelled, frames[n].asked PROVE Surplus > 0
  <2>1. n \in AskedFrames
    BY <1>2, <1>5 DEF AskedFrames
  <2>2. /\ m # 0 /\ m \in 1 .. m /\ frames[n].id = id
        /\ id <= cancelled_events[m] /\ cancelled_events[m] # id
    BY <2>1, <1>2, <1>3, <1>5
  <2>3. ASSUME NEW k \in AskedFrames PROVE frames[k].id # cancelled_events[m]
    <3>1. k \in 1 .. n /\ frames[k].id <= id
      BY <1>1, <1>3 DEF IdsIncrease
    <3> QED BY <3>1, <2>2, <1>2
  <2> QED BY <2>2, <2>3, <1>1, SurplusFacts
<1> QED BY <1>3, <1>4, <1>5

LEMMA EndKeeps == DispatchInv /\ EndEvent => DispatchInv'
<1> SUFFICES ASSUME DispatchInv, EndEvent PROVE DispatchInv'
  OBVIOUS
<1> DEFINE n == Len(frames)
           m == Len(cancelled_events)
<1>1. /\ DispatchTypeOK /\ IdsIncrease /\ CancellableMeans /\ CounterIsInnermost
      /\ IdsConsecutive /\ CancellationsKept
  BY DEF DispatchInv
<1>2. /\ n \in Nat \ {0} /\ n \in 1 .. n /\ m \in Nat /\ id \in Int
      /\ frames' \in Seq(Frame) /\ Len(frames') = n - 1
      /\ \A k \in 1 .. n - 1 :
           /\ frames'[k].id = frames[k].id
           /\ frames'[k].asked = frames[k].asked
           /\ frames'[k].interrupted = (frames[k].interrupted \/ k = n - 1)
      /\ cancellable' = FALSE
      /\ id' = IF m = 0 THEN id ELSE id - 1
      /\ \A k \in 1 .. n : frames[k].id \in Int /\ frames[k].asked \in BOOLEAN
      /\ \A i \in 1 .. m : cancelled_events[i] \in Int
  BY <1>1, EndFacts, TypeFacts
<1>3. /\ cancelled_events' \in Seq(Int)
      /\ WasCancelled <=> m # 0 /\ cancelled_events[m] = id
      /\ Len(cancelled_events') = IF WasCancelled THEN m - 1 ELSE m
      /\ \A i \in 1 .. Len(cancelled_events') : cancelled_events'[i] = cancelled_events[i]
  BY <1>1, EndFacts
<1>4. n - 1 \in Nat /\ \A k \in 1 .. n - 1 : k \in 1 .. n /\ k < n
  BY <1>2
<1>5. (\E k \in 1 .. n : frames[k].asked) => m # 0 /\ frames[n].id = id
  BY EndVerdict DEF AskedFrames
<1>6. verdict' \in Verdict /\ VerdictMatches'
  <2>1. /\ frames[n].asked \in BOOLEAN /\ WasCancelled \in BOOLEAN
        /\ Surplus \in Int
    BY <1>1, <1>2, SurplusFacts DEF WasCancelled
  <2>2. verdict' = [asked |-> frames[n].asked, cancelled |-> WasCancelled,
                    surplus |-> Surplus]
    BY <1>1, EndFacts
  <2>3. (frames[n].asked = WasCancelled) \/ Surplus > 0
    BY <2>1, EndVerdict
  <2>4. /\ verdict'.asked = frames[n].asked /\ verdict'.cancelled = WasCancelled
        /\ verdict'.surplus = Surplus
    BY <2>2
  <2>5. verdict' \in Verdict
    BY <2>1, <2>2 DEF Verdict
  <2>6. VerdictMatches'
    BY <2>3, <2>4 DEF VerdictMatches
  <2> QED BY <2>5, <2>6
<1>7. DispatchTypeOK'
  <2>1. id' \in Int /\ id' >= Len(frames') - 1
    BY <1>1, <1>2 DEF DispatchTypeOK
  <2> QED BY <2>1, <1>2, <1>3, <1>6 DEF DispatchTypeOK
<1>8. IdsIncrease'
  <2>1. ASSUME NEW k \in 1 .. n - 1, NEW l \in 1 .. n - 1, k < l
        PROVE  frames'[k].id < frames'[l].id
    BY <2>1, <1>1, <1>2, <1>4 DEF IdsIncrease
  <2>2. ASSUME NEW k \in 1 .. n - 1
        PROVE  frames'[k].id <= id'
    <3>1. k \in 1 .. n /\ k < n
      BY <1>4
    <3>2. frames[k].id < frames[n].id /\ frames[n].id <= id
      BY <3>1, <1>1, <1>2 DEF IdsIncrease
    <3>3. frames[k].id <= id - 1 /\ frames[k].id <= id
      BY <3>1, <3>2, <1>2
    <3> QED BY <3>3, <1>2
  <2> QED BY <2>1, <2>2, <1>2 DEF IdsIncrease
<1>9. CancellableMeans'
  <2>1. ASSUME frames' # <<>> PROVE frames'[Len(frames')].interrupted
    <3>1. n - 1 \in 1 .. n - 1
      BY <2>1, <1>2, <1>4
    <3> QED BY <3>1, <1>2
  <2> QED BY <2>1, <1>2 DEF CancellableMeans
<1>10. CounterIsInnermost'
  <2> SUFFICES ASSUME NEW j \in 1 .. n - 1, frames'[j].asked
               PROVE  frames' # <<>> /\ frames'[n - 1].id = id'
    BY <1>2 DEF CounterIsInnermost
  <2>1. /\ j \in 1 .. n /\ frames[j].asked /\ j <= n - 1
        /\ n - 1 \in 1 .. n /\ n - 1 < n /\ n - 1 \in 1 .. n - 1
    BY <1>2, <1>4
  <2>2. frames[n].id = frames[n - 1].id + 1
    <3>1. frames[n - 1 + 1].id = frames[n - 1].id + 1
      BY <2>1, <1>1 DEF IdsConsecutive
    <3>2. n - 1 + 1 = n
      BY <1>2
    <3> QED BY <3>1, <3>2
  <2>3. m # 0 /\ frames[n].id = id
    BY <2>1, <1>5
  <2>4. id' = id - 1 /\ frames'[n - 1].id = frames[n - 1].id
    BY <2>1, <2>3, <1>2
  <2>5. frames'[n - 1].id = id'
    BY <2>1, <2>2, <2>3, <2>4, <1>2
  <2>6. frames' # <<>>
    BY <2>1, <1>2, <1>4
  <2> QED BY <2>5, <2>6
<1>11. IdsConsecutive'
  <2> SUFFICES ASSUME NEW j \in 1 .. n - 1, NEW k \in 1 .. n - 1,
                      j <= k, k < n - 1, frames'[j].asked
               PROVE  frames'[k + 1].id = frames'[k].id + 1
    BY <1>2 DEF IdsConsecutive
  <2>1. k + 1 \in 1 .. n - 1 /\ frames[j].asked /\ k < n
    BY <1>2, <1>4
  <2> QED BY <2>1, <1>1, <1>2, <1>4 DEF IdsConsecutive
<1>12. CancellationsKept'
  <2> SUFFICES ASSUME NEW k \in 1 .. n - 1, frames[k].asked
               PROVE  \E i \in 1 .. Len(cancelled_events') :
                        /\ cancelled_events'[i] = frames[k].id
                        /\ \A j \in i .. Len(cancelled_events') :
                             cancelled_events'[j] >= frames[k].id
    BY <1>2 DEF CancellationsKept, AskedFrames
  <2>1. k \in 1 .. n /\ k < n
    BY <1>4
  <2>2. PICK i \in 1 .. m : /\ cancelled_events[i] = frames[k].id
                            /\ \A j \in i .. m : cancelled_events[j] >= frames[k].id
    BY <2>1, <1>1 DEF CancellationsKept, AskedFrames
  <2>3. frames[k].id < id
    BY <2>1, <1>1, <1>2 DEF IdsIncrease
  <2>4. i \in 1 .. Len(cancelled_events') /\ Len(cancelled_events') <= m
    <3>1. CASE WasCancelled
      <4>1. i # m
        BY <3>1, <2>1, <2>2, <2>3, <1>2, <1>3
      <4> QED BY <3>1, <4>1, <1>2, <1>3
    <3>2. CASE ~WasCancelled
      BY <3>2, <1>2, <1>3
    <3> QED BY <3>1, <3>2
  <2>5. Len(cancelled_events') \in Nat
    BY <1>3
  <2>6. \A j \in i .. Len(cancelled_events') :
          j \in i .. m /\ j \in 1 .. Len(cancelled_events')
    BY <2>4, <2>5, <1>2
  <2>7. cancelled_events'[i] = frames[k].id
    BY <2>2, <2>4, <1>3
  <2>8. \A j \in i .. Len(cancelled_events') : cancelled_events'[j] >= frames[k].id
    BY <2>2, <2>6, <1>3
  <2> QED BY <2>4, <2>7, <2>8
<1> QED BY <1>6, <1>7, <1>8, <1>9, <1>10, <1>11, <1>12 DEF DispatchInv

LEMMA NextKeeps == DispatchInv /\ [DispatchNext]_dispatchVars => DispatchInv'
<1> SUFFICES ASSUME DispatchInv, [DispatchNext]_dispatchVars PROVE DispatchInv'
  OBVIOUS
<1>1. CASE TriggerEvent
  BY <1>1, TriggerKeeps
<1>2. CASE CancelEvent
  BY <1>2, CancelKeeps
<1>3. CASE EndEvent
  BY <1>3, EndKeeps
<1>4. CASE UNCHANGED dispatchVars
  <2>1. /\ id' = id /\ cancellable' = cancellable /\ verdict' = verdict
        /\ cancelled_events' = cancelled_events /\ frames' = frames
    BY <1>4 DEF dispatchVars
  <2> QED BY <2>1 DEF DispatchInv, DispatchTypeOK, IdsIncrease, CancellableMeans,
             CounterIsInnermost, IdsConsecutive, CancellationsKept, AskedFrames,
             VerdictMatches
<1> QED BY <1>1, <1>2, <1>3, <1>4 DEF DispatchNext

-----------------------------------------------------------------------------
(* Every step is a step of CancellableEvents, or none.                     *)

Opened(f) == [cancelled |-> f.asked, interrupted |-> f.interrupted]
OpenOf(f) == [k \in 1 .. Len(f) |-> Opened(f[k])]
Open == OpenOf(frames)
OpenEvent == [cancelled : BOOLEAN, interrupted : BOOLEAN]

LEMMA OpenFacts ==
    ASSUME NEW f \in Seq(Frame)
    PROVE  /\ OpenOf(f) \in Seq(OpenEvent) /\ Len(OpenOf(f)) = Len(f)
           /\ \A k \in 1 .. Len(f) :
                /\ OpenOf(f)[k] = Opened(f[k])
                /\ OpenOf(f)[k].cancelled = f[k].asked
                /\ OpenOf(f)[k].interrupted = f[k].interrupted
           /\ OpenOf(f) # <<>> <=> Len(f) # 0
<1> DEFINE n == Len(f)
           o == OpenOf(f)
<1>1. n \in Nat /\ \A k \in 1 .. n : f[k] \in Frame
  OBVIOUS
<1>2. \A k \in 1 .. n : Opened(f[k]) \in OpenEvent
  BY <1>1 DEF Frame, Opened, OpenEvent
<1>3. o \in [1 .. n -> OpenEvent]
  BY <1>2 DEF OpenOf
<1>4. o \in Seq(OpenEvent) /\ Len(o) = n
  <2> HIDE DEF o, n
  <2> QED BY <1>1, <1>3, FunctionIsSeq
<1>5. \A k \in 1 .. n : o[k] = Opened(f[k])
  BY DEF OpenOf
<1>6. o # <<>> <=> n # 0
  <2> HIDE DEF o
  <2> QED BY <1>1, <1>4
<1> QED BY <1>4, <1>5, <1>6 DEF Opened

LEMMA TriggerMaps ==
    ASSUME DispatchInv, TriggerEvent
    PROVE  Events!Trigger
<1> DEFINE n == Len(frames)
           e == [cancelled |-> FALSE, interrupted |-> FALSE]
<1>1. DispatchTypeOK /\ DispatchTypeOK'
  BY TriggerKeeps DEF DispatchInv
<1>2. /\ n \in Nat /\ frames' \in Seq(Frame) /\ Len(frames') = n + 1
      /\ \A k \in 1 .. n : frames'[k] = frames[k]
      /\ frames'[n + 1].asked = FALSE /\ frames'[n + 1].interrupted = FALSE
      /\ cancelled_events' = cancelled_events /\ verdict' = verdict
  BY <1>1, TriggerFacts, TypeFacts
<1>5. /\ Open \in Seq(OpenEvent) /\ Len(Open) = n
      /\ Open' \in Seq(OpenEvent) /\ Len(Open') = n + 1
      /\ \A k \in 1 .. n : Open[k] = Opened(frames[k])
      /\ \A k \in 1 .. n + 1 : Open'[k] = Opened(frames'[k])
  <2>1. frames \in Seq(Frame)
    BY <1>1, TypeFacts
  <2>2. /\ Open \in Seq(OpenEvent) /\ Len(Open) = n
        /\ \A k \in 1 .. n : Open[k] = Opened(frames[k])
    BY <2>1, OpenFacts DEF Open
  <2>3. /\ OpenOf(frames') \in Seq(OpenEvent) /\ Len(OpenOf(frames')) = Len(frames')
        /\ \A k \in 1 .. Len(frames') : OpenOf(frames')[k] = Opened(frames'[k])
    BY <1>2, OpenFacts
  <2> QED BY <2>2, <2>3, <1>2 DEF Open
<1>3. Open' = Append(Open, e)
  <2>1. e \in OpenEvent
    BY DEF OpenEvent
  <2>2. /\ Append(Open, e) \in Seq(OpenEvent) /\ Len(Append(Open, e)) = n + 1
        /\ \A i \in 1 .. n : Append(Open, e)[i] = Open[i]
        /\ Append(Open, e)[n + 1] = e
    <3>1. Open \in Seq(OpenEvent) /\ Len(Open) = n
      BY <1>5
    <3> HIDE DEF e, n
    <3>2. /\ Append(Open, e) \in Seq(OpenEvent)
          /\ Len(Append(Open, e)) = Len(Open) + 1
          /\ \A i \in 1 .. Len(Open) : Append(Open, e)[i] = Open[i]
          /\ Append(Open, e)[Len(Open) + 1] = e
      BY <2>1, <3>1, AppendFacts
    <3> QED BY <3>1, <3>2
  <2>3. ASSUME NEW i \in 1 .. n + 1 PROVE Open'[i] = Append(Open, e)[i]
    <3>1. CASE i \in 1 .. n
      BY <3>1, <2>2, <1>2, <1>5
    <3>2. CASE i = n + 1
      <4>1. Opened(frames'[n + 1]) = e
        BY <1>2, Zenon DEF Opened
      <4>2. Open'[n + 1] = Opened(frames'[n + 1])
        BY <3>2, <1>5
      <4> QED BY <4>1, <4>2, <3>2, <2>2
    <3>3. i \in 1 .. n \/ i = n + 1
      BY <1>2
    <3> QED BY <3>1, <3>2, <3>3, Zenon
  <2> HIDE DEF e, n
  <2> QED BY <2>2, <2>3, <1>5, SeqEqual
<1>4. Surplus' = Surplus
  <2>1. AskedFrames' = AskedFrames
    <3>1. \A k \in 1 .. n + 1 : k \in 1 .. n \/ k = n + 1
      BY <1>2
    <3>2. \A k \in 1 .. n : k \in 1 .. n + 1
      BY <1>2
    <3> QED BY <3>1, <3>2, <1>2 DEF AskedFrames
  <2> QED BY <2>1, <1>2 DEF Surplus
<1> QED BY <1>2, <1>3, <1>4 DEF Open, OpenOf, Opened, Events!Trigger

LEMMA CancelMaps ==
    ASSUME DispatchInv, CancelEvent
    PROVE  \/ Events!Cancel \/ Events!CancelAgain
           \/ UNCHANGED <<Open, verdict.cancelled, Surplus>>
<1> DEFINE n == Len(frames)
           m == Len(cancelled_events)
           A == AskedFrames
<1>1. DispatchTypeOK /\ DispatchTypeOK' /\ CancellableMeans
  BY CancelKeeps DEF DispatchInv
<1>2. /\ n \in Nat /\ m \in Nat /\ frames' \in Seq(Frame) /\ Len(frames') = n
      /\ \A k \in 1 .. n :
           /\ frames'[k].interrupted = frames[k].interrupted
           /\ frames'[k].asked = IF k = n THEN frames[k].asked \/ ~frames[k].interrupted
                                 ELSE frames[k].asked
           /\ frames[k].asked \in BOOLEAN /\ frames[k].interrupted \in BOOLEAN
      /\ verdict' = verdict
      /\ ~cancellable => cancelled_events' = cancelled_events
      /\ cancellable => Len(cancelled_events') = m + 1
  BY <1>1, CancelFacts, TypeFacts
<1>3. cancellable <=> n # 0 /\ ~frames[n].interrupted
  BY <1>1, TypeFacts DEF CancellableMeans
<1>4. IsFiniteSet(A) /\ Cardinality(A) \in Nat
  BY SurplusFacts DEF DispatchInv
<1>5. /\ Open' = [k \in 1 .. n |-> Opened(frames'[k])]
      /\ Open = [k \in 1 .. n |-> Opened(frames[k])]
  BY <1>2 DEF Open, OpenOf
<1>10. n # 0 => /\ n \in 1 .. n /\ Open # <<>> /\ Len(Open) = n
                /\ Open[Len(Open)].cancelled = frames[n].asked
                /\ Open[Len(Open)].interrupted = frames[n].interrupted
  <2>1. frames \in Seq(Frame) /\ (n # 0 => n \in 1 .. n)
    BY <1>1, <1>2, TypeFacts
  <2> QED BY <2>1, OpenFacts DEF Open
\* Nothing new: the event was cancelled already, or cannot be any more.
<1>6. ASSUME ~(cancellable /\ ~frames[n].asked)
      PROVE  Open' = Open /\ AskedFrames' = A
  <2>1. \A k \in 1 .. n : frames'[k].asked = frames[k].asked
    <3> TAKE k \in 1 .. n
    <3>1. CASE k = n
      <4>1. frames[n].asked \/ frames[n].interrupted
        BY <3>1, <1>2, <1>3, <1>6
      <4>2. frames'[n].asked = (frames[n].asked \/ ~frames[n].interrupted)
        BY <3>1, <1>2
      <4>3. /\ frames[n].asked \in BOOLEAN /\ frames[n].interrupted \in BOOLEAN
        BY <3>1, <1>2
      <4> QED BY <3>1, <4>1, <4>2, <4>3, Zenon
    <3>2. CASE k # n
      BY <3>2, <1>2
    <3> QED BY <3>1, <3>2
  <2>2. \A k \in 1 .. n : Opened(frames'[k]) = Opened(frames[k])
    BY <2>1, <1>2 DEF Opened
  <2>3. AskedFrames' = A
    BY <2>1, <1>2 DEF AskedFrames
  <2> QED BY <2>2, <2>3, <1>5
<1>7. CASE ~cancellable
  <2>1. UNCHANGED <<Open, verdict.cancelled, Surplus>>
    BY <1>2, <1>6, <1>7 DEF Surplus
  <2> QED BY <2>1
<1>8. CASE cancellable /\ frames[n].asked
  <2>1. Open' = Open /\ Surplus' = Surplus + 1
    BY <1>2, <1>4, <1>6, <1>8 DEF Surplus
  <2>2. n \in 1 .. n /\ Open # <<>> /\ Len(Open) = n
    BY <1>3, <1>8, <1>10
  <2>3. ~Open[Len(Open)].interrupted /\ Open[Len(Open)].cancelled
    BY <1>3, <1>8, <1>10
  <2> QED BY <2>1, <2>2, <2>3, <1>2
       DEF Events!CancelAgain, Events!Innermost, Open, OpenOf, Opened
<1>9. CASE cancellable /\ ~frames[n].asked
  <2>1. n \in 1 .. n /\ Open # <<>> /\ Len(Open) = n
    BY <1>3, <1>9, <1>10
  <2>2. ~Open[Len(Open)].interrupted /\ ~Open[Len(Open)].cancelled
    BY <1>3, <1>9, <1>10
  <2>3. frames'[n].asked = TRUE
    <3>1. frames'[n].asked = (frames[n].asked \/ ~frames[n].interrupted)
      BY <2>1, <1>2
    <3> QED BY <3>1, <1>3, <1>9, Zenon
  <2>4. Open' = [Open EXCEPT ![n].cancelled = TRUE]
    <3>1. ASSUME NEW k \in 1 .. n
          PROVE  Opened(frames'[k]) =
                   IF k = n THEN [Opened(frames[k]) EXCEPT !.cancelled = TRUE]
                   ELSE Opened(frames[k])
      BY <2>3, <1>2 DEF Opened
    <3>2. [Open EXCEPT ![n].cancelled = TRUE] =
            [k \in 1 .. n |-> IF k = n THEN [Opened(frames[k]) EXCEPT !.cancelled = TRUE]
                              ELSE Opened(frames[k])]
      BY <1>5
    <3> QED BY <3>1, <3>2, <1>5
  <2>5. AskedFrames' = A \cup {n} /\ n \notin A
    <3>1. ASSUME NEW k \in 1 .. n
          PROVE  frames'[k].asked <=> frames[k].asked \/ k = n
      <4>1. CASE k = n
        BY <4>1, <2>3
      <4>2. CASE k # n
        BY <4>2, <1>2
      <4> QED BY <4>1, <4>2
    <3> QED BY <3>1, <2>1, <1>2, <1>9 DEF AskedFrames
  <2>6. Cardinality(AskedFrames') = Cardinality(A) + 1
    BY <2>5, <1>4, FS_AddElement
  <2>7. Surplus' = Surplus
    <3>1. /\ Surplus = m - Cardinality(A)
          /\ Surplus' = Len(cancelled_events') - Cardinality(AskedFrames')
      BY DEF Surplus
    <3>2. Len(cancelled_events') = m + 1
      BY <1>2, <1>9
    <3> QED BY <3>1, <3>2, <2>6, <1>2, <1>4
  <2> QED BY <2>1, <2>2, <2>4, <2>7, <1>2
       DEF Events!Cancel, Events!Innermost, Open, OpenOf, Opened
<1> QED BY <1>7, <1>8, <1>9

LEMMA EndMaps ==
    ASSUME DispatchInv, EndEvent
    PROVE  Events!End \/ Events!EndWrongly
<1> DEFINE n == Len(frames)
           m == Len(cancelled_events)
           A == AskedFrames
<1>1. DispatchTypeOK /\ DispatchTypeOK'
  BY EndKeeps DEF DispatchInv
<1>2. /\ n \in Nat \ {0} /\ n \in 1 .. n /\ m \in Nat
      /\ frames' \in Seq(Frame) /\ Len(frames') = n - 1
      /\ \A k \in 1 .. n - 1 :
           /\ frames'[k].asked = frames[k].asked
           /\ frames'[k].interrupted = (frames[k].interrupted \/ k = n - 1)
      /\ \A k \in 1 .. n : /\ frames[k].asked \in BOOLEAN
                           /\ frames[k].interrupted \in BOOLEAN
      /\ Len(cancelled_events') = IF WasCancelled THEN m - 1 ELSE m
      /\ verdict' = [asked |-> frames[n].asked, cancelled |-> WasCancelled,
                     surplus |-> Surplus]
      /\ WasCancelled \in BOOLEAN
  BY <1>1, EndFacts, TypeFacts DEF WasCancelled
<1>3. \A k \in 1 .. n - 1 : k \in 1 .. n
  BY <1>2
<1>4. /\ Open # <<>> /\ Len(Open) = n
      /\ Open[Len(Open)].cancelled = frames[n].asked
  <2>1. frames \in Seq(Frame)
    BY <1>1, TypeFacts
  <2> QED BY <2>1, <1>2, OpenFacts DEF Open
<1>5. Open' = [k \in 1 .. Len(Open) - 1 |->
                 IF k < Len(Open) - 1 THEN Open[k]
                 ELSE [cancelled |-> Open[k].cancelled, interrupted |-> TRUE]]
  <2>1. ASSUME NEW k \in 1 .. n - 1
        PROVE  Opened(frames'[k]) =
                 IF k < n - 1 THEN Open[k]
                 ELSE [cancelled |-> Open[k].cancelled, interrupted |-> TRUE]
    <3>1. Open[k] = Opened(frames[k])
      BY <1>2, <1>3 DEF Open, OpenOf
    <3>2. /\ frames'[k].asked = frames[k].asked
          /\ frames'[k].interrupted = (frames[k].interrupted \/ k = n - 1)
          /\ frames[k].interrupted \in BOOLEAN
      BY <1>2, <1>3
    <3>3. CASE k = n - 1
      <4>1. frames'[k].interrupted = TRUE
        BY <3>2, <3>3, Zenon
      <4>2. Opened(frames'[k]) = [cancelled |-> Open[k].cancelled, interrupted |-> TRUE]
        <5>1. Open[k].cancelled = frames'[k].asked
          BY <3>1, <3>2 DEF Opened
        <5> QED BY <5>1, <4>1, Zenon DEF Opened
      <4>3. ~(k < n - 1)
        BY <3>3, <1>2
      <4> QED BY <4>2, <4>3, Zenon
    <3>4. CASE k # n - 1
      <4>1. frames'[k].interrupted = frames[k].interrupted
        BY <3>2, <3>4, Zenon
      <4>2. k < n - 1
        BY <3>4, <1>2
      <4> QED BY <3>1, <3>2, <4>1, <4>2 DEF Opened
    <3> QED BY <3>3, <3>4
  <2>2. Open' = [k \in 1 .. n - 1 |-> Opened(frames'[k])]
    BY <1>2 DEF Open, OpenOf
  <2> QED BY <2>1, <2>2, <1>4
<1>6. /\ Surplus \in Nat /\ Cardinality(A) \in Nat
      /\ Cardinality(AskedFrames') = IF frames[n].asked THEN Cardinality(A) - 1
                                     ELSE Cardinality(A)
  <2>1. IsFiniteSet(A) /\ Surplus \in Nat /\ Cardinality(A) \in Nat
    BY SurplusFacts DEF DispatchInv
  <2>2. AskedFrames' = A \ {n}
    <3>1. \A k \in 1 .. n : k # n <=> k \in 1 .. n - 1
      BY <1>2
    <3> QED BY <3>1, <1>2, <1>3 DEF AskedFrames
  <2>3. n \in A <=> frames[n].asked
    BY <1>2 DEF AskedFrames
  <2> QED BY <2>1, <2>2, <2>3, FS_RemoveElement
<1>7. Surplus' = Len(cancelled_events') - Cardinality(AskedFrames')
  BY DEF Surplus
<1>8. Surplus = m - Cardinality(A)
  BY DEF Surplus
<1>9. verdict'.cancelled = WasCancelled
  BY <1>2
<1>10. CASE frames[n].asked = WasCancelled
  <2>1. Surplus' = Surplus
    <3>1. CASE WasCancelled
      BY <3>1, <1>2, <1>6, <1>7, <1>8, <1>10
    <3>2. CASE ~WasCancelled
      BY <3>2, <1>2, <1>6, <1>7, <1>8, <1>10
    <3> QED BY <3>1, <3>2
  <2>2. verdict'.cancelled = Open[Len(Open)].cancelled
    BY <1>4, <1>9, <1>10
  <2> QED BY <2>1, <2>2, <1>4, <1>5
       DEF Events!End, Events!Close, Events!Innermost, Open, OpenOf, Opened
<1>11. CASE frames[n].asked # WasCancelled
  <2>1. Surplus > 0
    <3>1. (frames[n].asked <=> WasCancelled) \/ Surplus > 0
      BY EndVerdict
    <3> QED BY <3>1, <1>2, <1>11
  <2>2. Surplus' = IF frames[n].asked THEN Surplus + 1 ELSE Surplus - 1
    <3>1. CASE frames[n].asked
      <4>1. ~WasCancelled
        BY <3>1, <1>2, <1>11
      <4> QED BY <3>1, <4>1, <1>2, <1>6, <1>7, <1>8
    <3>2. CASE ~frames[n].asked
      <4>1. WasCancelled
        BY <3>2, <1>2, <1>11
      <4> QED BY <3>2, <4>1, <1>2, <1>6, <1>7, <1>8
    <3> QED BY <3>1, <3>2
  <2>3. verdict'.cancelled = ~Open[Len(Open)].cancelled
    <3>1. WasCancelled = ~frames[n].asked
      BY <1>2, <1>11, Zenon
    <3> QED BY <3>1, <1>4, <1>9, Zenon
  <2>4. Surplus' = IF Open[Len(Open)].cancelled THEN Surplus + 1 ELSE Surplus - 1
    BY <2>2, <1>4
  <2> QED BY <2>1, <2>3, <2>4, <1>4, <1>5
       DEF Events!EndWrongly, Events!Close, Events!Innermost, Open, OpenOf, Opened
<1> QED BY <1>10, <1>11

-----------------------------------------------------------------------------
(* Theorems                                                                *)

\* The invariant holds, however often an event is cancelled.
THEOREM DispatchInvariant == DispatchSpec => []DispatchInv
BY InitDispatch, NextKeeps, PTL DEF DispatchSpec

\* The event counter never falls behind the number of running events.
THEOREM EventTypeCorrect == DispatchSpec => []DispatchTypeOK
<1>1. DispatchInv => DispatchTypeOK
  BY DEF DispatchInv
<1> QED BY <1>1, DispatchInvariant, PTL

\* trigger_event answers for its own event and for no other one, unless an
\* event cancelled twice left its id on the stack.
THEOREM VerdictsMatch == DispatchSpec => []VerdictMatches
<1>1. DispatchInv => VerdictMatches
  BY DEF DispatchInv
<1> QED BY <1>1, DispatchInvariant, PTL

\* No running event loses its cancellation, and no cancellation outlives its
\* event on the stack but those of events cancelled twice.
THEOREM StacksSound == DispatchSpec => []StackOfRunningEvents
<1>1. DispatchInv => StackOfRunningEvents
  BY SurplusFacts DEF DispatchInv, StackOfRunningEvents
<1> QED BY <1>1, DispatchInvariant, PTL

\* A counter and a stack of numbers implement events that know their verdict.
THEOREM DispatcherImplementsEvents == DispatchSpec => ImplementsEvents
<1>1. DispatchInit => Events!Init
  <2> SUFFICES ASSUME DispatchInit PROVE Events!Init
    OBVIOUS
  <2>1. frames = <<>> /\ Len(frames) = 0 /\ Len(cancelled_events) = 0
    BY DEF DispatchInit
  <2>3. Open = <<>>
    BY <2>1 DEF Open, OpenOf
  <2>4. AskedFrames = {}
    BY <2>1 DEF AskedFrames
  <2>5. Surplus = 0
    BY <2>1, <2>4, FS_EmptySet DEF Surplus
  <2>6. verdict.cancelled = FALSE
    BY DEF DispatchInit
  <2> QED BY <2>3, <2>5, <2>6 DEF Open, OpenOf, Opened, Events!Init
<1>2. DispatchInv /\ [DispatchNext]_dispatchVars => [Events!Next]_Events!vars
  <2> SUFFICES ASSUME DispatchInv, [DispatchNext]_dispatchVars
               PROVE  [Events!Next]_Events!vars
    OBVIOUS
  <2>1. CASE TriggerEvent
    BY <2>1, TriggerMaps DEF Events!Next
  <2>2. CASE CancelEvent
    BY <2>2, CancelMaps DEF Open, OpenOf, Opened, Events!Next, Events!vars
  <2>3. CASE EndEvent
    BY <2>3, EndMaps DEF Events!Next
  <2>4. CASE UNCHANGED dispatchVars
    BY <2>4 DEF dispatchVars, Surplus, AskedFrames, Events!vars
  <2> QED BY <2>1, <2>2, <2>3, <2>4 DEF DispatchNext
<1> QED BY <1>1, <1>2, DispatchInvariant, PTL DEF DispatchSpec, ImplementsEvents, Events!Spec
=============================================================================
