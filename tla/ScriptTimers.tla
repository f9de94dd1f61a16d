----------------------------- MODULE ScriptTimers -----------------------------
(***************************************************************************)
(* Script timers (setTimer, killTimer, resetTimer, ResourceSystem::update, *)
(* ScriptTimer).  The main thread visits the timers of one resource after  *)
(* the other, frees the spent and the killed ones of a resource at the end *)
(* of its visit, and calls scripts on the way, which set, kill and reset   *)
(* timers under it.  A callback may trigger events, so that scripts of any *)
(* live resource may call while it runs.                                   *)
(***************************************************************************)
EXTENDS Integers, FiniteSets

CONSTANTS Resources,
          Timers,     \* blocks of memory that hold ScriptTimers
          MaxTimes,   \* bound: largest number of times a timer is set for
          Null

ASSUME TimesAssumption == MaxTimes \in Nat
ASSUME MemoryAssumption == IsFiniteSet(Resources) /\ IsFiniteSet(Timers)
ASSUME NullAssumption == Null \notin Resources \union Timers

VARIABLES
    alive,       \* the resources whose scripts have a Lua state
    timer_list,  \* ResourceSystem::timers: the timers of each resource
    timer_keys,  \* the resources that have an entry in that map
    timer,       \* ScriptTimer::times and times_remaining
    pending,     \* ScriptTimer::pending_kill
    held,        \* ScriptTimer pointers in the variables of its scripts
    keys_room,   \* the most entries the map had, and each of the sets in it:
    list_room,   \* up to these sizes their hash tables need not grow
    pass,        \* the walk of ResourceSystem::update
    fault,       \* undefined behaviour that was met
    late         \* history: times a timer fired after it was killed

tables == <<timer_list, timer_keys, keys_room, list_room, timer, pending>>
vars == <<tables, alive, held, pass, fault, late>>

Live == UNION {timer_list[r] : r \in Resources}

\* rsrc: the resource that is visited; todo: its timers left; rest: the
\* resources left; cur: the timer whose callback runs; rehashed: history, how
\* often the set that is visited was rehashed during the visit.
NoPass == [on |-> FALSE, rsrc |-> Null, todo |-> {}, rest |-> {}, cur |-> Null,
           rehashed |-> 0]
Idle == fault = "None" /\ ~pass.on
Visiting(t) == fault = "None" /\ pass.cur = Null /\ t \in pass.todo
-----------------------------------------------------------------------------
NoTimer == [times |-> 0, left |-> 0]
Init ==
    /\ alive = {} /\ timer_keys = {} /\ pending = {}
    /\ timer_list = [r \in Resources |-> {}]
    /\ timer = [t \in Timers |-> NoTimer]
    /\ held = [r \in Resources |-> {}]
    /\ keys_room = 0 /\ list_room = [r \in Resources |-> 0]
    /\ pass = NoPass /\ fault = "None"
    /\ late = [t \in Timers |-> 0]

\* JC_FREE of timers; their blocks may be taken for new ones.
Freed(ts) ==
    /\ pending' = pending \ ts
    /\ timer' = [t \in Timers |-> IF t \in ts THEN NoTimer ELSE timer[t]]
    /\ late' = [t \in Timers |-> IF t \in ts THEN 0 ELSE late[t]]

StartResource(r) ==
    /\ Idle /\ r \notin alive
    /\ alive' = alive \union {r}
    /\ UNCHANGED <<tables, held, pass, fault, late>>

\* clear_resource, then the end of its Lua states; packets stop resources,
\* and so never during a pass.
KeysKept(r) == timer_keys
KeysAfterStop(r) == timer_keys \ {r}
StopResource(r) ==
    /\ Idle /\ r \in alive
    /\ Freed(timer_list[r])
    /\ timer_list' = [timer_list EXCEPT ![r] = {}]
    /\ timer_keys' = KeysAfterStop(r)
    /\ list_room' = [list_room EXCEPT ![r] = 0]
    /\ held' = [held EXCEPT ![r] = {}]
    /\ alive' = alive \ {r}
    /\ UNCHANGED <<keys_room, pass, fault>>
-----------------------------------------------------------------------------
(* ResourceSystem::update.                                                 *)
Update ==
    /\ Idle /\ timer_keys # {}
    /\ pass' = [NoPass EXCEPT !.on = TRUE, !.rest = timer_keys]
    /\ UNCHANGED <<tables, alive, held, fault, late>>

NextResource(r) ==
    /\ fault = "None" /\ pass.rsrc = Null /\ r \in pass.rest
    /\ pass' = [pass EXCEPT !.rsrc = r, !.rest = @ \ {r}, !.todo = timer_list[r]]
    /\ UNCHANGED <<tables, alive, held, fault, late>>

\* A count below zero, which a timer set for 0 times reaches, never meets
\* zero again.
Decremented(n) == IF n < 0 THEN n ELSE n - 1

\* The interval is over: the count is taken down, then the script is called.
Fire(t) ==
    /\ Visiting(t)
    /\ timer' = [timer EXCEPT ![t].left = Decremented(@)]
    /\ late' = [late EXCEPT ![t] = IF t \in pending THEN @ + 1 ELSE @]
    /\ pass' = [pass EXCEPT !.todo = @ \ {t}, !.cur = t]
    /\ UNCHANGED <<timer_list, timer_keys, keys_room, list_room, pending, alive, held, fault>>

Spent(t) == IF timer[t].left = 0 THEN pending \union {t} ELSE pending

\* The callback returned, and may have reset the count that is read now.
AfterCallback ==
    /\ fault = "None" /\ pass.cur # Null
    /\ pending' = Spent(pass.cur)
    /\ pass' = [pass EXCEPT !.cur = Null]
    /\ UNCHANGED <<timer_list, timer_keys, keys_room, list_room, timer, alive, held, fault, late>>

\* The interval is not over; a timer set for 0 times is spent all the same.
Waits(t) ==
    /\ Visiting(t)
    /\ pending' = Spent(t)
    /\ pass' = [pass EXCEPT !.todo = @ \ {t}]
    /\ UNCHANGED <<timer_list, timer_keys, keys_room, list_room, timer, alive, held, fault, late>>

OnlySpent(r) == {t \in timer_list[r] \intersect pending : timer[t].left = 0}
Swept(r) == timer_list[r] \intersect pending
Sweep ==
    /\ fault = "None" /\ pass.rsrc # Null
    /\ pass.cur = Null /\ pass.todo = {}
    /\ Freed(Swept(pass.rsrc))
    /\ timer_list' = [timer_list EXCEPT ![pass.rsrc] = @ \ Swept(pass.rsrc)]
    /\ pass' = [pass EXCEPT !.rsrc = Null, !.rehashed = 0]
    /\ UNCHANGED <<timer_keys, keys_room, list_room, alive, held, fault>>

Updated ==
    /\ fault = "None" /\ pass.on /\ pass.rsrc = Null /\ pass.rest = {}
    /\ pass' = NoPass
    /\ UNCHANGED <<tables, alive, held, fault, late>>
-----------------------------------------------------------------------------
(* Calls of a script of r, from an event or from a callback.               *)
Calls(r) == fault = "None" /\ r \in alive /\ (pass.on => pass.cur # Null)

NewList(r, t) == timer_list[r] \union {t}
NewKeys(r) == timer_keys \union {r}

\* A timer of the resource that is visited, or the first of another one, may
\* lie before or behind the entry the walk stands at.
MayMeet(r, t) ==
    IF pass.on /\ pass.rsrc = r
    THEN {pass, [pass EXCEPT !.todo = @ \union {t}]}
    ELSE IF pass.on /\ r \notin timer_keys
         THEN {pass, [pass EXCEPT !.rest = @ \union {r}]}
         ELSE {pass}

\* A hash table that outgrows its room may be rehashed, which invalidates the
\* iterator of the range-for over it: where the walk goes on is undefined.  A
\* rehash frees no entry, so it meets some of them, also those that it visited
\* and the one it stands at, and never the others.
Outgrows(new, room) == Cardinality(new) > room
MayMeetAnew(r, t) ==
    IF pass.on /\ pass.rsrc = r /\ Outgrows(NewList(r, t), list_room[r])
    THEN {[pass EXCEPT !.todo = s, !.rehashed = @ + 1] :
            s \in SUBSET NewList(r, t)}
    ELSE IF pass.on /\ pass.rsrc # r /\ Outgrows(NewKeys(r), keys_room)
         THEN {[pass EXCEPT !.rest = s] : s \in SUBSET NewKeys(r)}
         ELSE {}

Room(new, room) == IF Outgrows(new, room) THEN Cardinality(new) ELSE room

SetTimer(r, t, n) ==
    /\ Calls(r) /\ t \notin Live
    /\ timer' = [timer EXCEPT ![t] = [times |-> n, left |-> n]]
    /\ timer_list' = [timer_list EXCEPT ![r] = NewList(r, t)]
    /\ timer_keys' = NewKeys(r)
    /\ list_room' = [list_room EXCEPT ![r] = Room(NewList(r, t), @)]
    /\ keys_room' = Room(NewKeys(r), keys_room)
    /\ held' = [held EXCEPT ![r] = @ \union {t}]
    /\ pass' \in MayMeet(r, t) \union MayMeetAnew(r, t)
    /\ UNCHANGED <<pending, alive, fault, late>>

\* killTimer asks for an entry of the resource, not for the timer in it: a
\* pointer to a timer that is gone marks the one that took its block, of
\* whichever resource.
KillTimer(r, t) ==
    /\ Calls(r) /\ t \in held[r] \intersect Live /\ r \in timer_keys
    /\ pending' = pending \union {t}
    /\ UNCHANGED <<timer_list, timer_keys, keys_room, list_room, timer, alive, held, pass, fault, late>>

ResetTimer(r, t) ==
    /\ Calls(r) /\ t \in held[r] \intersect Live
    /\ timer' = [timer EXCEPT ![t].left = timer[t].times]
    /\ UNCHANGED <<timer_list, timer_keys, keys_room, list_room, pending, alive, held, pass, fault, late>>

\* Either of them with a pointer to a block that holds no timer.
TouchFreed(r, t) ==
    /\ Calls(r) /\ t \in held[r] \ Live
    /\ fault' = "FreedTimer"
    /\ UNCHANGED <<tables, alive, held, pass, late>>

Proceed ==
    \/ AfterCallback \/ Sweep \/ Updated
    \/ \E r \in Resources : NextResource(r)
    \/ \E t \in Timers : Fire(t) \/ Waits(t)

ScriptCalls(r) ==
    \E t \in Timers :
       \/ \E n \in 0 .. MaxTimes : SetTimer(r, t, n)
       \/ KillTimer(r, t) \/ ResetTimer(r, t) \/ TouchFreed(r, t)

Next ==
    \/ Update \/ Proceed
    \/ \E r \in Resources : StartResource(r) \/ StopResource(r) \/ ScriptCalls(r)

Spec == Init /\ [][Next]_vars

\* Net::tick calls update again and again, and callbacks return.
FairSpec == Spec /\ WF_vars(Proceed) /\ WF_vars(Update)
-----------------------------------------------------------------------------
TypeOK ==
    /\ alive \subseteq Resources /\ timer_keys \subseteq Resources
    /\ timer_list \in [Resources -> SUBSET Timers]
    /\ timer \in [Timers -> [times : 0 .. MaxTimes, left : -1 .. MaxTimes]]
    /\ pending \subseteq Live
    /\ held \in [Resources -> SUBSET Timers]
    /\ pass \in [on : BOOLEAN, rsrc : Resources \union {Null},
                 todo : SUBSET Timers, rest : SUBSET Resources,
                 cur : Timers \union {Null}, rehashed : Nat]
    /\ keys_room \in Nat /\ list_room \in [Resources -> Nat]
    /\ fault \in {"None", "FreedTimer"}
    /\ late \in [Timers -> Nat]

\* Callbacks set, kill and reset timers in the tables they are called from,
\* which may be rehashed under the walk.  Whichever entries the walk then meets
\* twice or never, update visits no timer that was freed and calls into no
\* closed Lua state: every timer is in the list of one resource, whose scripts
\* live and whose entry the next pass finds.
TimersLive ==
    /\ \A r \in Resources : timer_list[r] # {} => r \in alive /\ r \in timer_keys
    /\ \A r, q \in Resources : r # q => timer_list[r] \intersect timer_list[q] = {}
    /\ timer_keys \subseteq alive
    /\ pass.rsrc # Null =>
         /\ pass.todo \subseteq timer_list[pass.rsrc]
         /\ pass.cur # Null => pass.cur \in timer_list[pass.rsrc]
    /\ pass.rest \subseteq timer_keys

\* A timer that was killed, by its own callback, by that of another one or
\* between two passes, fires at most once more, even if it was reset: twice only
\* if the set it is in was rehashed during the visit, and so on.
KilledFiresOnce == \A t \in Timers : late[t] <= 1 + pass.rehashed

\* killTimer is honoured: update frees the timer in the end.
KilledGetsFreed ==
    \A t \in Timers : (t \in pending) ~> (fault # "None" \/ t \notin pending)
=============================================================================
