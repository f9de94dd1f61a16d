--------------------------- MODULE ResourceSystem ---------------------------
(***************************************************************************)
(* What running resources leave in the server: the handlers of events and  *)
(* commands, the objects, and the main thread that calls scripts while it  *)
(* walks those tables (resource_system.cpp, resource.cpp, script.cpp,      *)
(* script_registering.cpp).  Timers are in ScriptTimers.                   *)
(*                                                                         *)
(* `stack' is the call stack of the main thread, a frame per walk.  A      *)
(* script that is called may call back (ScriptCalls), which changes the    *)
(* tables under the walks of every frame.  Resources are started and       *)
(* stopped by packets, outside of every walk; scripts have no function     *)
(* for it.                                                                 *)
(***************************************************************************)
EXTENDS Integers, Sequences, FiniteSets

CONSTANTS Resources, Scripts,
          Owner,      \* Script::owner: the resource of each script
          Objects,    \* blocks of memory that hold NetObjects of resources
          MaxCalls,   \* bound: API calls one invocation of a script makes
          MaxDepth,   \* bound: nested triggerEvent calls
          Null

ASSUME OwnersAssumption == Owner \in [Scripts -> Resources]
ASSUME BoundsAssumption == MaxCalls \in Nat /\ MaxDepth \in Nat
ASSUME NullAssumption == Null \notin Resources \union Scripts

\* onResourceStop, and any event (onResourceStart, too) or command beside it.
Events == {"Stop", "Other"}

VARIABLES
    status,      \* Resource::status
    vm,          \* the scripts whose Script::vm is alive
    handlers,    \* events and commands: <<name, script>> entries
    create_ctx,  \* Resource::create_ctx, which keeps pointers of the dead
    creator,     \* the resource that made the listed object of a block, or Null
    stack,       \* the walks of the main thread
    fault        \* undefined behaviour that was met

tables == <<status, vm, handlers>>
made == <<create_ctx, creator>>
vars == <<tables, made, stack, fault>>

ScriptsOf(r) == {s \in Scripts : Owner[s] = r}
HandlersOf(e) == {s \in Scripts : <<e, s>> \in handlers}

(* A frame calls scripts one after the other.  `cur' is the script that    *)
(* runs, `calls' the calls it may still make, `todo' the scripts to call.  *)
(*   "Start"   Resource::start of rsrc, main chunk by main chunk           *)
(*   "Event"   trigger_event of name; rsrc: the resource that stops when   *)
(*             the event is over, or Null                                  *)
Frame(kind, name, rsrc, todo) ==
    [kind |-> kind, name |-> name, rsrc |-> rsrc, todo |-> todo,
     cur |-> Null, calls |-> 0]
Event(e, r) == Frame("Event", e, r, HandlersOf(e))
Idle == stack = <<>> /\ fault = "None"
Top == stack[Len(stack)]
Pop == SubSeq(stack, 1, Len(stack) - 1)
SetTop(f) == [stack EXCEPT ![Len(stack)] = f]
Between(kind) ==
    fault = "None" /\ stack # <<>> /\ Top.kind = kind /\ Top.cur = Null
Invoke(s) == [Top EXCEPT !.todo = @ \ {s}, !.cur = s, !.calls = MaxCalls]
-----------------------------------------------------------------------------
Init ==
    /\ status = [r \in Resources |-> "Stopped"]
    /\ vm = {} /\ handlers = {}
    /\ create_ctx = [r \in Resources |-> {}]
    /\ creator = [o \in Objects |-> Null]
    /\ stack = <<>> /\ fault = "None"

(* Starting: main chunks run one by one while the status is still Stopped. *)
StartResource(r) ==
    /\ Idle /\ status[r] = "Stopped"
    /\ stack' = <<Frame("Start", Null, r, ScriptsOf(r))>>
    /\ UNCHANGED <<tables, made, fault>>

EarlyStatus(r) == [status EXCEPT ![r] = "Running"]
StartingStatus(r) == status
StartScript(s) ==
    /\ Between("Start") /\ s \in Top.todo
    /\ vm' = vm \union {s}
    /\ status' = StartingStatus(Top.rsrc)
    /\ stack' = SetTop(Invoke(s))
    /\ UNCHANGED <<handlers, made, fault>>

\* All scripts ran: the resource runs and onResourceStart is triggered.
Started ==
    /\ Between("Start") /\ Top.todo = {}
    /\ status' = [status EXCEPT ![Top.rsrc] = "Running"]
    /\ stack' = <<Event("Other", Null)>>
    /\ UNCHANGED <<handlers, vm, made, fault>>

(* Stopping: onResourceStop while everything still lives, then the rest.   *)
StopResource(r) ==
    /\ Idle /\ status[r] = "Running"
    /\ stack' = <<Event("Stop", r)>>
    /\ UNCHANGED <<tables, made, fault>>

ClearResource(r) == {h \in handlers : Owner[h[2]] # r}
KeepCreated(r) == creator
ClearCreateContext(r) ==
    [o \in Objects |-> IF o \in create_ctx[r] THEN Null ELSE creator[o]]

Stopped ==
    /\ Between("Event") /\ Top.todo = {} /\ Top.rsrc # Null
    /\ handlers' = ClearResource(Top.rsrc)
    /\ vm' = vm \ ScriptsOf(Top.rsrc)
    /\ status' = [status EXCEPT ![Top.rsrc] = "Stopped"]
    /\ creator' = ClearCreateContext(Top.rsrc)
    /\ create_ctx' = [create_ctx EXCEPT ![Top.rsrc] = {}]
    /\ stack' = Pop
    /\ UNCHANGED fault

(* Events: from packets and ticks, and from scripts (TriggerEvent).        *)
Dispatch ==
    /\ Idle
    /\ stack' = <<Event("Other", Null)>>
    /\ UNCHANGED <<tables, made, fault>>

\* Handlers are called in any order; that those of one resource are called
\* in a row is left out.
CallHandler(s) ==
    /\ Between("Event") /\ s \in Top.todo
    /\ stack' = SetTop(Invoke(s))
    /\ UNCHANGED <<tables, made, fault>>

\* A remote event passes over the handlers that do not allow it.
PassOver(s) ==
    /\ Between("Event") /\ s \in Top.todo /\ Top.name = "Other"
    /\ stack' = SetTop([Top EXCEPT !.todo = @ \ {s}])
    /\ UNCHANGED <<tables, made, fault>>

Dispatched ==
    /\ Between("Event") /\ Top.todo = {} /\ Top.rsrc = Null
    /\ stack' = Pop
    /\ UNCHANGED <<tables, made, fault>>
-----------------------------------------------------------------------------
(* What a running script may call.                                         *)
Calls(s) == fault = "None" /\ stack # <<>> /\ Top.cur = s /\ Top.calls > 0
Called == [Top EXCEPT !.calls = @ - 1]

Walks(f, e) == f.kind = "Event" /\ f.name = e

\* A walk of e stands in the vector of handlers of the resource of s.
InVectorOf(s, e) ==
    \E i \in DOMAIN stack :
       /\ Walks(stack[i], e)
       /\ stack[i].cur # Null /\ Owner[stack[i].cur] = Owner[s]

(* What a walk may still have to call after the entry of s was inserted.    *)
(* A vector that is there already lies before or behind the one visited.    *)
(* A new entry of the unordered_map does so, too, unless the insertion      *)
(* rehashes the map (how full it is, is left out): then the walk finishes   *)
(* the vector it stands in and goes on in the new order, where the vectors  *)
(* it has visited may lie ahead, and those it has not may lie behind.       *)
NewEntry(s, e) == \A x \in HandlersOf(e) : Owner[x] # Owner[s]
RestOfVector(f) == {x \in f.todo : Owner[x] = Owner[f.cur]}
Rehashed(f, s, e) ==
    {RestOfVector(f) \union {x \in HandlersOf(e) \union {s} : Owner[x] \in ahead} :
        ahead \in SUBSET (Resources \ {Owner[f.cur]})}
Insertions(f, s, e) ==
    IF ~Walks(f, e) THEN {f.todo}
    ELSE {f.todo, f.todo \union {s}}
            \union (IF NewEntry(s, e) THEN Rehashed(f, s, e) ELSE {})

AddEvent(s, e) ==
    /\ Calls(s) /\ <<e, s>> \notin handlers /\ ~InVectorOf(s, e)
    /\ handlers' = handlers \union {<<e, s>>}
    /\ \E todos \in [DOMAIN stack -> SUBSET Scripts] :
         /\ \A i \in DOMAIN stack : todos[i] \in Insertions(stack[i], s, e)
         /\ stack' = [i \in DOMAIN stack |->
                        [SetTop(Called)[i] EXCEPT !.todo = todos[i]]]
    /\ UNCHANGED <<vm, status, made, fault>>

StillVisited(f, s, e) == f.todo
Unvisited(f, s, e) == IF Walks(f, e) THEN f.todo \ {s} ELSE f.todo
RemoveEvent(s, e) ==
    /\ Calls(s) /\ <<e, s>> \in handlers /\ ~InVectorOf(s, e)
    /\ handlers' = handlers \ {<<e, s>>}
    /\ stack' = [i \in DOMAIN stack |->
          [SetTop(Called)[i] EXCEPT !.todo = Unvisited(stack[i], s, e)]]
    /\ UNCHANGED <<vm, status, made, fault>>

\* A handler that removes itself, or a script of the same resource that adds
\* or removes its own: the tables change, and the range-for above goes on in
\* a vector that moved, shrank or is freed.  The model ends at this step.
EditUnderWalk(s, e) ==
    /\ Calls(s) /\ InVectorOf(s, e)
    /\ handlers' = IF <<e, s>> \in handlers
                   THEN handlers \ {<<e, s>>} ELSE handlers \union {<<e, s>>}
    /\ stack' = SetTop(Called)
    /\ fault' = "Iterator"
    /\ UNCHANGED <<vm, status, made>>

\* triggerEvent: trigger_non_remote_event, which cannot be cancelled.
TriggerEvent(s, e) ==
    /\ Calls(s) /\ Len(stack) <= MaxDepth
    /\ stack' = Append(SetTop(Called), Event(e, Null))
    /\ UNCHANGED <<tables, made, fault>>

\* createVehicle, createDamageable, createPickup.
CreateObject(s, o) ==
    /\ Calls(s) /\ creator[o] = Null
    /\ creator' = [creator EXCEPT ![o] = Owner[s]]
    /\ create_ctx' = [create_ctx EXCEPT ![Owner[s]] = @ \union {o}]
    /\ stack' = SetTop(Called)
    /\ UNCHANGED <<tables, fault>>

\* destroyObject takes any listed object and leaves every create_ctx alone.
DestroyObject(s, o) ==
    /\ Calls(s) /\ creator[o] # Null
    /\ creator' = [creator EXCEPT ![o] = Null]
    /\ stack' = SetTop(Called)
    /\ UNCHANGED <<tables, create_ctx, fault>>

Return ==
    /\ fault = "None" /\ stack # <<>> /\ Top.cur # Null
    /\ stack' = SetTop([Top EXCEPT !.cur = Null, !.calls = 0])
    /\ UNCHANGED <<tables, made, fault>>
-----------------------------------------------------------------------------
\* Players' DestroyObject packets and dead objects end objects as well.
DestroyByPlayer(o) ==
    /\ Idle /\ creator[o] # Null
    /\ creator' = [creator EXCEPT ![o] = Null]
    /\ UNCHANGED <<tables, create_ctx, stack, fault>>

ScriptCalls(s) ==
    \/ \E e \in Events :
         \/ AddEvent(s, e) \/ RemoveEvent(s, e) \/ EditUnderWalk(s, e)
         \/ TriggerEvent(s, e)
    \/ \E o \in Objects : CreateObject(s, o) \/ DestroyObject(s, o)

Next ==
    \/ \E r \in Resources : StartResource(r) \/ StopResource(r)
    \/ \E s \in Scripts :
         StartScript(s) \/ CallHandler(s) \/ PassOver(s) \/ ScriptCalls(s)
    \/ Started \/ Stopped \/ Dispatch \/ Dispatched \/ Return
    \/ \E o \in Objects : DestroyByPlayer(o)

Spec == Init /\ [][Next]_vars
-----------------------------------------------------------------------------
Frames ==
    [kind : {"Start", "Event"}, name : Events \union {Null},
     rsrc : Resources \union {Null}, todo : SUBSET Scripts,
     cur : Scripts \union {Null}, calls : 0 .. MaxCalls]

\* Only the outermost walk starts or stops a resource, which counts as
\* running from the end of its last main chunk to the end of onResourceStop.
Placed(i) ==
    LET f == stack[i]
    IN  /\ f.kind = "Start" => i = 1 /\ status[f.rsrc] = "Stopped"
        /\ (f.kind = "Event" /\ f.rsrc # Null) =>
              i = 1 /\ status[f.rsrc] = "Running"

TypeOK ==
    /\ status \in [Resources -> {"Stopped", "Running"}]
    /\ vm \subseteq Scripts
    /\ handlers \subseteq Events \X Scripts
    /\ create_ctx \in [Resources -> SUBSET Objects]
    /\ creator \in [Objects -> Resources \union {Null}]
    /\ stack \in Seq(Frames) /\ \A i \in DOMAIN stack : Placed(i)
    /\ fault \in {"None", "Iterator"}

\* No script is called, or found in the tables, whose Lua state is closed.  And
\* whatever the scripts do to the tables while they are walked, at any depth,
\* rehashed maps included, no walk goes on to a handler that was removed, as
\* long as nobody edits the vector in which a walk stands: after an
\* EditUnderWalk a walk may hold a handler that is gone, and nothing is said.
CallsLive ==
    /\ \A h \in handlers : h[2] \in vm
    /\ \A i \in DOMAIN stack :
         /\ stack[i].cur # Null => stack[i].cur \in vm
         /\ (fault = "None" /\ stack[i].kind = "Event") =>
              \A s \in stack[i].todo : <<stack[i].name, s>> \in handlers

\* resource.cpp:141, "clear all objects that were created by this resource":
\* a resource that neither runs nor starts has no script and no handler left,
\* and no listed object is its own, also those made while it was stopping.
Starting(r) ==
    \E i \in DOMAIN stack : stack[i].kind = "Start" /\ stack[i].rsrc = r
StoppedLeavesNothing ==
    \A r \in Resources : (status[r] = "Stopped" /\ ~Starting(r)) =>
       /\ ScriptsOf(r) \intersect vm = {}
       /\ \A h \in handlers : Owner[h[2]] # r
       /\ create_ctx[r] = {} /\ \A o \in Objects : creator[o] # r
=============================================================================
