------------------------ MODULE ResourceSystemProofs ------------------------
(***************************************************************************)
(* For any number of resources, scripts and objects, and any depth of      *)
(* nested events: what the walks of the main thread still have to call is  *)
(* there, and nothing of a stopped resource is.                            *)
(***************************************************************************)
EXTENDS ResourceSystem, SequenceTheorems, TLAPS

\* What holds of the frame f at depth i of the stack.
FrameOK(f, i) ==
    /\ f \in Frames
    /\ f.kind = "Start" =>
          /\ i = 1 /\ f.rsrc \in Resources /\ status[f.rsrc] = "Stopped"
          /\ f.todo \subseteq ScriptsOf(f.rsrc)
    /\ f.kind = "Event" =>
          /\ f.name \in Events
          /\ fault = "None" => \A s \in f.todo : <<f.name, s>> \in handlers
    /\ (f.kind = "Event" /\ f.rsrc # Null) => i = 1 /\ status[f.rsrc] = "Running"
    /\ f.cur # Null => f.cur \in vm

StackOK == stack \in Seq(Frames) /\ \A i \in 1 .. Len(stack) : FrameOK(stack[i], i)

Types ==
    /\ status \in [Resources -> {"Stopped", "Running"}]
    /\ vm \subseteq Scripts
    /\ handlers \subseteq Events \X Scripts
    /\ create_ctx \in [Resources -> SUBSET Objects]
    /\ creator \in [Objects -> Resources \union {Null}]
    /\ fault \in {"None", "Iterator"}

HandlersAlive == \A h \in handlers : h[2] \in vm

\* Every listed object of a resource is one it remembers.
Remembered == \A o \in Objects : creator[o] # Null => o \in create_ctx[creator[o]]

\* A script that is alive belongs to a resource that runs or starts.
StartingAt(r) ==
    \E i \in 1 .. Len(stack) : stack[i].kind = "Start" /\ stack[i].rsrc = r
Active(r) == status[r] = "Running" \/ StartingAt(r)
Gone == \A r \in Resources :
    ~Active(r) => create_ctx[r] = {} /\ \A s \in vm : Owner[s] # r

IInv == Types /\ StackOK /\ HandlersAlive /\ Remembered /\ Gone

-----------------------------------------------------------------------------
\* Nothing is loaded, and nobody is called, in the beginning.
LEMMA InitInv == Init => IInv
<1> SUFFICES ASSUME Init PROVE IInv
  OBVIOUS
<1>1. stack \in Seq(Frames) /\ Len(stack) = 0
  BY EmptySeq DEF Init
<1> QED BY <1>1 DEF Init, IInv, Types, StackOK, HandlersAlive, Remembered, Gone

\* The frame a step works on.
LEMMA TopFrame ==
    ASSUME StackOK, stack # <<>>
    PROVE  /\ Len(stack) \in Nat \ {0} /\ Top = stack[Len(stack)]
           /\ DOMAIN stack = 1 .. Len(stack)
           /\ Top \in Frames /\ FrameOK(Top, Len(stack))
<1>1. Len(stack) \in Nat \ {0}
  BY EmptySeq DEF StackOK
<1>2. DOMAIN stack = 1 .. Len(stack)
  BY LenProperties DEF StackOK
<1> QED BY <1>1, <1>2 DEF StackOK, Top, FrameOK

\* Changing the frame on top keeps the others.
LEMMA TopChanged ==
    ASSUME StackOK, stack # <<>>, NEW f \in Frames
    PROVE  /\ SetTop(f) \in Seq(Frames) /\ Len(SetTop(f)) = Len(stack)
           /\ DOMAIN SetTop(f) = 1 .. Len(stack)
           /\ \A i \in 1 .. Len(stack) :
                SetTop(f)[i] = IF i = Len(stack) THEN f ELSE stack[i]
<1>1. Len(stack) \in 1 .. Len(stack)
  BY TopFrame
<1>2. SetTop(f) = [stack EXCEPT ![Len(stack)] = f]
  BY DEF SetTop
<1>3. SetTop(f) \in Seq(Frames) /\ Len(SetTop(f)) = Len(stack)
  BY <1>1, <1>2, ExceptSeq DEF StackOK
<1>4. DOMAIN SetTop(f) = 1 .. Len(stack)
  BY <1>3, LenProperties
<1> QED BY <1>1, <1>2, <1>3, <1>4, ExceptSeq DEF StackOK

\* A walk that is over leaves the frames below it.
LEMMA Popped ==
    ASSUME StackOK, stack # <<>>
    PROVE  /\ Pop \in Seq(Frames) /\ Len(Pop) = Len(stack) - 1
           /\ \A i \in 1 .. Len(stack) - 1 : Pop[i] = stack[i]
<1>1. Len(stack) \in Nat \ {0} /\ \A i \in 1 .. Len(stack) - 1 : stack[i] \in Frames
  BY TopFrame DEF StackOK, FrameOK
<1>2. PICK n \in Nat : n = Len(stack) - 1
  BY <1>1, SMTT(30)
<1>3. \A i \in 1 .. n : stack[i] \in Frames
  BY <1>1, <1>2
<1>4. /\ SubSeq(stack, 1, n) \in Seq(Frames)
      /\ Len(SubSeq(stack, 1, n)) = IF 1 <= n THEN n - 1 + 1 ELSE 0
      /\ \A i \in 1 .. n - 1 + 1 : SubSeq(stack, 1, n)[i] = stack[1 + i - 1]
  BY <1>3, SubSeqProperties
<1> QED BY <1>2, <1>4 DEF Pop

\* A stack of one frame.
LEMMA Single ==
    ASSUME NEW f \in Frames
    PROVE  /\ <<f>> \in Seq(Frames) /\ Len(<<f>>) = 1 /\ <<f>>[1] = f
OBVIOUS

\* An event's frame, as it is pushed.
LEMMA EventFrame ==
    ASSUME Types, NEW e \in Events, NEW r \in Resources \union {Null}
    PROVE  /\ Event(e, r) \in Frames
           /\ Event(e, r).kind = "Event" /\ Event(e, r).name = e
           /\ Event(e, r).rsrc = r /\ Event(e, r).cur = Null
           /\ \A s \in Event(e, r).todo : <<e, s>> \in handlers
BY BoundsAssumption DEF Types, Event, Frame, Frames, HandlersOf

\* A frame that calls a script.
LEMMA Invoked ==
    ASSUME Top \in Frames, NEW s \in Scripts
    PROVE  /\ Invoke(s) \in Frames
           /\ Invoke(s).kind = Top.kind /\ Invoke(s).name = Top.name
           /\ Invoke(s).rsrc = Top.rsrc /\ Invoke(s).cur = s
           /\ Invoke(s).todo \subseteq Top.todo
<1>1. MaxCalls \in 0 .. MaxCalls
  BY BoundsAssumption
<1>2. Top.todo \ {s} \in SUBSET Scripts
  BY DEF Frames
<1>3. /\ Invoke(s).kind = Top.kind /\ Invoke(s).name = Top.name
      /\ Invoke(s).rsrc = Top.rsrc /\ Invoke(s).cur = s
      /\ Invoke(s).todo = Top.todo \ {s}
  BY DEF Invoke, Frames
<1>4. Invoke(s) \in Frames
  <2> DEFINE f == [Top EXCEPT !.todo = @ \ {s}]
             g == [f EXCEPT !.cur = s]
  <2>1. f \in Frames
    BY <1>2 DEF Frames
  <2>2. g \in Frames
    <3> HIDE DEF f
    <3> QED BY <2>1 DEF Frames
  <2>3. [g EXCEPT !.calls = MaxCalls] \in Frames
    <3> HIDE DEF g
    <3> QED BY <2>2, <1>1 DEF Frames
  <2> QED BY <2>3 DEF Invoke
<1> QED BY <1>3, <1>4

\* A frame whose script returned.
LEMMA Returned ==
    ASSUME Top \in Frames
    PROVE  LET f == [Top EXCEPT !.cur = Null, !.calls = 0]
           IN  /\ f \in Frames /\ f.kind = Top.kind /\ f.name = Top.name
               /\ f.rsrc = Top.rsrc /\ f.todo = Top.todo /\ f.cur = Null
<1> DEFINE g == [Top EXCEPT !.cur = Null]
           f == [Top EXCEPT !.cur = Null, !.calls = 0]
<1>1. g \in Frames
  BY DEF Frames
<1>2. [g EXCEPT !.calls = 0] \in Frames
  <2> HIDE DEF g
  <2>1. 0 \in 0 .. MaxCalls
    BY BoundsAssumption
  <2> QED BY <1>1, <2>1 DEF Frames
<1>3. /\ f.kind = Top.kind /\ f.name = Top.name
      /\ f.rsrc = Top.rsrc /\ f.todo = Top.todo /\ f.cur = Null
  BY DEF Frames
<1> QED BY <1>2, <1>3

\* A step that changes only the frame on top, and not what it is a walk of.
LEMMA SameWalk ==
    ASSUME IInv, stack # <<>>, NEW f \in Frames, stack' = SetTop(f),
           f.kind = Top.kind, f.name = Top.name, f.rsrc = Top.rsrc,
           f.todo \subseteq Top.todo, f.cur # Null => f.cur \in vm',
           UNCHANGED status, vm \subseteq vm',
           fault' = "None" => UNCHANGED <<handlers, fault>>
    PROVE  /\ StackOK' /\ Len(stack') = Len(stack)
           /\ \A r \in Resources : StartingAt(r)' <=> StartingAt(r)
<1>1. /\ Len(stack) \in Nat \ {0} /\ Top = stack[Len(stack)]
      /\ FrameOK(Top, Len(stack))
  BY TopFrame DEF IInv
<1>2. /\ stack' \in Seq(Frames) /\ Len(stack') = Len(stack)
      /\ \A i \in 1 .. Len(stack) :
           stack'[i] = IF i = Len(stack) THEN f ELSE stack[i]
  BY TopChanged DEF IInv
<1>3. ASSUME NEW i \in 1 .. Len(stack) PROVE FrameOK(stack[i], i)'
  <2>1. CASE i = Len(stack)
    BY <1>1, <1>2, <2>1 DEF FrameOK, ScriptsOf
  <2>2. CASE i # Len(stack)
    <3>1. FrameOK(stack[i], i) /\ stack'[i] = stack[i]
      BY <1>2, <2>2 DEF IInv, StackOK
    <3> QED BY <3>1 DEF FrameOK, ScriptsOf
  <2> QED BY <2>1, <2>2
<1>4. StackOK'
  BY <1>2, <1>3 DEF StackOK
<1>5. \A i \in 1 .. Len(stack) :
         stack'[i].kind = stack[i].kind /\ stack'[i].rsrc = stack[i].rsrc
  BY <1>1, <1>2
<1> QED BY <1>2, <1>4, <1>5 DEF StartingAt

\* What a step that leaves the tables and the objects alone has to show.
LEMMA TablesKept ==
    ASSUME IInv, UNCHANGED <<tables, made>>, fault' \in {"None", "Iterator"},
           StackOK', \A r \in Resources : StartingAt(r)' <=> StartingAt(r)
    PROVE  IInv'
<1> USE DEF tables, made
<1>1. Types' /\ HandlersAlive' /\ Remembered'
  BY DEF IInv, Types, HandlersAlive, Remembered
<1>2. Gone'
  BY DEF IInv, Gone, Active
<1> QED BY <1>1, <1>2 DEF IInv

\* A step that leaves the stack alone, too, or only touches objects.
LEMMA StackKept ==
    ASSUME IInv, UNCHANGED <<tables, stack, fault>>
    PROVE  /\ StackOK'
           /\ \A r \in Resources : StartingAt(r)' <=> StartingAt(r)
<1>1. \A i \in 1 .. Len(stack) : FrameOK(stack[i], i) => FrameOK(stack[i], i)'
  BY DEF tables, FrameOK, ScriptsOf
<1> QED BY <1>1 DEF IInv, StackOK, StartingAt

-----------------------------------------------------------------------------
\* A handler is called or passed over, or a script returns.
LEMMA CallStep ==
    ASSUME IInv, NEW s \in Scripts, CallHandler(s) \/ PassOver(s) \/ Return
    PROVE  IInv'
<1>1. stack # <<>> /\ UNCHANGED <<tables, made, fault>>
  BY DEF CallHandler, PassOver, Return, Between
<1>2. Top \in Frames /\ FrameOK(Top, Len(stack))
  BY <1>1, TopFrame DEF IInv
<1>3. PICK f \in Frames :
        /\ stack' = SetTop(f)
        /\ f.kind = Top.kind /\ f.name = Top.name /\ f.rsrc = Top.rsrc
        /\ f.todo \subseteq Top.todo /\ (f.cur # Null => f.cur \in vm)
  <2>1. CASE CallHandler(s)
    <3>1. s \in vm
      BY <1>2, <2>1 DEF CallHandler, Between, FrameOK, IInv, HandlersAlive
    <3> QED BY <1>2, <2>1, <3>1, Invoked DEF CallHandler
  <2>2. CASE PassOver(s)
    BY <1>2, <2>2 DEF PassOver, Between, Frames, FrameOK
  <2>3. CASE Return
    BY <1>2, <2>3, Returned DEF Return
  <2> QED BY <2>1, <2>2, <2>3
<1>4. /\ UNCHANGED <<status, handlers>> /\ vm \subseteq vm'
      /\ (f.cur # Null => f.cur \in vm')
  BY <1>1, <1>3 DEF tables
<1>5. StackOK' /\ \A r \in Resources : StartingAt(r)' <=> StartingAt(r)
  BY <1>1, <1>3, <1>4, SameWalk
<1>6. fault' \in {"None", "Iterator"}
  BY <1>1 DEF IInv, Types
<1> QED BY <1>1, <1>5, <1>6, TablesKept

\* A main chunk runs.
LEMMA StartScriptStep ==
    ASSUME IInv, NEW s \in Scripts, StartScript(s)
    PROVE  IInv'
<1>1. /\ stack # <<>> /\ Top.kind = "Start" /\ s \in Top.todo
      /\ vm' = vm \union {s} /\ stack' = SetTop(Invoke(s))
      /\ UNCHANGED <<handlers, status, made, fault>>
  BY DEF StartScript, StartingStatus, Between
<1>2. /\ Top \in Frames /\ FrameOK(Top, Len(stack)) /\ Top = stack[Len(stack)]
      /\ Len(stack) \in Nat \ {0}
  BY <1>1, TopFrame DEF IInv
<1>3. /\ Invoke(s) \in Frames
      /\ Invoke(s).kind = Top.kind /\ Invoke(s).name = Top.name
      /\ Invoke(s).rsrc = Top.rsrc /\ Invoke(s).cur = s
      /\ Invoke(s).todo \subseteq Top.todo
  BY <1>2, Invoked
<1>4. StackOK' /\ \A r \in Resources : StartingAt(r)' <=> StartingAt(r)
  BY <1>1, <1>3, SameWalk
<1>5. StartingAt(Owner[s])
  <2>1. /\ Top.rsrc = Owner[s] /\ Len(stack) \in 1 .. Len(stack)
    BY <1>1, <1>2 DEF FrameOK, ScriptsOf
  <2> QED BY <1>1, <1>2, <2>1 DEF StartingAt
<1>6. Types' /\ HandlersAlive' /\ Remembered'
  BY <1>1 DEF IInv, Types, HandlersAlive, Remembered, made
<1>7. Gone'
  BY <1>1, <1>4, <1>5 DEF IInv, Gone, Active, made
<1> QED BY <1>4, <1>6, <1>7 DEF IInv

\* A script makes or destroys an object.
LEMMA ObjectStep ==
    ASSUME IInv, NEW s \in Scripts, NEW o \in Objects,
           CreateObject(s, o) \/ DestroyObject(s, o)
    PROVE  IInv'
<1>1. /\ stack # <<>> /\ Top.cur = s /\ Top.calls > 0 /\ stack' = SetTop(Called)
      /\ UNCHANGED <<tables, fault>>
  BY DEF CreateObject, DestroyObject, Calls
<1>2. Top \in Frames /\ FrameOK(Top, Len(stack))
  BY <1>1, TopFrame DEF IInv
<1>3. /\ Called \in Frames
      /\ Called.kind = Top.kind /\ Called.name = Top.name
      /\ Called.rsrc = Top.rsrc /\ Called.cur = s
      /\ Called.todo \subseteq Top.todo
  BY <1>1, <1>2, BoundsAssumption DEF Called, Frames
<1>4. s \in vm /\ UNCHANGED <<status, vm, handlers>>
  BY <1>1, <1>2, NullAssumption DEF FrameOK, tables
<1>5. StackOK' /\ \A r \in Resources : StartingAt(r)' <=> StartingAt(r)
  BY <1>1, <1>3, <1>4, SameWalk
<1>6. Owner[s] \in Resources /\ Active(Owner[s])
  BY <1>4, OwnersAssumption DEF IInv, Gone
<1>7. Types' /\ HandlersAlive'
  BY <1>1, <1>4, <1>6 DEF IInv, Types, HandlersAlive, CreateObject, DestroyObject
<1>8. Remembered'
  BY <1>6, NullAssumption
     DEF IInv, Types, Remembered, CreateObject, DestroyObject
<1>9. Gone'
  BY <1>4, <1>5, <1>6
     DEF IInv, Types, Gone, Active, CreateObject, DestroyObject
<1> QED BY <1>5, <1>7, <1>8, <1>9 DEF IInv

\* An event is dispatched, or a resource begins to stop.
LEMMA DispatchStep ==
    ASSUME IInv, Dispatch \/ \E r \in Resources : StopResource(r)
    PROVE  IInv'
<1>1. stack = <<>> /\ UNCHANGED <<tables, made, fault>>
  BY DEF Dispatch, StopResource, Idle
<1>2. PICK e \in Events, r \in Resources \union {Null} :
        /\ stack' = <<Event(e, r)>> /\ (r # Null => status[r] = "Running")
  BY DEF Dispatch, StopResource, Events
<1>3. /\ Event(e, r) \in Frames
      /\ Event(e, r).kind = "Event" /\ Event(e, r).name = e
      /\ Event(e, r).rsrc = r /\ Event(e, r).cur = Null
      /\ \A s \in Event(e, r).todo : <<e, s>> \in handlers
  BY EventFrame DEF IInv
<1>4. /\ stack' \in Seq(Frames) /\ Len(stack') = 1
      /\ stack'[1] = Event(e, r) /\ Len(stack) = 0
  BY <1>1, <1>2, <1>3, Single
<1>5. FrameOK(stack[1], 1)'
  BY <1>1, <1>2, <1>3, <1>4 DEF FrameOK, tables
<1>6. StackOK'
  BY <1>4, <1>5 DEF StackOK
<1>7. \A q \in Resources : StartingAt(q)' <=> StartingAt(q)
  BY <1>3, <1>4 DEF StartingAt
<1>8. fault' \in {"None", "Iterator"}
  BY <1>1 DEF IInv, Types
<1> QED BY <1>1, <1>6, <1>7, <1>8, TablesKept

\* A resource begins to start.
LEMMA StartStep ==
    ASSUME IInv, NEW r \in Resources, StartResource(r)
    PROVE  IInv'
<1> DEFINE f == Frame("Start", Null, r, ScriptsOf(r))
<1>1. /\ stack = <<>> /\ status[r] = "Stopped" /\ stack' = <<f>>
      /\ UNCHANGED <<tables, made, fault>>
  BY DEF StartResource, Idle
<1>2. /\ f \in Frames /\ f.kind = "Start" /\ f.rsrc = r
      /\ f.todo = ScriptsOf(r) /\ f.cur = Null
  BY BoundsAssumption DEF Frame, Frames, ScriptsOf
<1> HIDE DEF f
<1>3. /\ stack' \in Seq(Frames) /\ Len(stack') = 1 /\ stack'[1] = f
      /\ Len(stack) = 0
  BY <1>1, <1>2, Single
<1>4. FrameOK(stack[1], 1)'
  BY <1>1, <1>2, <1>3 DEF FrameOK, tables, ScriptsOf
<1>5. StackOK'
  BY <1>3, <1>4 DEF StackOK
<1>6. Types' /\ HandlersAlive' /\ Remembered'
  BY <1>1 DEF IInv, Types, HandlersAlive, Remembered, tables, made
<1>7. \A q \in Resources : ~StartingAt(q)
  BY <1>3 DEF StartingAt
<1>8. Gone'
  BY <1>1, <1>7 DEF IInv, Gone, Active, tables, made
<1> QED BY <1>5, <1>6, <1>8 DEF IInv

\* All main chunks ran.
LEMMA StartedStep == IInv /\ Started => IInv'
<1> SUFFICES ASSUME IInv, Started PROVE IInv'
  OBVIOUS
<1> DEFINE r == Top.rsrc
<1>1. /\ stack # <<>> /\ Top.kind = "Start"
      /\ status' = [status EXCEPT ![r] = "Running"]
      /\ stack' = <<Event("Other", Null)>>
      /\ UNCHANGED <<handlers, vm, made, fault>>
  BY DEF Started, Between
<1>2. /\ FrameOK(Top, Len(stack)) /\ Top = stack[Len(stack)]
      /\ Len(stack) \in Nat \ {0}
  BY <1>1, TopFrame DEF IInv
<1>3. Len(stack) = 1 /\ r \in Resources
  BY <1>1, <1>2 DEF FrameOK
<1>4. /\ Event("Other", Null) \in Frames
      /\ Event("Other", Null).kind = "Event" /\ Event("Other", Null).name = "Other"
      /\ Event("Other", Null).rsrc = Null /\ Event("Other", Null).cur = Null
      /\ \A s \in Event("Other", Null).todo : <<"Other", s>> \in handlers
  BY EventFrame DEF IInv, Events
<1>5. /\ stack' \in Seq(Frames) /\ Len(stack') = 1
      /\ stack'[1] = Event("Other", Null)
  BY <1>1, <1>4, Single
<1>6. FrameOK(stack[1], 1)'
  BY <1>1, <1>4, <1>5 DEF FrameOK, Events
<1>7. StackOK'
  BY <1>5, <1>6 DEF StackOK
<1>8. Types' /\ HandlersAlive' /\ Remembered'
  BY <1>1, <1>3 DEF IInv, Types, HandlersAlive, Remembered, made
<1>9. \A q \in Resources : StartingAt(q) => q = r
  BY <1>2, <1>3 DEF StartingAt
<1>10. Gone'
  BY <1>1, <1>3, <1>9 DEF IInv, Types, Gone, Active, made
<1> QED BY <1>7, <1>8, <1>10 DEF IInv

\* A walk is over.
LEMMA DispatchedStep == IInv /\ Dispatched => IInv'
<1> SUFFICES ASSUME IInv, Dispatched PROVE IInv'
  OBVIOUS
<1>1. /\ stack # <<>> /\ Top.kind = "Event" /\ stack' = Pop
      /\ UNCHANGED <<tables, made, fault>>
  BY DEF Dispatched, Between
<1>2. Top = stack[Len(stack)] /\ Len(stack) \in Nat \ {0}
  BY <1>1, TopFrame DEF IInv
<1>3. /\ stack' \in Seq(Frames) /\ Len(stack') = Len(stack) - 1
      /\ \A i \in 1 .. Len(stack) - 1 : stack'[i] = stack[i]
  BY <1>1, Popped DEF IInv
<1>4. ASSUME NEW i \in 1 .. Len(stack) - 1 PROVE FrameOK(stack[i], i)'
  <2>1. FrameOK(stack[i], i) /\ stack'[i] = stack[i]
    BY <1>2, <1>3 DEF IInv, StackOK
  <2> QED BY <1>1, <2>1 DEF FrameOK, ScriptsOf, tables
<1>5. StackOK'
  BY <1>3, <1>4 DEF StackOK
<1>6. \A q \in Resources : StartingAt(q)' <=> StartingAt(q)
  BY <1>1, <1>2, <1>3 DEF StartingAt
<1>7. fault' \in {"None", "Iterator"}
  BY <1>1 DEF IInv, Types
<1> QED BY <1>1, <1>5, <1>6, <1>7, TablesKept

\* A resource is stopped.
LEMMA StoppedStep == IInv /\ Stopped => IInv'
<1> SUFFICES ASSUME IInv, Stopped PROVE IInv'
  OBVIOUS
<1> DEFINE r == Top.rsrc
<1>1. /\ stack # <<>> /\ Top.kind = "Event" /\ r # Null /\ stack' = Pop
      /\ handlers' = ClearResource(r) /\ vm' = vm \ ScriptsOf(r)
      /\ status' = [status EXCEPT ![r] = "Stopped"]
      /\ creator' = ClearCreateContext(r)
      /\ create_ctx' = [create_ctx EXCEPT ![r] = {}]
      /\ UNCHANGED fault
  BY DEF Stopped, Between
<1>2. /\ FrameOK(Top, Len(stack)) /\ Top = stack[Len(stack)]
      /\ Len(stack) \in Nat \ {0} /\ Top \in Frames
  BY <1>1, TopFrame DEF IInv
<1>3. Len(stack) = 1 /\ r \in Resources
  BY <1>1, <1>2 DEF FrameOK, Frames
<1>4. stack' \in Seq(Frames) /\ Len(stack') = 0
  BY <1>1, <1>3, Popped DEF IInv
<1>5. StackOK'
  BY <1>4 DEF StackOK
<1>6. Types'
  BY <1>1, <1>3 DEF IInv, Types, ClearResource, ClearCreateContext
<1>7. HandlersAlive'
  BY <1>1 DEF IInv, Types, HandlersAlive, ClearResource, ScriptsOf
<1>8. Remembered'
  BY <1>1, <1>3 DEF IInv, Types, Remembered, ClearCreateContext
<1>9. \A q \in Resources : ~StartingAt(q)
  BY <1>1, <1>2, <1>3 DEF StartingAt
<1>10. Gone'
  BY <1>1, <1>3, <1>9 DEF IInv, Types, Gone, Active, ScriptsOf
<1> QED BY <1>5, <1>6, <1>7, <1>8, <1>10 DEF IInv

-----------------------------------------------------------------------------
\* The frame of the script that calls.
LEMMA Caller ==
    ASSUME IInv, NEW s \in Scripts, Calls(s)
    PROVE  /\ stack # <<>> /\ s \in vm /\ Top = stack[Len(stack)]
           /\ Top \in Frames /\ Len(stack) \in Nat \ {0}
           /\ DOMAIN stack = 1 .. Len(stack)
           /\ Called \in Frames
           /\ Called.kind = Top.kind /\ Called.name = Top.name
           /\ Called.rsrc = Top.rsrc /\ Called.cur = Top.cur
           /\ Called.todo = Top.todo
<1>1. stack # <<>> /\ Top.cur = s /\ Top.calls > 0
  BY DEF Calls
<1>2. /\ Top \in Frames /\ FrameOK(Top, Len(stack)) /\ Top = stack[Len(stack)]
      /\ Len(stack) \in Nat \ {0} /\ DOMAIN stack = 1 .. Len(stack)
  BY <1>1, TopFrame DEF IInv
<1>3. s \in vm
  BY <1>1, <1>2, NullAssumption DEF FrameOK
<1>4. /\ Called \in Frames
      /\ Called.kind = Top.kind /\ Called.name = Top.name
      /\ Called.rsrc = Top.rsrc /\ Called.cur = Top.cur
      /\ Called.todo = Top.todo
  BY <1>1, <1>2, BoundsAssumption DEF Called, Frames
<1> QED BY <1>1, <1>2, <1>3, <1>4

\* A call that changes what the walks still have to visit.
LEMMA TodosChanged ==
    ASSUME IInv, NEW s \in Scripts, Calls(s),
           NEW todos \in [1 .. Len(stack) -> SUBSET Scripts],
           stack' = [i \in 1 .. Len(stack) |->
                       [SetTop(Called)[i] EXCEPT !.todo = todos[i]]],
           UNCHANGED <<status, vm, fault>>,
           \A i \in 1 .. Len(stack) :
              /\ stack[i].kind = "Start" => todos[i] \subseteq stack[i].todo
              /\ (stack[i].kind = "Event" /\ fault = "None") =>
                    \A x \in todos[i] : <<stack[i].name, x>> \in handlers'
    PROVE  StackOK' /\ \A r \in Resources : StartingAt(r)' <=> StartingAt(r)
<1>1. /\ stack # <<>> /\ Top = stack[Len(stack)] /\ Called \in Frames
      /\ Called.kind = Top.kind /\ Called.name = Top.name
      /\ Called.rsrc = Top.rsrc /\ Called.cur = Top.cur
      /\ Len(stack) \in Nat \ {0}
  BY Caller
<1>2. \A i \in 1 .. Len(stack) :
         SetTop(Called)[i] = IF i = Len(stack) THEN Called ELSE stack[i]
  BY <1>1, TopChanged DEF IInv
<1>3. \A i \in 1 .. Len(stack) : stack[i] \in Frames /\ FrameOK(stack[i], i)
  BY DEF IInv, StackOK, FrameOK
<1>4. ASSUME NEW i \in 1 .. Len(stack)
      PROVE  /\ stack'[i] \in Frames
             /\ stack'[i].kind = stack[i].kind /\ stack'[i].name = stack[i].name
             /\ stack'[i].rsrc = stack[i].rsrc /\ stack'[i].cur = stack[i].cur
             /\ stack'[i].todo = todos[i]
  <2> DEFINE g == SetTop(Called)[i]
  <2>1. /\ g \in Frames /\ g.kind = stack[i].kind /\ g.name = stack[i].name
        /\ g.rsrc = stack[i].rsrc /\ g.cur = stack[i].cur
    BY <1>1, <1>2, <1>3
  <2>2. stack'[i] = [g EXCEPT !.todo = todos[i]] /\ todos[i] \in SUBSET Scripts
    OBVIOUS
  <2> HIDE DEF g
  <2> QED BY <2>1, <2>2 DEF Frames
<1>5. Len(stack) \in Nat /\ Len(stack') = Len(stack) /\ stack' \in Seq(Frames)
  <2>1. \A i \in 1 .. Len(stack) :
           [SetTop(Called)[i] EXCEPT !.todo = todos[i]] \in Frames
    BY <1>4
  <2>2. stack' \in [1 .. Len(stack) -> Frames]
    BY <2>1
  <2>3. stack' \in Seq(Frames)
    BY <1>1, <2>2, SeqDef
  <2>4. DOMAIN stack' = 1 .. Len(stack) /\ DOMAIN stack' = 1 .. Len(stack')
        /\ Len(stack') \in Nat
    BY <2>3, <2>2, LenProperties
  <2> QED BY <1>1, <2>3, <2>4
<1>6. ASSUME NEW i \in 1 .. Len(stack) PROVE FrameOK(stack[i], i)'
  <2>1. FrameOK(stack[i], i)
    BY <1>3
  <2> QED BY <1>4, <2>1 DEF FrameOK, ScriptsOf
<1>7. StackOK'
  BY <1>5, <1>6 DEF StackOK
<1> QED BY <1>4, <1>5, <1>7 DEF StartingAt

\* What a step that changes the handlers and the stack has to show.
LEMMA HandlersChanged ==
    ASSUME IInv, UNCHANGED <<vm, status, made, fault>>,
           handlers' \subseteq Events \X Scripts, \A h \in handlers' : h[2] \in vm,
           StackOK', \A r \in Resources : StartingAt(r)' <=> StartingAt(r)
    PROVE  IInv'
<1>1. Types' /\ HandlersAlive' /\ Remembered'
  BY DEF IInv, Types, HandlersAlive, Remembered, made
<1>2. Gone'
  BY DEF IInv, Gone, Active, made
<1> QED BY <1>1, <1>2 DEF IInv

\* What a walk may have to call after an insertion is in the table.
LEMMA InsertionsRegistered ==
    ASSUME IInv, fault = "None", NEW s \in Scripts, NEW e \in Events,
           NEW i \in 1 .. Len(stack),
           NEW todo \in Insertions(stack[i], s, e)
    PROVE  /\ stack[i].kind = "Start" => todo \subseteq stack[i].todo
           /\ stack[i].kind = "Event" =>
                 \A x \in todo : <<stack[i].name, x>> \in handlers \union {<<e, s>>}
<1>1. FrameOK(stack[i], i)
  BY DEF IInv, StackOK
<1>2. CASE ~Walks(stack[i], e)
  BY <1>1, <1>2 DEF Insertions, FrameOK
<1>3. CASE Walks(stack[i], e)
  <2>1. \/ todo = stack[i].todo \/ todo = stack[i].todo \union {s}
        \/ todo \in Rehashed(stack[i], s, e)
    BY <1>3 DEF Insertions
  <2>2. \A x \in todo : x \in stack[i].todo \/ x = s \/ x \in HandlersOf(e)
    BY <2>1 DEF Rehashed, RestOfVector
  <2> QED BY <1>1, <1>3, <2>2 DEF Walks, FrameOK, HandlersOf
<1> QED BY <1>2, <1>3

\* A handler is added: the walks go on where they were, or in a new order.
LEMMA AddStep ==
    ASSUME IInv, NEW s \in Scripts, NEW e \in Events, AddEvent(s, e)
    PROVE  IInv'
<1>1. /\ Calls(s) /\ handlers' = handlers \union {<<e, s>>}
      /\ fault = "None" /\ UNCHANGED <<vm, status, made, fault>>
  BY DEF AddEvent, Calls
<1>2. s \in vm /\ DOMAIN stack = 1 .. Len(stack)
  BY <1>1, Caller
<1>3. PICK todos \in [1 .. Len(stack) -> SUBSET Scripts] :
        /\ \A i \in 1 .. Len(stack) : todos[i] \in Insertions(stack[i], s, e)
        /\ stack' = [i \in 1 .. Len(stack) |->
                       [SetTop(Called)[i] EXCEPT !.todo = todos[i]]]
  BY <1>2 DEF AddEvent
<1>4. ASSUME NEW i \in 1 .. Len(stack)
      PROVE  /\ stack[i].kind = "Start" => todos[i] \subseteq stack[i].todo
             /\ stack[i].kind = "Event" =>
                   \A x \in todos[i] : <<stack[i].name, x>> \in handlers'
  <2>1. todos[i] \in Insertions(stack[i], s, e)
    BY <1>3
  <2>2. /\ stack[i].kind = "Start" => todos[i] \subseteq stack[i].todo
        /\ stack[i].kind = "Event" =>
              \A x \in todos[i] : <<stack[i].name, x>> \in handlers \union {<<e, s>>}
    BY <1>1, <2>1, InsertionsRegistered
  <2> QED BY <1>1, <2>2
<1>5. StackOK' /\ \A r \in Resources : StartingAt(r)' <=> StartingAt(r)
  BY <1>1, <1>3, <1>4, TodosChanged
<1>6. handlers' \subseteq Events \X Scripts /\ \A h \in handlers' : h[2] \in vm
  BY <1>1, <1>2 DEF IInv, Types, HandlersAlive
<1> QED BY <1>1, <1>5, <1>6, HandlersChanged

\* A handler is removed, and visited by no walk any more.
LEMMA RemoveStep ==
    ASSUME IInv, NEW s \in Scripts, NEW e \in Events, RemoveEvent(s, e)
    PROVE  IInv'
<1>1. /\ Calls(s) /\ handlers' = handlers \ {<<e, s>>}
      /\ stack' = [i \in DOMAIN stack |->
            [SetTop(Called)[i] EXCEPT !.todo = Unvisited(stack[i], s, e)]]
      /\ UNCHANGED <<vm, status, made, fault>>
  BY DEF RemoveEvent
<1> DEFINE todos == [i \in 1 .. Len(stack) |-> Unvisited(stack[i], s, e)]
<1>2. \A i \in 1 .. Len(stack) : stack[i] \in Frames /\ FrameOK(stack[i], i)
  BY DEF IInv, StackOK, FrameOK
<1>3. todos \in [1 .. Len(stack) -> SUBSET Scripts]
  BY <1>2 DEF Frames, Unvisited
<1>4. stack' = [i \in 1 .. Len(stack) |->
                  [SetTop(Called)[i] EXCEPT !.todo = todos[i]]]
  BY <1>1, Caller
<1>5. ASSUME NEW i \in 1 .. Len(stack)
      PROVE  /\ stack[i].kind = "Start" => todos[i] \subseteq stack[i].todo
             /\ (stack[i].kind = "Event" /\ fault = "None") =>
                   \A x \in todos[i] : <<stack[i].name, x>> \in handlers'
  BY <1>1, <1>2 DEF Unvisited, Walks, FrameOK
<1>6. StackOK' /\ \A r \in Resources : StartingAt(r)' <=> StartingAt(r)
  <2> HIDE DEF todos
  <2> QED BY <1>1, <1>3, <1>4, <1>5, TodosChanged
<1>7. handlers' \subseteq Events \X Scripts /\ \A h \in handlers' : h[2] \in vm
  BY <1>1 DEF IInv, Types, HandlersAlive
<1> QED BY <1>1, <1>6, <1>7, HandlersChanged

\* A script triggers an event.
LEMMA TriggerStep ==
    ASSUME IInv, NEW s \in Scripts, NEW e \in Events, TriggerEvent(s, e)
    PROVE  IInv'
<1> DEFINE below == SetTop(Called)
           f == Event(e, Null)
<1>1. Calls(s) /\ stack' = Append(below, f) /\ UNCHANGED <<tables, made, fault>>
  BY DEF TriggerEvent
<1>2. /\ stack # <<>> /\ Top = stack[Len(stack)] /\ Called \in Frames
      /\ Called.kind = Top.kind /\ Called.name = Top.name
      /\ Called.rsrc = Top.rsrc /\ Called.cur = Top.cur
      /\ Called.todo = Top.todo
      /\ Len(stack) \in Nat \ {0}
  BY <1>1, Caller
<1>3. /\ below \in Seq(Frames) /\ Len(below) = Len(stack)
      /\ \A i \in 1 .. Len(stack) :
           below[i] = IF i = Len(stack) THEN Called ELSE stack[i]
  BY <1>2, TopChanged DEF IInv
<1>4. /\ f \in Frames /\ f.kind = "Event" /\ f.name = e
      /\ f.rsrc = Null /\ f.cur = Null
      /\ \A x \in f.todo : <<e, x>> \in handlers
  BY EventFrame DEF IInv
<1> HIDE DEF below, f
<1>5. /\ stack' \in Seq(Frames) /\ Len(stack') = Len(stack) + 1
      /\ \A i \in 1 .. Len(stack) : stack'[i] = below[i]
      /\ stack'[Len(stack) + 1] = f
  BY <1>1, <1>3, <1>4, AppendProperties
<1>6. ASSUME NEW i \in 1 .. Len(stack) PROVE FrameOK(stack[i], i)'
  <2>1. FrameOK(stack[i], i)
    BY DEF IInv, StackOK
  <2>2. /\ stack'[i] \in Frames
        /\ stack'[i].kind = stack[i].kind /\ stack'[i].name = stack[i].name
        /\ stack'[i].rsrc = stack[i].rsrc /\ stack'[i].cur = stack[i].cur
        /\ stack'[i].todo = stack[i].todo
    BY <1>2, <1>3, <1>5, <2>1 DEF FrameOK
  <2> QED BY <1>1, <2>1, <2>2 DEF FrameOK, ScriptsOf, tables
<1>7. ASSUME NEW i \in Nat, i = Len(stack) + 1 PROVE FrameOK(stack[i], i)'
  <2>1. stack'[i] = f
    BY <1>5, <1>7
  <2> QED BY <1>1, <1>4, <2>1 DEF FrameOK, tables
<1>8. StackOK'
  <2>1. \A i \in 1 .. Len(stack') : i \in 1 .. Len(stack) \/ i = Len(stack) + 1
    BY <1>2, <1>5
  <2> QED BY <1>5, <1>6, <1>7, <2>1 DEF StackOK
<1>9. \A r \in Resources : StartingAt(r)' <=> StartingAt(r)
  <2>1. \A i \in 1 .. Len(stack) :
           stack'[i].kind = stack[i].kind /\ stack'[i].rsrc = stack[i].rsrc
    BY <1>2, <1>3, <1>5
  <2>2. stack'[Len(stack) + 1].kind # "Start"
    BY <1>4, <1>5
  <2>3. 1 .. Len(stack') = (1 .. Len(stack)) \union {Len(stack) + 1}
    BY <1>2, <1>5
  <2> QED BY <2>1, <2>2, <2>3 DEF StartingAt
<1>10. fault' \in {"None", "Iterator"}
  BY <1>1 DEF IInv, Types
<1> QED BY <1>1, <1>8, <1>9, <1>10, TablesKept

\* A vector is edited under a walk of it: the tables change, and nothing is
\* said of what the walks hold.
LEMMA EditStep ==
    ASSUME IInv, NEW s \in Scripts, NEW e \in Events, EditUnderWalk(s, e)
    PROVE  IInv'
<1>1. /\ Calls(s) /\ handlers' \subseteq handlers \union {<<e, s>>}
      /\ stack' = SetTop(Called) /\ fault' = "Iterator"
      /\ UNCHANGED <<vm, status, made>>
  BY DEF EditUnderWalk
<1>2. /\ stack # <<>> /\ s \in vm /\ Called \in Frames
      /\ Called.kind = Top.kind /\ Called.name = Top.name
      /\ Called.rsrc = Top.rsrc /\ Called.cur = s
      /\ Called.todo \subseteq Top.todo
  BY <1>1, Caller DEF Calls
<1>3. fault' # "None"
  BY <1>1
<1>4. StackOK' /\ \A r \in Resources : StartingAt(r)' <=> StartingAt(r)
  BY <1>1, <1>2, <1>3, SameWalk
<1>5. Types' /\ HandlersAlive' /\ Remembered'
  BY <1>1, <1>2 DEF IInv, Types, HandlersAlive, Remembered, made
<1>6. Gone'
  BY <1>1, <1>4 DEF IInv, Gone, Active, made
<1> QED BY <1>4, <1>5, <1>6 DEF IInv

\* A player destroys an object.
LEMMA DestroyByPlayerStep ==
    ASSUME IInv, NEW o \in Objects, DestroyByPlayer(o)
    PROVE  IInv'
<1>1. StackOK' /\ \A r \in Resources : StartingAt(r)' <=> StartingAt(r)
  BY StackKept DEF DestroyByPlayer
<1>2. Types' /\ HandlersAlive' /\ Remembered'
  BY DEF DestroyByPlayer, IInv, Types, HandlersAlive, Remembered, tables
<1>3. Gone'
  BY <1>1 DEF DestroyByPlayer, IInv, Gone, Active, tables
<1> QED BY <1>1, <1>2, <1>3 DEF IInv

\* Nothing happens.
LEMMA StutterStep == IInv /\ UNCHANGED vars => IInv'
<1> SUFFICES ASSUME IInv, UNCHANGED vars PROVE IInv'
  OBVIOUS
<1>1. UNCHANGED <<tables, made, stack, fault>>
  BY DEF vars
<1>2. StackOK' /\ \A r \in Resources : StartingAt(r)' <=> StartingAt(r)
  BY <1>1, StackKept
<1>3. fault' \in {"None", "Iterator"}
  BY <1>1 DEF IInv, Types
<1> QED BY <1>1, <1>2, <1>3, TablesKept

\* Every step keeps the invariant.
LEMMA StepInv == IInv /\ [Next]_vars => IInv'
<1> SUFFICES ASSUME IInv, [Next]_vars PROVE IInv'
  OBVIOUS
<1>1. ASSUME NEW r \in Resources, StartResource(r) PROVE IInv'
  BY <1>1, StartStep
<1>2. ASSUME NEW r \in Resources, StopResource(r) PROVE IInv'
  BY <1>2, DispatchStep
<1>3. ASSUME NEW s \in Scripts, StartScript(s) PROVE IInv'
  BY <1>3, StartScriptStep
<1>4. ASSUME NEW s \in Scripts, CallHandler(s) \/ PassOver(s) PROVE IInv'
  BY <1>4, CallStep
<1>5. ASSUME NEW s \in Scripts, ScriptCalls(s) PROVE IInv'
  <2>1. ASSUME NEW e \in Events, AddEvent(s, e) PROVE IInv'
    BY <2>1, AddStep
  <2>2. ASSUME NEW e \in Events, RemoveEvent(s, e) PROVE IInv'
    BY <2>2, RemoveStep
  <2>3. ASSUME NEW e \in Events, EditUnderWalk(s, e) PROVE IInv'
    BY <2>3, EditStep
  <2>4. ASSUME NEW e \in Events, TriggerEvent(s, e) PROVE IInv'
    BY <2>4, TriggerStep
  <2>5. ASSUME NEW o \in Objects, CreateObject(s, o) \/ DestroyObject(s, o)
        PROVE IInv'
    BY <2>5, ObjectStep
  <2> QED BY <1>5, <2>1, <2>2, <2>3, <2>4, <2>5 DEF ScriptCalls
<1>6. CASE Started
  BY <1>6, StartedStep
<1>7. CASE Stopped
  BY <1>7, StoppedStep
<1>8. CASE Dispatch
  BY <1>8, DispatchStep
<1>9. CASE Dispatched
  BY <1>9, DispatchedStep
<1>10. CASE Return
  <2>1. PICK s : s \in Scripts
    <3>1. stack # <<>> /\ Top.cur # Null
      BY <1>10 DEF Return
    <3>2. Top \in Frames
      BY <3>1, TopFrame DEF IInv
    <3> QED BY <3>1, <3>2 DEF Frames
  <2> QED BY <1>10, <2>1, CallStep
<1>11. ASSUME NEW o \in Objects, DestroyByPlayer(o) PROVE IInv'
  BY <1>11, DestroyByPlayerStep
<1>12. CASE UNCHANGED vars
  BY <1>12, StutterStep
<1> QED BY <1>1, <1>2, <1>3, <1>4, <1>5, <1>6, <1>7, <1>8, <1>9, <1>10, <1>11,
           <1>12 DEF Next

LEMMA Invariance == Spec => []IInv
<1>1. Init => IInv
  BY InitInv
<1>2. IInv /\ [Next]_vars => IInv'
  BY StepInv
<1> QED BY <1>1, <1>2, PTL DEF Spec

-----------------------------------------------------------------------------
\* The tables and the stack of walks have the types and the shape that
\* resource_system.cpp gives them: only the outermost walk starts or stops a
\* resource, which has the status that belongs to it.
THEOREM ResourcesTypeCorrect == Spec => []TypeOK
<1>1. IInv => TypeOK
  <2> SUFFICES ASSUME IInv PROVE TypeOK
    OBVIOUS
  <2>1. stack \in Seq(Frames) /\ DOMAIN stack = 1 .. Len(stack)
    BY LenProperties DEF IInv, StackOK
  <2>2. ASSUME NEW i \in 1 .. Len(stack) PROVE Placed(i)
    BY DEF IInv, StackOK, FrameOK, Placed
  <2> QED BY <2>1, <2>2 DEF TypeOK, IInv, Types
<1> QED BY <1>1, Invariance, PTL

\* trigger_event calls only scripts that are alive and, at any depth of nested
\* triggerEvent calls and whatever addEvent and removeEvent do to the maps it
\* walks, goes on only to handlers that are registered, until a handler edits
\* the very vector in which its own walk, or one below it, stands.
THEOREM CallsAlwaysLive == Spec => []CallsLive
<1>1. IInv => CallsLive
  <2> SUFFICES ASSUME IInv PROVE CallsLive
    OBVIOUS
  <2>1. DOMAIN stack = 1 .. Len(stack)
    BY LenProperties DEF IInv, StackOK
  <2>2. \A i \in 1 .. Len(stack) : FrameOK(stack[i], i)
    BY DEF IInv, StackOK
  <2> QED BY <2>1, <2>2 DEF CallsLive, IInv, HandlersAlive, FrameOK
<1> QED BY <1>1, Invariance, PTL

\* What Resource::stop and clear_resource leave behind: nothing.
THEOREM StoppedClean == Spec => []StoppedLeavesNothing
<1>1. IInv => StoppedLeavesNothing
  <2> SUFFICES ASSUME IInv, NEW r \in Resources,
                      status[r] = "Stopped", ~Starting(r)
      PROVE  /\ ScriptsOf(r) \intersect vm = {}
             /\ \A h \in handlers : Owner[h[2]] # r
             /\ create_ctx[r] = {} /\ \A o \in Objects : creator[o] # r
    BY DEF StoppedLeavesNothing
  <2>1. DOMAIN stack = 1 .. Len(stack)
    BY LenProperties DEF IInv, StackOK
  <2>2. ~Active(r)
    BY <2>1 DEF Starting, Active, StartingAt
  <2>3. create_ctx[r] = {} /\ \A s \in vm : Owner[s] # r
    BY <2>2 DEF IInv, Gone
  <2>4. \A o \in Objects : creator[o] # r
    BY <2>3, NullAssumption DEF IInv, Remembered
  <2> QED BY <2>3, <2>4 DEF IInv, HandlersAlive, ScriptsOf
<1> QED BY <1>1, Invariance, PTL
=============================================================================
