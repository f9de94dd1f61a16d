---------------------------- MODULE EventDispatch ----------------------------
(***************************************************************************)
(* trigger_event and cancel_event of the resource system.  Events nest: a  *)
(* handler may do what triggers the next event (kill a player, remove a    *)
(* client, stop a resource).  One integer names the running event and one  *)
(* stack holds the integers of the cancelled ones; which event a number    *)
(* belongs to is kept nowhere in the code, and here in frames.             *)
(*                                                                         *)
(* Which handlers an event has is left out: between a trigger and its end, *)
(* any sequence of cancellations and nested triggers may happen, and one   *)
(* event may be cancelled any number of times.                             *)
(***************************************************************************)
EXTENDS Integers, Sequences, FiniteSets

CONSTANTS
    MaxDepth,      \* bound on how deep events nest
    MaxId,         \* bound on the event counter, which the code only leaks
    MaxCancelled   \* bound on the stack of cancelled ids

ASSUME EventAssumption ==
    MaxDepth \in Nat /\ MaxId \in Nat /\ MaxCancelled \in Nat

VARIABLES
    id, cancellable,   \* curr_event
    cancelled_events,  \* the stack of cancelled ids, top last
    frames,            \* the trigger_event calls that run, innermost last
    verdict            \* how the last one ended

dispatchVars == <<id, cancellable, cancelled_events, frames, verdict>>

\* interrupted: an event nested in this one has ended.  asked: a handler
\* called cancelEvent before that.  Both are history: no step reads them.
Frame == [id : Int, asked : BOOLEAN, interrupted : BOOLEAN]

\* asked and cancelled: what the event's handlers did, and what its trigger
\* was told; surplus: the leftovers on the stack at that moment.
Verdict == [asked : BOOLEAN, cancelled : BOOLEAN, surplus : Int]

AskedFrames == {k \in 1 .. Len(frames) : frames[k].asked}

\* The leftovers: how many entries of the stack no running event needs.
Surplus == Len(cancelled_events) - Cardinality(AskedFrames)

\* Every variable has its type, and the counter, which starts at -1, never
\* falls behind the number of events that run.
DispatchTypeOK ==
    /\ id \in Int /\ id >= Len(frames) - 1
    /\ cancellable \in BOOLEAN
    /\ cancelled_events \in Seq(Int)
    /\ frames \in Seq(Frame)
    /\ verdict \in Verdict

DispatchInit ==
    /\ id = -1 /\ cancellable = FALSE
    /\ cancelled_events = <<>>
    /\ frames = <<>>
    /\ verdict = [asked |-> FALSE, cancelled |-> FALSE, surplus |-> 0]

Top(s) == s[Len(s)]
Pop(s) == SubSeq(s, 1, Len(s) - 1)

SameId == id
NextId == id + 1

TriggerEvent ==
    /\ Len(frames) < MaxDepth /\ id < MaxId
    /\ id' = NextId
    /\ cancellable' = TRUE
    /\ frames' = Append(frames, [id |-> NextId, asked |-> FALSE, interrupted |-> FALSE])
    /\ UNCHANGED <<cancelled_events, verdict>>

\* cancelEvent from a script, which may run outside of any event.
CancelEvent ==
    /\ cancellable => Len(cancelled_events) < MaxCancelled
    /\ cancelled_events' = IF cancellable THEN Append(cancelled_events, id)
                           ELSE cancelled_events
    /\ frames' = [k \in 1 .. Len(frames) |->
                    IF k = Len(frames)
                    THEN [frames[k] EXCEPT !.asked = @ \/ ~frames[k].interrupted]
                    ELSE frames[k]]
    /\ UNCHANGED <<id, cancellable, verdict>>

\* The condition that ends trigger_event.  The id is decremented only if the
\* stack is not empty: the operands of && are evaluated in order.
SomeCancelled == cancelled_events # <<>>
WasCancelled == cancelled_events # <<>> /\ Top(cancelled_events) = id

IdKept == id
IdAfter == IF cancelled_events = <<>> THEN id ELSE id - 1

StackAfter == IF WasCancelled THEN Pop(cancelled_events) ELSE cancelled_events

EndEvent ==
    /\ frames # <<>>
    /\ cancellable' = FALSE
    /\ id' = IdAfter
    /\ cancelled_events' = StackAfter
    /\ verdict' = [asked |-> Top(frames).asked, cancelled |-> WasCancelled,
                   surplus |-> Surplus]
    /\ frames' = [k \in 1 .. Len(frames) - 1 |->
                    IF k = Len(frames) - 1
                    THEN [frames[k] EXCEPT !.interrupted = TRUE] ELSE frames[k]]

DispatchNext == TriggerEvent \/ CancelEvent \/ EndEvent

DispatchSpec == DispatchInit /\ [][DispatchNext]_dispatchVars

-----------------------------------------------------------------------------
(* Properties                                                              *)

\* trigger_event returns false for exactly the events that a handler cancelled
\* before an event nested in them ended, however they nest: it is wrong only
\* while an event that was cancelled twice has left its id on the stack.
VerdictMatches == verdict.cancelled # verdict.asked => verdict.surplus > 0

CancellationsKept ==
    \A k \in AskedFrames : \E i \in 1 .. Len(cancelled_events) :
        /\ cancelled_events[i] = frames[k].id
        /\ \A j \in i .. Len(cancelled_events) :
             cancelled_events[j] >= frames[k].id

NothingBesides ==
    /\ \A i \in 1 .. Len(cancelled_events) : \E k \in AskedFrames :
         frames[k].id = cancelled_events[i]
    /\ \A i, j \in 1 .. Len(cancelled_events) :
         i < j => cancelled_events[i] < cancelled_events[j]

\* Nothing takes the cancellation of a running event: its id is on the stack,
\* and only ids as large lie above it.  And unless an event was cancelled
\* twice, the stack holds the ids of the cancelled running events, oldest
\* first, and nothing else.
StackOfRunningEvents == CancellationsKept /\ (Surplus = 0 => NothingBesides)

\* The code as an implementation of CancellableEvents.
Events == INSTANCE CancellableEvents
            WITH open <- [k \in 1 .. Len(frames) |->
                            [cancelled |-> frames[k].asked,
                             interrupted |-> frames[k].interrupted]],
                 last <- verdict.cancelled,
                 owed <- Surplus
ImplementsEvents == Events!Spec
=============================================================================
