-------------------------- MODULE CancellableEvents --------------------------
(***************************************************************************)
(* What trigger_event and cancel_event promise.  Events nest, and a handler *)
(* may cancel the event it runs for, until an event nested in that one has  *)
(* ended: from then on it asks in vain.  The trigger of an event learns     *)
(* whether the event was cancelled.                                        *)
(*                                                                         *)
(* Cancelling an event again is not free: it leaves a cancellation that no  *)
(* event is owed.  A trigger may be told the wrong thing only while there   *)
(* are such leftovers: an event that was not cancelled takes one of them,   *)
(* and one that was cancelled can miss its own, which is then a leftover.   *)
(***************************************************************************)
EXTENDS Naturals, Sequences

VARIABLES
    open,   \* the events being dispatched, outermost first
    last,   \* the verdict of the event that ended last
    owed    \* the leftovers

vars == <<open, last, owed>>

Init == open = <<>> /\ last = FALSE /\ owed = 0

Trigger ==
    /\ open' = Append(open, [cancelled |-> FALSE, interrupted |-> FALSE])
    /\ UNCHANGED <<last, owed>>

Innermost == open[Len(open)]

Cancel ==
    /\ open # <<>> /\ ~Innermost.interrupted /\ ~Innermost.cancelled
    /\ open' = [open EXCEPT ![Len(open)].cancelled = TRUE]
    /\ UNCHANGED <<last, owed>>

CancelAgain ==
    /\ open # <<>> /\ ~Innermost.interrupted /\ Innermost.cancelled
    /\ owed' = owed + 1
    /\ UNCHANGED <<open, last>>

\* The innermost event ends, and interrupts the one around it.
Close ==
    open' = [k \in 1 .. Len(open) - 1 |->
               IF k < Len(open) - 1 THEN open[k]
               ELSE [cancelled |-> open[k].cancelled, interrupted |-> TRUE]]

End ==
    /\ open # <<>>
    /\ Close
    /\ last' = Innermost.cancelled
    /\ UNCHANGED owed

EndWrongly ==
    /\ open # <<>> /\ owed > 0
    /\ Close
    /\ last' = ~Innermost.cancelled
    /\ owed' = IF Innermost.cancelled THEN owed + 1 ELSE owed - 1

Next == Trigger \/ Cancel \/ CancelAgain \/ End \/ EndWrongly

Spec == Init /\ [][Next]_vars
=============================================================================
