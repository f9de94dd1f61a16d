SPECIFICATION FairSpec
CHECK_DEADLOCK FALSE
INVARIANTS EndsForCause
PROPERTIES AckWaitEnds
