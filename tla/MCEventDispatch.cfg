SPECIFICATION DispatchSpec
CONSTANTS
    MaxDepth = 4
    MaxId = 6
    MaxCancelled = 5
INVARIANTS VerdictMatches StackOfRunningEvents
PROPERTIES ImplementsEvents
