SPECIFICATION Spec
CONSTANTS
    Players = {p1, p2, p3}
    Objects = {o1}
    Nids = {1, 2}
    MaxQueue = 2
    Null = Null
SYMMETRY Symmetry
INVARIANTS TypeOK OwnNidNeverNamed DepartedUnlisted SeenPlayersHeld ObjectsMatchView
CHECK_DEADLOCK FALSE
