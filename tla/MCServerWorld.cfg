SPECIFICATION Spec
CONSTANTS
    Obj = {o1, o2, o3}
    Nids = {n1, n2, n3}
    Slots = {s1, s2}
    Addrs = {a1, a2}
    Seats = {driver, passenger}
    Driver = driver
    SpawnTypes = {"Vehicle"}
    Null = Null
SYMMETRY Symmetry
CHECK_DEADLOCK FALSE
INVARIANTS TypeOK NidCoherence SeatMapSound PlayersReachable
PROPERTIES UnlockedByItsDriver LockedStreamerIsNewDriver
