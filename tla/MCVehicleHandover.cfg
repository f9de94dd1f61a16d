SPECIFICATION HandoverSpec
CONSTANTS
    Obj = {o1, o2, o3}
    Nids = {n1, n2}
    Slots = {s1}
    Addrs = {a1}
    Seats = {driver, passenger}
    Driver = driver
    SpawnTypes = {"Vehicle"}
    Blocks = {b1, b2}
    MaxPackets = 2
    Null = Null
CHECK_DEADLOCK FALSE
PROPERTIES DistanceOwnersRefreshed StreamsFollowOwners
