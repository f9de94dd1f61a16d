SPECIFICATION Spec
CONSTANTS
    r1 = r1
    r2 = r2
    r3 = r3
    s1 = s1
    s2 = s2
    s3 = s3
    Resources = {r1, r2, r3}
    Scripts = {s1, s2, s3}
    Owner <- ScriptOwner
    Objects = {o1}
    MaxCalls = 2
    MaxDepth = 1
    Null = Null
SYMMETRY Alike
CHECK_DEADLOCK FALSE
INVARIANTS TypeOK CallsLive StoppedLeavesNothing
