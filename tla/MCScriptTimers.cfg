SPECIFICATION FairSpec
CONSTANTS
    Resources = {r1, r2}
    Timers = {t1, t2}
    MaxTimes = 2
    Null = Null
CHECK_DEADLOCK FALSE
INVARIANTS TimersLive KilledFiresOnce
PROPERTIES KilledGetsFreed
