SPECIFICATION LiveSpec
CONSTANTS
    r1 = r1
    r2 = r2
    f1 = f1
    f2 = f2
    Resources = {r1, r2}
    Files = {f1, f2}
    FilesOf <- TwoFilesAndOne
    Restarted = {r1}
    Edited = {r1, r2}
    Removable = {r1}
    CachedTimes = {0, 3}
    MaxTime = 3
    MaxStops = 1
INVARIANTS TypeOK StartedComplete AnswersSuffice
PROPERTIES StartupEnds UnstoppedRuns
CHECK_DEADLOCK FALSE
