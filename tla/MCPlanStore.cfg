\* Two requests at a time about one plan, and a restart.
SPECIFICATION Spec
CONSTANTS
    t1 = t1
    t2 = t2
    p1 = p1
    Threads <- TwoThreads
    Plans <- OnePlan
    NoThread = NoThread
    MaxRestarts = 1
INVARIANTS
    RemovedIsFinal
    NoPackageLeaks
    Consistent
PROPERTIES
    OfferedSurvivesRestart
