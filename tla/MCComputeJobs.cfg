\* Two requests about one job at a time, a reload and a restart.
SPECIFICATION FairSpec
CONSTANTS
    t1 = t1
    t2 = t2
    j1 = j1
    Threads <- TwoThreads
    Jobs <- OneJob
    MaxRestarts = 1
INVARIANTS
    RunningIsOwned
    ActivityPaired
    InputsReleased
PROPERTIES
    JobsFinish
    KeepsLifecycle
