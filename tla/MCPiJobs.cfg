\* Two uploads at a time, two jobs, one raising commit and one restart.
SPECIFICATION FairSpec
CONSTANTS
    u1 = u1
    u2 = u2
    n1 = n1
    n2 = n2
    Uploads <- TwoUploads
    Names <- OneName
    JobCount = 2
    MaxRestarts = 1
    MaxErrors = 1
INVARIANTS
    RunningIsOwned
    InputIsWhole
    ProgressAgrees
PROPERTIES
    KeepsLifecycle
    QueuedIsFinished
\* The number of jobs is bounded: at the end none is left to create.
CHECK_DEADLOCK FALSE
