\* Two uploads of one job at a time: TLC finds the stale status.
SPECIFICATION Spec
CONSTANTS
    u1 = u1
    u2 = u2
    n1 = n1
    n2 = n2
    Uploads <- TwoUploads
    Names <- TwoNames
    JobCount = 1
    MaxRestarts = 0
    MaxErrors = 0
PROPERTIES
    QueuedOnlyFromPreparing
\* The number of jobs is bounded: at the end none is left to create.
CHECK_DEADLOCK FALSE
