\* Two overlapping requests about one job: TLC finds the race.
SPECIFICATION Spec
CONSTANTS
    t1 = t1
    t2 = t2
    j1 = j1
    Threads <- TwoThreads
    Jobs <- OneJob
    MaxRestarts = 0
PROPERTIES
    CancelledStaysCancelled
