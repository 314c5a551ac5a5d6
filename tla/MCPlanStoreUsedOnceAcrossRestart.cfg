\* One request at a time and one restart: TLC finds the crash.
SPECIFICATION Spec
CONSTANTS
    t1 = t1
    t2 = t2
    p1 = p1
    Threads <- OneThread
    Plans <- OnePlan
    NoThread = NoThread
    MaxRestarts = 1
INVARIANTS
    ConfirmedOnce
