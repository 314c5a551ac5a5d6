\* Two concurrent clients beside the watcher.
SPECIFICATION FairSpec
CONSTANTS
    c1 = c1
    c2 = c2
    Clients <- TwoClients
    IdleTimeout = 2
INVARIANTS
    ReadyMeansLoaded
    WakeOwnership
    JobsCounted
PROPERTIES
    IdleNodeSleeps
