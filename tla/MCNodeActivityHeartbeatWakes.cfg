\* One client beside the watcher: TLC finds the race of its heartbeat with
\* the sleep callback.
SPECIFICATION FairSpec
CONSTANTS
    c1 = c1
    c2 = c2
    Clients <- OneClient
    IdleTimeout = 2
PROPERTIES
    HeartbeatWakes
