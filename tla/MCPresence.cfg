SPECIFICATION FairSpec
CONSTANTS
    Sock = {s1, s2}
    FirstTime = TRUE
    Faults = {"connect", "crash"}
\* Sockets that a fault leaves in the table are not used again: the instance
\* can run out of connections.
CHECK_DEADLOCK FALSE
INVARIANTS TypeOK OnlineIsWatched
PROPERTY GoneIsShown
