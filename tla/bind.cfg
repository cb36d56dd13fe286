SPECIFICATION FairSpec
CONSTANTS
    MaxSocket = 3
    Releasers = {r1, r2}
    MaxReleases = 3
    QueueCap = 2
    DirectRebind = TRUE
INVARIANTS
    NoSocketLeak
    PairCoherent
    NoLostWakeup
    LastReleaseCloses
    NoResurrection
PROPERTIES
    UnusedIsClosed
    CloseEndsReceivers
CHECK_DEADLOCK FALSE
