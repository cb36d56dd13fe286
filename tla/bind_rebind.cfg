SPECIFICATION Spec
CONSTANTS
    MaxSocket = 2
    Releasers = {r1}
    MaxReleases = 0
    QueueCap = 1
    DirectRebind = FALSE
INVARIANT ReceiverSurvivesRebind
CHECK_DEADLOCK FALSE
