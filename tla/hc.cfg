SPECIFICATION FairSpec
CONSTANTS
    MaxTarget = 2
    MaxMonitor = 2
    HealthyThreshold = 2
    UnhealthyThreshold = 2
INVARIANTS
    StatusAgrees
    EnabledIsMonitored
PROPERTIES
    CancelledStops
CHECK_DEADLOCK FALSE
