SPECIFICATION Spec
CONSTANTS
    MaxTarget = 1
    MaxMonitor = 2
    HealthyThreshold = 1
    UnhealthyThreshold = 1
INVARIANT OneMonitor
CHECK_DEADLOCK FALSE
