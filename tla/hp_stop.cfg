\* A Stop that the goroutine does not see.
CONSTANTS
    ExitNodes = {n1}
    MaxRuns = 1
    MaxEdits = 0
    Intervals <- LowPower
    Default <- Normal
SPECIFICATION FairSpec
PROPERTIES
    StopEndsGoroutines
