\* Two runs, one exit node, two changes.
CONSTANTS
    ExitNodes = {n1}
    MaxRuns = 2
    MaxEdits = 2
    Intervals <- LowPower
    Default <- Normal
SPECIFICATION FairSpec
INVARIANTS
    TypeOK
    RunningHasGoroutine
    NoLostUpdate
PROPERTIES
    UpdateServed
