\* What is left of the recovery after a duplicated answer and a drop.
CONSTANTS
    MaxChain = 5
    MaxAttempts = 2
    MaxInbox = 2
    MaxEvents = 1
    Unmarked = {}
SPECIFICATION Spec
INVARIANTS
    RecoveryContinues
