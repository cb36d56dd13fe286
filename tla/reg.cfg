\* Handshakes over four chain ids, with one drop or server command, with and
\* without chain ids in the answers.
CONSTANTS
    MaxChain = 4
    MaxAttempts = 2
    MaxInbox = 2
    MaxEvents = 1
    Unmarked = {1, 2, 3}
SPECIFICATION FairSpec
INVARIANTS
    TypeOK
    BuiltOnce
    DoubleStopWindow
    HandshakeAlive
PROPERTIES
    EventuallyConnected
