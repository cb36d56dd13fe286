\* The life of a client over two connections, with one sender.
CONSTANTS
    MaxSession = 2
    Senders = {x1}
SPECIFICATION FairSpec
INVARIANTS
    PumpOwnsConn
    SingleReconnect
    NoOrphanSocket
    FlagsExact
PROPERTIES
    ShutdownCompletes
    HalfOpenDetected
    LossReconnects
