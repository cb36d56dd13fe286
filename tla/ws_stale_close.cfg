\* What a failed ping closes, across a reconnect.
CONSTANTS
    MaxSession = 2
    Senders = {}
SPECIFICATION Spec
PROPERTIES
    PingClosesOwnConn
