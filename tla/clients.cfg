SPECIFICATION Spec
CONSTANTS
    Client = "c"
    Sources <- MCSources
    Addrs = {"d", "e", "h", "lo"}
    Services = {"web", "dns", "icmp"}
    Icmp = "icmp"
    Names = {"host", "local", "name"}
    NoName = "none"
    Handlers <- MCHandlers
    MaxSession = 3
    MaxBuffered = 2
    Cap = 2
    MinMerge = 2
    Ports = {"p"}
    NoPort = "zero"
    Tcp = {"web"}
    Web = {"web"}
    Loopback = {"lo"}
    Domains = {"name"}
    Resolve <- MCResolve
    MaxNet = 2
    Nil = Nil
    Loop = Loop
    Closer = Closer
    Configs <- MCConfigs
    Ips = {"x", "y"}
    MaxCert = 1
    MaxCheck = 2
    Budgets <- MCBudgets
INVARIANTS
    ReplyAddress
    DialledAsRuled
    BlockReaches
    BandwidthOnce
PROPERTY
    Ledger
CHECK_DEADLOCK FALSE
