SPECIFICATION Spec
CONSTANTS
    TcpSlots = {"tcp1"}
    UdpSlots = {"udp1"}
    Addrs = {"a", "b", "v6", "name"}
    Raw = {"name"}
    V6 = {"v6"}
    Script <- MCScript
    Contents <- MCContents
    Subnets = {"net"}
    MaxTunnel = 2
    MaxListener = 3
    MaxFlow = 2
    MaxConn = 1
    MaxEvent = 4
INVARIANTS
    TypeOK
    ListenersFollowTable
    FlowsAccounted
    BlockApplied
    TableAsAsked
    
CHECK_DEADLOCK FALSE
