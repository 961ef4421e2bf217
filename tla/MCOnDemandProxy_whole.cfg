SPECIFICATION SystemSpec
CONSTANTS
    c1 = c1  c2 = c2  i1 = i1
    NoConn = NoConn  Idle = Idle
    Conns <- TwoConns
    IPs <- OneIP
    IpOf <- PairIpOf
    SecurityEnabled = TRUE
    DenyIfTimeout = TRUE
    ApprovedIpReuse = TRUE
    MaxPending = 1
    MaxPendingPerIp = 1
    MayStop = FALSE
    MaxActionRetries = 1
    QueryMayRaise = TRUE
SYMMETRY PairSymmetry
PROPERTIES
    ImplementsInstanceControl
    StartNeedsClick
    StopHitsLatecomersOnly
CHECK_DEADLOCK FALSE
