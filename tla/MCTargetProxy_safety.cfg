SPECIFICATION AfterSessionSpec
CONSTANTS
    c0 = c0  c1 = c1  c2 = c2  c3 = c3  i1 = i1  i2 = i2
    NoConn = NoConn
    Conns <- FourConns
    IPs <- TwoIPs
    IpOf <- MixedIpOf
    SecurityEnabled = TRUE
    DenyIfTimeout = TRUE
    ApprovedIpReuse = FALSE
    MaxPending = 2
    MaxPendingPerIp = 1
    MayStop = FALSE
SYMMETRY PairSymmetry
INVARIANTS
    TypeOK
    OneUpstream
    PoolBounded
    NothingLeaks
    SessionNeedsClick
    ActiveCountExact
PROPERTIES
    CutOnlySameIp
CHECK_DEADLOCK FALSE
