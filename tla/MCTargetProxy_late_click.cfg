SPECIFICATION Spec
CONSTANTS
    c0 = c0  c1 = c1  c2 = c2  c3 = c3  i1 = i1  i2 = i2
    NoConn = NoConn
    Conns <- TwoConns
    IPs <- OneIP
    IpOf <- PairIpOf
    SecurityEnabled = TRUE
    DenyIfTimeout = TRUE
    ApprovedIpReuse = FALSE
    MaxPending = 2
    MaxPendingPerIp = 1
    MayStop = FALSE
PROPERTIES
    AcceptedClickReachesConnection
CHECK_DEADLOCK FALSE
