SPECIFICATION FairAfterSessionSpec
CONSTANTS
    c0 = c0  c1 = c1  c2 = c2  c3 = c3  i1 = i1  i2 = i2
    NoConn = NoConn
    Conns <- ReturningConns
    IPs <- OneIP
    IpOf <- ReturningIpOf
    SecurityEnabled = TRUE
    DenyIfTimeout = TRUE
    ApprovedIpReuse = FALSE
    MaxPending = 2
    MaxPendingPerIp = 1
    MayStop = TRUE
PROPERTIES
    EveryClientSettles
    SlotComesBack
    ImplementsGatedSession
CHECK_DEADLOCK FALSE
