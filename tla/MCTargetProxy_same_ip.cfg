SPECIFICATION Spec
CONSTANTS
    c0 = c0  c1 = c1  c2 = c2  c3 = c3  i1 = i1  i2 = i2
    NoConn = NoConn
    Conns <- ThreeConns
    IPs <- OneIP
    IpOf <- SameIpOf
    SecurityEnabled = TRUE
    DenyIfTimeout = FALSE
    ApprovedIpReuse = TRUE
    MaxPending = 3
    MaxPendingPerIp = 2
    MayStop = FALSE
SYMMETRY SameIpSymmetry
INVARIANTS
    WindowsNeedClick
PROPERTIES
    EvictsOldest
CHECK_DEADLOCK FALSE
