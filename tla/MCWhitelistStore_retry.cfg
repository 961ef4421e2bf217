CONSTANTS
    p1 = p1
    p2 = p2
    i1 = i1
    i2 = i2
    Replicas <- OneProcess
    Ips <- TwoIps
    MaxChanges = 3
    MaxCrashes = 1
SPECIFICATION Spec
INVARIANT PresentIsStored
CHECK_DEADLOCK FALSE
