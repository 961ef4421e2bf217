CONSTANTS
    p1 = p1
    p2 = p2
    i1 = i1
    i2 = i2
    Replicas <- TwoReplicas
    Ips <- TwoIps
    MaxChanges = 3
    MaxCrashes = 1
SPECIFICATION FairSpec
INVARIANTS
    TypeOK
    AcknowledgedLast
    TakesEffect
    AloneLosesNothing
PROPERTY ReplicasConverge
CHECK_DEADLOCK FALSE
