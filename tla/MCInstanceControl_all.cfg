SPECIFICATION FairSpec
CONSTANTS
    h1 = h1  h2 = h2
    Idle = Idle  Nobody = Nobody
    Clients <- TwoClients
    MaxActionRetries = 3
    QueryMayRaise = TRUE
INVARIANTS
    TypeOK
    StartReportedIsStarted
PROPERTIES
    NoStopDuringStartup
    EnsureReturns
    IdleInstanceStops
