SPECIFICATION Spec
CONSTANTS
    h1 = h1  h2 = h2
    Idle = Idle  Nobody = Nobody
    Clients <- OneClient
    MaxActionRetries = 1
    QueryMayRaise = FALSE
PROPERTIES
    StopOnlyWhenIdle
