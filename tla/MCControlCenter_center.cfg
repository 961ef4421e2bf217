CONSTANTS
    r1 = r1
    r2 = r2
    r3 = r3
    s1 = s1
    NoRequest = NoRequest
    Requests <- AllRequests
    Sources <- OneSource
    SourceOf <- SourceOfAll
    Retention = 0
    Horizon = 1
SPECIFICATION FairSpec
INVARIANTS
    TypeOK
    PendingIsOnPage
    ReleasedWasDecided
PROPERTIES
    ImplementsRequestGate
