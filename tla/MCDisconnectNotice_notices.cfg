SPECIFICATION FairSpec
CONSTANTS
  c1 = c1
  c2 = c2
  c3 = c3
  Conns <- ThreeConnections
INVARIANT TypeOK
INVARIANT SessionClearsNotices
INVARIANT NoNoticeForgotten
PROPERTY OnlyLastSessionAnnounced
PROPERTY LastSessionIsAnnounced
CHECK_DEADLOCK FALSE
