SPECIFICATION FairSpec
CONSTANTS
  v1 = v1
  n1 = n1
  c1 = c1
  Verifications <- OneConnection
  Notices <- OneNotice
  Controls <- OneControl
  Ttl = 1
  ControlCap = 0
  Retention = 0
  Horizon = 2
INVARIANT TypeOK
INVARIANT DeletedOnce
INVARIANT LastChoiceWins
PROPERTY UsableLinksStay
PROPERTY ImplementsOneTimeLinks
PROPERTY DeadLinksLeaveChat
CHECK_DEADLOCK FALSE
