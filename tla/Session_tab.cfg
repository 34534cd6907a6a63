SPECIFICATION FairSpec
CONSTANTS
  m1 = m1
  Messages <- OneMessage
  None = None
  MaxLogins = 1
  MaxCalls = 2
  MaxSockets = 3
  MaxEvents = 1
INVARIANT TypeOK
PROPERTY SessionKept
PROPERTY BadgeSettles
CHECK_DEADLOCK FALSE
