SPECIFICATION FairSpec
CONSTANTS
  p1 = p1
  p2 = p2
  f1 = f1
  f2 = f2
  People <- OnePerson
  Owner = p1
  None = None
  Submitter = Submitter
  Native = Native
  Flushes <- TwoFlushes
  MaxTaps = 2
  MaxEvents = 1
INVARIANT NothingForgotten
PROPERTY NothingResurrected
PROPERTY QueueServed
CHECK_DEADLOCK FALSE
