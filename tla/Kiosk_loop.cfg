SPECIFICATION FairSpec
CONSTANTS
  e1 = e1
  Employees <- OneEmployee
  Enrolled <- OneEmployee
  None = None
  Nobody = Nobody
  Stranger = Stranger
  MaxFailures = 2
  MaxTaps = 2
  MaxEvents = 1
INVARIANT OneCheckAtATime
INVARIANT CameraOnlyWhileScanning
PROPERTY CheckFollowsTile
PROPERTY LoopServes
CHECK_DEADLOCK FALSE
