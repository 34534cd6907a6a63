SPECIFICATION FairSpec
CONSTANTS
  d1 = d1
  b1 = b1
  b2 = b2
  w1 = w1
  w2 = w2
  r1 = r1
  Devices <- OneDevice
  Branches <- OneBranch
  Site <- SameSite
  Installed <- OneDevice
  Flaky <- NoDevice
  May = {"lose", "deactivate", "retry"}
  Workers <- TwoWorkers
  Beat = w1
  Requests <- OneRequest
  Overlap = TRUE
  BatchSize = 2
  MaxAttempts = 2
  MaxPhoto = 1
  MaxJobs = 2
INVARIANT OneOutstanding
PROPERTY QueueDrains
CHECK_DEADLOCK FALSE
