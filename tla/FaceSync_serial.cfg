SPECIFICATION Spec
CONSTANTS
  d1 = d1
  b1 = b1
  b2 = b2
  w1 = w1
  w2 = w2
  r1 = r1
  Devices <- OneDevice
  Branches <- TwoBranches
  Site <- SameSite
  Installed <- NoDevice
  Flaky <- OneDevice
  May = {"retry", "command"}
  Workers <- OneBeat
  Beat = w1
  Requests <- OneRequest
  Overlap = FALSE
  BatchSize = 2
  MaxAttempts = 2
  MaxPhoto = 2
  MaxJobs = 3
INVARIANT TypeOK
INVARIANT GivenUpLast
INVARIANT PhotoCurrent
PROPERTY NeverOlder
