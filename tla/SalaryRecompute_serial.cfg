SPECIFICATION Spec
CONSTANTS
  s1 = s1
  s2 = s2
  Sessions <- OneSession
  LastDay = 2
  CloseDays = {2}
  Kinds <- TaskKinds
  Facts <- AnyDay
  LastHour = 2
  ShiftEnd = 3
  SalaryType = "MONTHLY"
  HourPay = 3
  FullDay = 2
  OvertimePay = 7
  LateFine = 1
  MaxQueue = 1
CONSTRAINT OneDayEdited
INVARIANT TypeOK
INVARIANT PeriodIsSum
INVARIANT OnePenaltyPerDay
INVARIANT PenaltiesCounted
INVARIANT EarnedFresh
INVARIANT LateFresh
