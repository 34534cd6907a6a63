SPECIFICATION Spec
CONSTANTS
  s1 = s1
  s2 = s2
  Sessions <- TwoSessions
  LastDay = 1
  CloseDays = {1}
  Kinds <- OneDayKinds
  Facts <- RestDayOnly
  LastHour = 1
  ShiftEnd = 2
  SalaryType = "DAILY"
  HourPay = 3
  FullDay = 2
  OvertimePay = 7
  LateFine = 1
  MaxQueue = 1
SYMMETRY Symmetric
INVARIANT PeriodIsSum
