SPECIFICATION Spec
CONSTANTS
  p1 = p1
  p2 = p2
  s1 = s1
  s2 = s2
  Periods <- OnePeriod
  Active <- OnePeriod
  Sessions <- TwoSessions
  Totals <- FewTotals
  Amounts <- OneAmount
  MaxLedger = 1
PROPERTY NeverPaidTwice
