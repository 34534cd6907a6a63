SPECIFICATION SerialSpec
CONSTANTS
  p1 = p1
  p2 = p2
  s1 = s1
  s2 = s2
  Periods <- TwoPeriods
  Active <- OnePeriod
  Sessions <- OneSession
  Totals <- FewTotals
  Amounts <- OneAmount
  MaxLedger = 1
INVARIANT TypeOK
INVARIANT PaidMatchesLedger
PROPERTY NeverPaidTwice
PROPERTY ReopenOnlyUnpaid
PROPERTY ApprovalKeepsPaid
PROPERTY CloseCapturesInputs
PROPERTY AccountSpec
