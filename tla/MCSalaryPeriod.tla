--------------------------- MODULE MCSalaryPeriod ---------------------------
(* Small instances of SalaryPeriod for TLC.                                *)
EXTENDS SalaryPeriod, TLC

CONSTANTS p1, p2, s1, s2

OnePeriod == {p1}
TwoPeriods == {p1, p2}
OneSession == {s1}
TwoSessions == {s1, s2}
FewTotals == {0, 2}
OneAmount == {1}

Symmetric == Permutations(Sessions)
=============================================================================
