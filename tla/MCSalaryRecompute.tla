------------------------- MODULE MCSalaryRecompute -------------------------
(* Small instances of SalaryRecompute for TLC.                             *)
EXTENDS SalaryRecompute, TLC

CONSTANTS s1, s2

OneSession == {s1}
TwoSessions == {s1, s2}
Symmetric == Permutations(Sessions)

OneDayKinds == {"task", "request", "summary"}
TaskKinds == {"task", "summary", "close"}

\* Blank, which every day is at first, is a working day without check-in.  Then
\* the employee is late and has not checked out; the check-in has been
\* corrected, the check-out added and a bonus given; or there is a paid leave.
\* In the run with overlaps they work on a rest day.
Late == [Blank EXCEPT !.attendance = "late", !.open = TRUE]
Corrected == [Blank EXCEPT !.attendance = "on_time", !.hours = 1, !.overtime = 1, !.extra = 2]
PaidLeave == [Blank EXCEPT !.leave = "paid"]
RestDay == [Late EXCEPT !.rest = TRUE]

RestDayOnly == {RestDay}
AnyDay == {Late, Corrected, PaidLeave}

\* Bound: edits go to one day of the month, whichever it is.
OneDayEdited == Cardinality({d \in Days : facts[d] # Blank}) <= 1
=============================================================================
