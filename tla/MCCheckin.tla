------------------------------ MODULE MCCheckin ------------------------------
(* Small instances of Checkin for TLC.                                       *)
EXTENDS Checkin, TLC

CONSTANTS p1, p2, f1, f2

OnePerson == {p1}
TwoPeople == {p1, p2}
OneFlush == {f1}
TwoFlushes == {f1, f2}
=============================================================================
