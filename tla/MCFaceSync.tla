----------------------------- MODULE MCFaceSync -----------------------------
(* Small instances of FaceSync for TLC: one terminal, in branch b1.        *)
EXTENDS FaceSync, TLC

CONSTANTS d1, b1, b2, w1, w2, r1

OneDevice == {d1}
NoDevice == {}
OneBranch == {b1}
TwoBranches == {b1, b2}
OneBeat == {w1}
TwoWorkers == {w1, w2}
OneRequest == {r1}

SameSite == [d \in Devices |-> b1]
=============================================================================
