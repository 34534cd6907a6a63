------------------------------ MODULE MCSession ------------------------------
(* Small instances of Session for TLC.                                       *)
EXTENDS Session, TLC

CONSTANTS m1

OneMessage == {m1}
=============================================================================
