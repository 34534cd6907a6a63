------------------------------- MODULE MCKiosk -------------------------------
(* Small instances of Kiosk for TLC: one enrolled employee, among strangers.    *)
EXTENDS Kiosk, TLC

CONSTANT e1

OneEmployee == {e1}
=============================================================================
