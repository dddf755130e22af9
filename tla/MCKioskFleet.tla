----------------------------- MODULE MCKioskFleet -----------------------------
(* Small instances of KioskFleet. *)
EXTENDS KioskFleet

CONSTANTS k1, beat, owner, a1, a2

OneKiosk == {k1}
OneBeat == {beat}
OneEditor == {owner}
OneAlert == {a1}
TwoAlerts == {a1, a2}
===============================================================================
