--------------------------- MODULE MCShortfallGate ---------------------------
(* Small instances of ShortfallGate. *)
EXTENDS ShortfallGate, TLC

CONSTANTS q1, q2, q3

One == {q1}
Two == {q1, q2}
Three == {q1, q2, q3}

BothModes == {"kiosk-pull", "cloud-push"}

EveryFault == {"crash", "timeout", "declined"}
NoFaults == {}

Symmetric == Permutations(Requests)
===============================================================================
