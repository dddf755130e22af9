------------------------------ MODULE MCDocuments ------------------------------
(* Small instances of Documents. *)
EXTENDS Documents

CONSTANTS c1, r1, r2, d1, d2

OneClient == {c1}
TwoRequests == {r1, r2}
TwoDocs == {d1, d2}
DiskAndCloud == {"disk", "cloudinary"}
================================================================================
