---------------------------- MODULE MCPrintRelease ----------------------------
(* Small instances of PrintRelease, with model values for its sets. *)
EXTENDS PrintRelease

CONSTANTS j1, j2, k1, k2, op1, op2

OneJob == {j1}
TwoJobs == {j1, j2}
TwoKiosks == {k1, k2}
OneConsole == {op1}
TwoConsoles == {op1, op2}
===============================================================================
