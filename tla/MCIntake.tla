------------------------------- MODULE MCIntake -------------------------------
(* A small instance of Intake. *)
EXTENDS Intake, TLC

CONSTANTS r1, r2

BothRequests == {r1, r2}
OneOrTwo == {1, 2}
Everything == {[type |-> "percentage", value |-> 50], [type |-> "fixed", value |-> 3],
               [type |-> "free_pages", value |-> 1], [type |-> "percentage", value |-> 100]}

Symmetric == Permutations(Requests)
===============================================================================
