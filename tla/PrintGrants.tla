------------------------------ MODULE PrintGrants ------------------------------
(***************************************************************************)
(* What the release of print jobs promises, whatever handlers, agents and  *)
(* messages do behind it: the documented life of a paid job.  A job is     *)
(* printed under a grant, by one kiosk, at most once; that kiosk alone     *)
(* holds it until it is delivered or has failed; only a failed job can be  *)
(* made ready again.                                                       *)
(***************************************************************************)
EXTENDS Naturals

CONSTANTS Jobs, Kiosks, NoKiosk

VARIABLES
    phase,   \* where each job is
    holder,  \* the kiosk a job in "printing" belongs to
    prints   \* print runs of each job so far

gvars == <<phase, holder, prints>>

Phase == {"ready", "releasing", "printing", "done", "failed"}

Init ==
    /\ phase = [j \in Jobs |-> "ready"]
    /\ holder = [j \in Jobs |-> NoKiosk]
    /\ prints = [j \in Jobs |-> 0]

Move(j, from, to) == phase[j] = from /\ phase' = [phase EXCEPT ![j] = to]

Give(j) == Move(j, "ready", "releasing") /\ UNCHANGED <<holder, prints>>

\* One kiosk takes the grant, and prints under it or, having lost the answer,
\* does not.
Take(j, k) ==
    /\ Move(j, "releasing", "printing")
    /\ holder' = [holder EXCEPT ![j] = k]
    /\ prints' \in {prints, [prints EXCEPT ![j] = @ + 1]}

Settle(j) ==
    /\ Move(j, "printing", "done") \/ Move(j, "printing", "failed")
    /\ holder' = [holder EXCEPT ![j] = NoKiosk]
    /\ UNCHANGED prints

Retry(j) == Move(j, "failed", "ready") /\ UNCHANGED <<holder, prints>>

Next == \E j \in Jobs : Give(j) \/ Settle(j) \/ Retry(j) \/ \E k \in Kiosks : Take(j, k)

Spec == Init /\ [][Next]_gvars
===============================================================================
