----------------------------- MODULE PayoutLedger -----------------------------
(***************************************************************************)
(* What payouts promise a shop, whatever calls, answers and webhooks do    *)
(* behind it.  What it earned is available; a payout claims some of it,    *)
(* under a row of its own, and what is claimed is no longer available; a   *)
(* claim is asked for once, and ends with the money at the shop, or with   *)
(* the money available again; and what a settled row tells the shop is     *)
(* what happened.                                                          *)
(***************************************************************************)
EXTENDS Naturals

CONSTANTS Ids

VARIABLES
    available,  \* earned, and not claimed by any payout
    phase,      \* where each payout is
    amount,     \* what it claims
    told        \* what its row tells the shop, while it says anything

lvars == <<available, phase, amount, told>>

Init ==
    /\ available = 0
    /\ phase = [i \in Ids |-> "free"]
    /\ amount = [i \in Ids |-> 0]
    /\ told = [i \in Ids |-> "open"]

Move(i, from, to) == phase[i] \in from /\ phase' = [phase EXCEPT ![i] = to]

Earn == available' = available + 1 /\ UNCHANGED <<phase, amount, told>>

Claim(i) ==
    /\ Move(i, {"free"}, "claimed")
    /\ \E a \in 1..available :
          available' = available - a /\ amount' = [amount EXCEPT ![i] = a]
    /\ UNCHANGED told

Ask(i) == Move(i, {"claimed"}, "asked") /\ UNCHANGED <<available, amount, told>>

Land(i) == Move(i, {"asked"}, "sent") /\ UNCHANGED <<available, amount, told>>

\* The request is refused, or the transfer comes back at once or later: the money can be
\* claimed again, by another payout.
GiveBack(i) ==
    /\ Move(i, {"claimed"}, "refused") \/ Move(i, {"asked", "sent"}, "returned")
    /\ available' = available + amount[i]
    /\ UNCHANGED <<amount, told>>

\* The row may be behind, and may fall behind again, but is not wrong.
Truths(i) ==
    {"open"} \cup (IF phase[i] \in {"sent", "returned"} THEN {"paid"} ELSE {})
             \cup (IF phase[i] \in {"refused", "returned"} THEN {"failed"} ELSE {})

Tell(i) ==
    /\ \E truth \in Truths(i) : told' = [told EXCEPT ![i] = truth]
    /\ UNCHANGED <<available, phase, amount>>

Next ==
    \/ Earn
    \/ \E i \in Ids : Claim(i) \/ Ask(i) \/ Land(i) \/ GiveBack(i) \/ Tell(i)

Spec == Init /\ [][Next]_lvars
===============================================================================
