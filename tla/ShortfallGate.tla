---------------------------- MODULE ShortfallGate ----------------------------
(***************************************************************************)
(* The release of a job whose rendered page count made it dearer than what *)
(* was paid: POST /printer/complete charges the difference to the saved    *)
(* card.  Then it takes the row READY -> RELEASING for the kiosk's agent   *)
(* (kiosk-pull), or sends the document to the printer itself and marks the *)
(* job done (cloud-push).  One such job, and any number of release         *)
(* requests for its code.                                                  *)
(***************************************************************************)
EXTENDS Naturals, FiniteSets

CONSTANTS
    Requests,    \* release requests that may overlap: taps at one kiosk or at several
    FaultKinds,  \* "crash", "timeout", "declined"
    Modes,       \* values of the setting printDispatchMode, which each request looks up
    MaxFaults,   \* bound: faults in all
    MaxPrints    \* bound: documents the backend itself prints

ASSUME ConstantsOK ==
    /\ IsFiniteSet(Requests)
    /\ FaultKinds \subseteq {"crash", "timeout", "declined"}
    /\ Modes \subseteq {"kiosk-pull", "cloud-push"}
    /\ {MaxFaults, MaxPrints} \subseteq Nat

VARIABLES
    row,       \* the print_jobs row
    request,   \* release requests in flight
    charges,   \* external: successful charges of the difference to the card
    customer,  \* what there is of the customer, and the DELTA_ Transaction rows of the job
    payment,   \* differences added to the Payment row
    credited,  \* differences credited to the shop's ledger
    faults,    \* faults so far
    releases,  \* history: READY -> RELEASING transitions
    printed,   \* external: the times cloud-push printed the document
    forgotten  \* history: times a settled cost was overwritten by the estimate

vars == <<row, request, charges, customer, payment, credited, faults, releases, printed, forgotten>>

\* cost: what job.cost says was paid. "printed": the agent or the backend is done with it.
Row == [status: {"ready", "releasing", "printed"}, cost: {"estimate", "final"}]

NewRow == [status |-> "ready", cost |-> "estimate"]

\* found: job.cost as the request found it.  row, payment: what the gate read later.
Request == [pc: {"idle", "gate", "prior", "charge", "record", "credit", "release", "complete"},
            mode: {"kiosk-pull", "cloud-push"}, found: {"estimate", "final"},
            row: Row, payment: Nat]

IdleRequest == [pc |-> "idle", mode |-> "kiosk-pull", found |-> "estimate",
                row |-> NewRow, payment |-> 0]

\* paid: the job has a Payment row. user: its user is found. card: the Payment holds the
\* authorization of a card. wallet: the user has one; only then a DELTA_ row is written.
Customer == [paid: BOOLEAN, user: BOOLEAN, card: BOOLEAN, wallet: BOOLEAN, deltas: Nat]

TypeOK ==
    /\ row \in Row
    /\ request \in [Requests -> Request]
    /\ customer \in Customer
    /\ {charges, payment, credited, faults, releases, printed, forgotten} \subseteq Nat

\* Rendered, and priced above the estimate.  A CUPS job was never paid; an account may be
\* gone, or have no wallet; a payment that was not made with a card saved none.
Init ==
    /\ row = NewRow
    /\ request = [q \in Requests |-> IdleRequest]
    /\ customer \in [paid: BOOLEAN, user: BOOLEAN, card: BOOLEAN, wallet: BOOLEAN, deltas: {0}]
    /\ charges = 0 /\ payment = 0 /\ credited = 0
    /\ faults = 0 /\ releases = 0
    /\ printed = 0 /\ forgotten = 0

Faulty(kind) == kind \in FaultKinds /\ faults < MaxFaults /\ faults' = faults + 1

Goes(q, pc) == request' = [request EXCEPT ![q].pc = pc]
Answers(q) == request' = [request EXCEPT ![q] = IdleRequest]

(***************************************************************************)
(* POST /printer/complete                                                  *)
(***************************************************************************)

\* The mode is looked up and the job found by its code; its status is not looked at yet.
Arrives(q, mode) ==
    /\ request[q].pc = "idle"
    /\ request' = [request EXCEPT ![q] =
          [IdleRequest EXCEPT !.pc = "gate", !.mode = mode, !.found = row.cost]]
    /\ UNCHANGED <<row, charges, customer, payment, credited, faults, releases, printed, forgotten>>

\* settleShortfall: finalCost above cost, and the Payment row.  Without a difference
\* (no-shortfall) or a Payment (no-payment) the request passes.
GateReads(q) ==
    /\ request[q].pc = "gate"
    /\ request' = [request EXCEPT ![q] =
          IF row.cost = "final" \/ ~customer.paid
            THEN [@ EXCEPT !.pc = "release"]
            ELSE [@ EXCEPT !.pc = "prior", !.row = row, !.payment = payment]]
    /\ UNCHANGED <<row, charges, customer, payment, credited, faults, releases, printed, forgotten>>

\* Mutant: the difference an earlier attempt charged is credited again.
PriorFoundCredits(q) ==
    /\ request[q].pc = "prior"
    /\ customer.deltas > 0
    /\ row' = [request[q].row EXCEPT !.cost = "final"]
    /\ Goes(q, "credit")
    /\ UNCHANGED <<charges, customer, payment, credited, faults, releases, printed, forgotten>>

\* A DELTA_ transaction of this job means an earlier attempt has charged the card.
PriorFound(q) ==
    /\ request[q].pc = "prior"
    /\ customer.deltas > 0
    /\ row' = [request[q].row EXCEPT !.cost = "final"]
    /\ Goes(q, "release")
    /\ UNCHANGED <<charges, customer, payment, credited, faults, releases, printed, forgotten>>

\* A user that is not found (no-user) lets the request pass too; no card is answered 402.
PriorMissing(q) ==
    /\ request[q].pc = "prior"
    /\ customer.deltas = 0
    /\ \/ ~customer.user /\ Goes(q, "release")
       \/ customer.user /\ ~customer.card /\ Answers(q)
       \/ customer.user /\ customer.card /\ Goes(q, "charge")
    /\ UNCHANGED <<row, charges, customer, payment, credited, faults, releases, printed, forgotten>>

\* charge_authorization: done; declined, answered 402; done and the answer lost,
\* answered 402 too; done, and the process dies.
Charged(q) ==
    /\ request[q].pc = "charge"
    /\ charges' = charges + 1
    /\ Goes(q, "record")
    /\ UNCHANGED <<row, customer, payment, credited, faults, releases, printed, forgotten>>

\* Mutant: a declined charge is one more reason to let the release pass.
DeclinedPasses(q) ==
    /\ request[q].pc = "charge"
    /\ Faulty("declined")
    /\ Goes(q, "release")
    /\ UNCHANGED <<row, charges, customer, payment, credited, releases, printed, forgotten>>

Declined(q) ==
    /\ request[q].pc = "charge"
    /\ Faulty("declined")
    /\ Answers(q)
    /\ UNCHANGED <<row, charges, customer, payment, credited, releases, printed, forgotten>>

ChargeTimesOut(q) ==
    /\ request[q].pc = "charge"
    /\ Faulty("timeout")
    /\ charges' = charges + 1
    /\ Answers(q)
    /\ UNCHANGED <<row, customer, payment, credited, releases, printed, forgotten>>

CrashesUnrecorded(q) ==
    /\ request[q].pc = "record"
    /\ Faulty("crash")
    /\ Answers(q)
    /\ UNCHANGED <<row, charges, customer, payment, credited, releases, printed, forgotten>>

\* Mutant: the difference is taken off the Payment row instead of added to it.
RecordsNegative(q) ==
    /\ request[q].pc = "record"
    /\ customer' = [customer EXCEPT !.deltas = IF customer.wallet THEN @ + 1 ELSE @]
    /\ row' = [request[q].row EXCEPT !.cost = "final"]
    /\ payment' = request[q].payment - 1
    /\ Goes(q, "credit")
    /\ UNCHANGED <<charges, credited, faults, releases, printed, forgotten>>

\* Mutant: the job is saved without its final cost.
RecordsNoCost(q) ==
    /\ request[q].pc = "record"
    /\ customer' = [customer EXCEPT !.deltas = IF customer.wallet THEN @ + 1 ELSE @]
    /\ row' = request[q].row
    /\ payment' = request[q].payment + 1
    /\ Goes(q, "credit")
    /\ UNCHANGED <<charges, credited, faults, releases, printed, forgotten>>

\* One transaction: the DELTA_ row, if there is a wallet, and the job and the Payment
\* as they were read, with the difference added.
Records(q) ==
    /\ request[q].pc = "record"
    /\ customer' = [customer EXCEPT !.deltas = IF customer.wallet THEN @ + 1 ELSE @]
    /\ row' = [request[q].row EXCEPT !.cost = "final"]
    /\ payment' = request[q].payment + 1
    /\ Goes(q, "credit")
    /\ UNCHANGED <<charges, credited, faults, releases, printed, forgotten>>

\* applyTransactionDelta, whose failure is logged and dropped.
Credits(q) ==
    /\ request[q].pc = "credit"
    /\ credited' \in {credited, credited + 1}
    /\ Goes(q, "release")
    /\ UNCHANGED <<row, charges, customer, payment, faults, releases, printed, forgotten>>

\* Mutant: the update has no condition on the status.
ReleaseUnconditional == TRUE

\* UPDATE ... WHERE status = ready; otherwise 409.
ReleaseAllowed == row.status = "ready"

Releases(q) ==
    /\ request[q].pc = "release" /\ request[q].mode = "kiosk-pull"
    /\ IF ReleaseAllowed
         THEN row' = [row EXCEPT !.status = "releasing"] /\ releases' = releases + 1
         ELSE UNCHANGED <<row, releases>>
    /\ Answers(q)
    /\ UNCHANGED <<charges, customer, payment, credited, faults, printed, forgotten>>

\* Cloud-push: the print policy, the conversion or the printer refuses the document ...
Refused(q) ==
    /\ request[q].pc = "release" /\ request[q].mode = "cloud-push"
    /\ Answers(q)
    /\ UNCHANGED <<row, charges, customer, payment, credited, faults, releases, printed, forgotten>>

\* ... or prints it.  The job's status is not looked at.
Dispatches(q) ==
    /\ request[q].pc = "release" /\ request[q].mode = "cloud-push"
    /\ printed < MaxPrints
    /\ printed' = printed + 1
    /\ Goes(q, "complete")
    /\ UNCHANGED <<row, charges, customer, payment, credited, faults, releases, forgotten>>

CrashesPrinted(q) ==
    /\ request[q].pc = "complete"
    /\ Faulty("crash")
    /\ Answers(q)
    /\ UNCHANGED <<row, charges, customer, payment, credited, releases, printed, forgotten>>

\* completePrintJob: DONE, at the cost the request found before the gate.
Completes(q) ==
    /\ request[q].pc = "complete"
    /\ row' = [status |-> "printed", cost |-> request[q].found]
    /\ forgotten' = IF row.cost = "final" /\ request[q].found = "estimate"
                       THEN forgotten + 1 ELSE forgotten
    /\ Answers(q)
    /\ UNCHANGED <<charges, customer, payment, credited, faults, releases, printed>>

\* What PrintRelease does with a released job.
Prints ==
    /\ row.status = "releasing"
    /\ row' = [row EXCEPT !.status = "printed"]
    /\ UNCHANGED <<request, charges, customer, payment, credited, faults, releases, printed,
                   forgotten>>

Next ==
    \/ \E q \in Requests :
          \/ \E mode \in Modes : Arrives(q, mode)
          \/ GateReads(q) \/ PriorFound(q) \/ PriorMissing(q)
          \/ Charged(q) \/ Declined(q) \/ ChargeTimesOut(q) \/ CrashesUnrecorded(q)
          \/ Records(q) \/ Credits(q) \/ Releases(q)
          \/ Refused(q) \/ Dispatches(q) \/ CrashesPrinted(q) \/ Completes(q)
    \/ Prints

Spec == Init /\ [][Next]_vars

(***************************************************************************)
(* Properties                                                              *)
(***************************************************************************)

\* Where the gate collects the difference at all.  A job without a Payment and a user that
\* is not found pass it uncharged (costReconciliation.service.ts:213, 230); no card is 402.
Collected == customer.paid /\ customer.user

\* There, nothing is released or printed before the difference was charged, whichever of
\* several overlapping requests charged it and whichever was declined or has no card.
PaidBeforeReleased == Collected /\ releases + printed > 0 => charges > 0

\* The shop is never credited more differences than the card was charged, whatever
\* overlapping requests and retries find in the Transaction table.
CreditedAsCharged == credited <= charges

\* A race may charge the card once for each of the requests that overlap, a fault once
\* more, and a cloud-push completion that forgets the settled cost lets them race again;
\* but no retry besides charges it again, however often the customer tries and whether or
\* not there is a wallet to hold a DELTA_ transaction.
RetriesDoNotCharge == charges <= Cardinality(Requests) * (1 + forgotten) + faults

\* Nor is the job released to an agent more often than there are overlapping requests,
\* although their stale saves put a released row back to READY.
RetriesDoNotRelease == releases <= Cardinality(Requests)

(***************************************************************************)
(* What comments say and the code does not do                              *)
(***************************************************************************)

\* costReconciliation.service.ts:36-38 and 193-203: the gate refuses to double-charge, be it
\* for two requests at once or after a crash, and never fires again once it has settled. It
\* does when cloud-push has printed the job, and without a wallet it charges again.
ChargedOnce == charges <= 1

\* printer.routes.ts:224-225: two kiosks racing on the same code can't both win.
ReleasedOnce == releases <= 1
===============================================================================
