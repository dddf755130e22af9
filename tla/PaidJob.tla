------------------------------- MODULE PaidJob -------------------------------
(***************************************************************************)
(* From the charge of a print job to the moment it can be released: the    *)
(* payment webhook, the render pipeline with its retries and its sweep,    *)
(* and, for a marketplace shop, the accept window.  One job: these         *)
(* handlers meet only on its row.                                          *)
(*                                                                         *)
(* Every handler reads the row, awaits, and saves the entity it read: the  *)
(* row becomes what the entity says, so a handler carries its copy.  The   *)
(* SELECT and the UPDATE that a save makes are one step.  Redis is         *)
(* configured: without it no queue, sweep or window exists.                *)
(***************************************************************************)
EXTENDS Integers

CONSTANTS
    Shops,        \* tenants
    Home,         \* the shop the customer chose
    NoShop,       \* reroutedFromTenantId NULL
    Deliveries,   \* charge.success webhooks for the job: repeats, or a second charge
    Sweep,        \* the scheduled reconcile-stuck-renders job
    Marketplace,  \* is Home discoverable? The shops jobs are rerouted to are
    RenderOn,     \* FALSE for a batch parent, which is never rendered
    Consumers,    \* who listens on the render queue: see Worker and RenderWorker
    Unhurried,    \* the sweep's 15 minutes are longer than a render job takes, and a
                  \* customer's release longer than a callback's handler
    FaultKinds,   \* what may go wrong: see Faulty
    MaxFaults,    \* bound: faults in all
    MaxSweeps,    \* bound: sweeps whose render jobs overlap
    MaxAttempts,  \* BullMQ attempts of a render job
    WindowAttempts  \* BullMQ attempts of the accept-window job

ASSUME ConstantsOK ==
    /\ Home \in Shops
    /\ NoShop \notin Shops
    /\ Sweep \notin Deliveries
    /\ {Marketplace, RenderOn, Unhurried} \subseteq BOOLEAN
    /\ Consumers \subseteq {"worker", "render-worker"}
    /\ FaultKinds \subseteq {"payment", "ledger", "queue", "render", "callback", "window"}
    /\ MaxFaults \in Nat
    /\ {MaxSweeps, MaxAttempts, WindowAttempts} \subseteq Nat \ {0}

VARIABLES
    row,       \* the print_jobs row
    call,      \* calls of completePrintJobPayment, and the sweep
    renders,   \* jobs of the render queue, by the call that added them
    reports,   \* their failures, on the way to the API: one of a render job at a time
    accept,    \* POST /jobs/:id/accept, at most one in flight per shop
    window,    \* the delayed accept-window job
    sweeps,    \* the render job of the latest sweep
    faults,    \* faults so far
    payments,  \* Payment rows of the job
    credit,    \* the job's share of each shop's ledger, in units of its cost
    missing,   \* history: credits of each shop that failed, and were swallowed
    approved   \* history: the job was accepted, or auto-accepted

queue == <<renders, reports>>
money == <<payments, credit, missing>>
vars == <<row, call, queue, accept, window, sweeps, faults, money, approved>>

Callers == Deliveries \cup {Sweep}

\* A render job is known by who added it: a delivery adds one at most, the sweep
\* one each time it finds the job.  An unhurried sweep finds none under way.
RenderIds == Deliveries \cup (1..MaxSweeps)

\* "released" stands for whatever follows READY: see PrintRelease.
Status == {"pending", "rendering", "awaiting_accept", "ready", "failed", "released"}

Row == [status: Status,
        shop: Shops,                     \* tenantId
        from: Shops \cup {NoShop},       \* reroutedFromTenantId
        paid: BOOLEAN,                   \* paymentReference is set
        requiresAccept: BOOLEAN,
        rendered: BOOLEAN]               \* renderedKey and finalCost are set

NewRow == [status |-> "pending", shop |-> Home, from |-> NoShop, paid |-> FALSE,
           requiresAccept |-> FALSE, rendered |-> FALSE]

Call == [pc: {"idle", "tx", "commit", "enqueue", "flip", "add", "fallback", "promote", "arm",
              "stuck", "giveup", "fail", "done"},
         row: Row]

Render == [stage: {"none", "waiting", "save"}, left: 0..MaxAttempts, row: Row]
NoRender == [stage |-> "none", left |-> 0, row |-> NewRow]

Report == [stage: {"none", "post", "save"}, row: Row]
NoReport == [stage |-> "none", row |-> NewRow]

Accept == [pc: {"idle", "found", "credit", "save"}, row: Row]

Window == [pc: {"none", "armed", "auto", "reverse", "reroute", "acked", "gone"},
           left: 0..WindowAttempts, to: Shops \cup {NoShop}, row: Row]

TypeOK ==
    /\ row \in Row
    /\ call \in [Callers -> Call]
    /\ renders \in [RenderIds -> Render]
    /\ reports \in [RenderIds -> Report]
    /\ accept \in [Shops -> Accept]
    /\ window \in Window
    /\ {sweeps, faults, payments} \subseteq Nat /\ approved \in BOOLEAN
    /\ credit \in [Shops -> Int]
    /\ missing \in [Shops -> Nat]

Init ==
    /\ row = NewRow
    /\ call = [c \in Callers |-> [pc |-> "idle", row |-> NewRow]]
    /\ renders = [i \in RenderIds |-> NoRender]
    /\ reports = [i \in RenderIds |-> NoReport]
    /\ accept = [s \in Shops |-> [pc |-> "idle", row |-> NewRow]]
    /\ window = [pc |-> "none", left |-> WindowAttempts, to |-> NoShop, row |-> NewRow]
    /\ sweeps = 0 /\ faults = 0 /\ payments = 0 /\ approved = FALSE
    /\ credit = [s \in Shops |-> 0]
    /\ missing = [s \in Shops |-> 0]

Faulty(kind) == kind \in FaultKinds /\ faults < MaxFaults /\ faults' = faults + 1

\* A call goes on to pc with the row it has just read, or without one.
Reads(c, pc) == call' = [call EXCEPT ![c] = [pc |-> pc, row |-> row]]
Goes(c, pc) == call' = [call EXCEPT ![c] = [pc |-> pc, row |-> NewRow]]

\* applyTransactionDelta credits a shop, or fails, and its caller swallows the error.
Credits(s) ==
    \/ /\ credit' = [credit EXCEPT ![s] = @ + 1]
       /\ UNCHANGED <<missing, faults>>
    \/ /\ Faulty("ledger")
       /\ missing' = [missing EXCEPT ![s] = @ + 1]
       /\ UNCHANGED credit

\* Mutant: a job rendered before is taken for accepted.
PrintableOnceRendered(r) == IF r.requiresAccept /\ ~r.rendered THEN "awaiting_accept" ELSE "ready"

\* Where the status goes once the job is printable.
Printable(r) == IF r.requiresAccept THEN "awaiting_accept" ELSE "ready"

(***************************************************************************)
(* completePrintJobPayment                                                 *)
(***************************************************************************)

\* Mutant: enqueues without waiting for the transaction.
PaymentReadEager(d) ==
    /\ call[d].pc = "idle"
    /\ Goes(d, "enqueue")
    /\ UNCHANGED <<row, queue, accept, window, sweeps, faults, money, approved>>

\* The transaction reads the row without a lock. Not PENDING: nothing is written,
\* but the calls after the transaction are made all the same.
PaymentRead(d) ==
    /\ call[d].pc = "idle"
    /\ IF row.status = "pending" THEN Reads(d, "tx") ELSE Goes(d, "enqueue")
    /\ UNCHANGED <<row, queue, accept, window, sweeps, faults, money, approved>>

\* The shop's ledger, on a connection of its own.
PaymentCredits(d) ==
    /\ call[d].pc = "tx"
    /\ Credits(call[d].row.shop)
    /\ call' = [call EXCEPT ![d].pc = "commit"]
    /\ UNCHANGED <<row, queue, accept, window, sweeps, payments, approved>>

\* The row and the Payment. The status stays PENDING.
PaymentCommit(d) ==
    LET mine == call[d].row IN
    /\ call[d].pc = "commit"
    /\ row' = [mine EXCEPT !.paid = TRUE,
                           !.requiresAccept = (mine.shop # Home \/ Marketplace)]
    /\ payments' = payments + 1
    /\ Goes(d, "enqueue")
    /\ UNCHANGED <<queue, accept, window, sweeps, faults, credit, missing, approved>>

\* The transaction is rolled back, and a credit made is not. The webhook answers 500
\* and is sent again.
PaymentRollsBack(d) ==
    /\ call[d].pc \in {"tx", "commit"}
    /\ Faulty("payment")
    /\ Goes(d, "idle")
    /\ UNCHANGED <<row, queue, accept, window, sweeps, money, approved>>

\* The accept window is armed under a job id of its own, and BullMQ ignores an id
\* it already has.
ArmWindow(d) ==
    /\ call[d].pc = "arm"
    /\ IF row.requiresAccept /\ window.pc = "none"
         THEN window' = [window EXCEPT !.pc = "armed"]
         ELSE UNCHANGED window
    /\ Goes(d, "done")
    /\ UNCHANGED <<row, queue, accept, sweeps, faults, money, approved>>

(***************************************************************************)
(* enqueueRenderOrReady, for a delivery and for the sweep                  *)
(***************************************************************************)

Trigger == {"pending", "awaiting_accept"}

\* What a caller does next: a delivery arms the window; the sweep is done.
After(c) == IF c = Sweep THEN "idle" ELSE "arm"

EnqueueRead(c) ==
    /\ call[c].pc = "enqueue"
    /\ IF RenderOn /\ row.status \in Trigger THEN Reads(c, "flip") ELSE Goes(c, "fallback")
    /\ UNCHANGED <<row, queue, accept, window, sweeps, faults, money, approved>>

\* Mutant: mistakes the rendering status for the status.
EnqueueFlipWrongField(c) ==
    /\ call[c].pc = "flip"
    /\ row' = [call[c].row EXCEPT !.status = "processing"]
    /\ call' = [call EXCEPT ![c].pc = "add"]
    /\ UNCHANGED <<queue, accept, window, sweeps, faults, money, approved>>

EnqueueFlip(c) ==
    /\ call[c].pc = "flip"
    /\ row' = [call[c].row EXCEPT !.status = "rendering"]
    /\ call' = [call EXCEPT ![c].pc = "add"]
    /\ UNCHANGED <<queue, accept, window, sweeps, faults, money, approved>>

EnqueueAdd(c) ==
    /\ call[c].pc = "add"
    /\ renders' = [renders EXCEPT ![IF c = Sweep THEN sweeps ELSE c] =
                      [stage |-> "waiting", left |-> MaxAttempts, row |-> NewRow]]
    /\ Goes(c, After(c))
    /\ UNCHANGED <<row, reports, accept, window, sweeps, faults, money, approved>>

\* renderQueue.add throws: the status goes back and the error to the caller, a
\* delivery that swallows it or the sweep that gives up on the job.
EnqueueRevert(c) ==
    /\ call[c].pc = "add"
    /\ Faulty("queue")
    /\ row' = call[c].row
    /\ Goes(c, IF c = Sweep THEN "giveup" ELSE "arm")
    /\ UNCHANGED <<queue, accept, window, sweeps, money, approved>>

\* Not enqueued: a job that is still PENDING is promoted without a render.
FallbackRead(c) ==
    /\ call[c].pc = "fallback"
    /\ IF row.status = "pending" THEN Reads(c, "promote") ELSE Goes(c, After(c))
    /\ UNCHANGED <<row, queue, accept, window, sweeps, faults, money, approved>>

FallbackSave(c) ==
    /\ call[c].pc = "promote"
    /\ row' = [call[c].row EXCEPT !.status = Printable(call[c].row)]
    /\ Goes(c, After(c))
    /\ UNCHANGED <<queue, accept, window, sweeps, faults, money, approved>>

(***************************************************************************)
(* reconcileStuckRenders                                                   *)
(***************************************************************************)

Underway ==
    \/ \E i \in RenderIds : renders[i].stage # "none" \/ reports[i].stage # "none"
    \/ \E c \in Callers : call[c].pc = "add"

SweepFind ==
    /\ call[Sweep].pc = "idle"
    /\ row.status = "rendering"
    /\ Unhurried => ~Underway
    /\ Reads(Sweep, "stuck")
    /\ \/ sweeps < MaxSweeps /\ sweeps' = sweeps + 1
       \/ sweeps = MaxSweeps /\ Unhurried /\ sweeps' = 1
    /\ UNCHANGED <<row, queue, accept, window, faults, money, approved>>

\* Mutants: promotes a stuck job straight to READY; and enqueues it again as it is.
SweepPromotes ==
    /\ call[Sweep].pc = "stuck"
    /\ row' = [call[Sweep].row EXCEPT !.status = Printable(row)]
    /\ Goes(Sweep, "enqueue")
    /\ UNCHANGED <<queue, accept, window, sweeps, faults, money, approved>>

SweepForgetsToDemote ==
    /\ call[Sweep].pc = "stuck"
    /\ Goes(Sweep, "enqueue")
    /\ UNCHANGED <<row, queue, accept, window, sweeps, faults, money, approved>>

SweepDemote ==
    /\ call[Sweep].pc = "stuck"
    /\ row' = [call[Sweep].row EXCEPT !.status = "pending"]
    /\ Goes(Sweep, "enqueue")
    /\ UNCHANGED <<queue, accept, window, sweeps, faults, money, approved>>

\* The error path: applyRenderFailure, a no-op unless the row says RENDERING.
SweepGiveUp ==
    /\ call[Sweep].pc = "giveup"
    /\ IF row.status = "rendering" THEN Reads(Sweep, "fail") ELSE Goes(Sweep, "idle")
    /\ UNCHANGED <<row, queue, accept, window, sweeps, faults, money, approved>>

SweepFail ==
    /\ call[Sweep].pc = "fail"
    /\ row' = [call[Sweep].row EXCEPT !.status = "failed"]
    /\ Goes(Sweep, "idle")
    /\ UNCHANGED <<queue, accept, window, sweeps, faults, money, approved>>

(***************************************************************************)
(* The render queue's consumer and its callbacks                           *)
(***************************************************************************)

\* worker/ renders what the API enqueues, and posts to the paths the API serves.
\* render-worker/ reads another field of the job, and throws before its try.
Worker == "worker" \in Consumers
RenderWorker == "render-worker" \in Consumers

RenderAt(i, stage) == renders[i].stage = stage
Ends(i) == renders' = [renders EXCEPT ![i] = NoRender]

\* An attempt throws: BullMQ runs the job again while attempts are left.
Retried(i) == IF renders[i].left > 1
                THEN [stage |-> "waiting", left |-> renders[i].left - 1, row |-> NewRow]
                ELSE NoRender
Retry(i) == renders' = [renders EXCEPT ![i] = Retried(i)]

\* render-worker/ throws at every attempt, and posts nothing.
RenderThrows(i) ==
    /\ RenderWorker /\ RenderAt(i, "waiting")
    /\ Retry(i)
    /\ UNCHANGED <<row, call, reports, accept, window, sweeps, faults, money, approved>>

\* The "failed" event of the worker: it posts the failure, while BullMQ goes on.
FailedEvent(i) ==
    /\ reports[i].stage = "none"
    /\ reports' = [reports EXCEPT ![i] = [stage |-> "post", row |-> NewRow]]

\* The pipeline throws: the failure of each attempt is reported.
RenderFails(i) ==
    /\ Worker /\ RenderAt(i, "waiting")
    /\ Faulty("render")
    /\ Retry(i)
    /\ FailedEvent(i)
    /\ UNCHANGED <<row, call, accept, window, sweeps, money, approved>>

\* The worker dies at work: BullMQ finds the job stalled, and runs it again or, the second
\* time, fails it.
RenderDies(i) ==
    /\ Worker /\ RenderAt(i, "waiting")
    /\ Faulty("render")
    /\ \/ UNCHANGED queue
       \/ Ends(i) /\ FailedEvent(i)
    /\ UNCHANGED <<row, call, accept, window, sweeps, money, approved>>

\* The document is rendered, and the result posted to /render/callback: RENDERING only;
\* otherwise it answers 200 and does nothing.
ResultRead(i) ==
    /\ Worker /\ RenderAt(i, "waiting")
    /\ IF row.status = "rendering"
         THEN renders' = [renders EXCEPT ![i].stage = "save", ![i].row = row]
         ELSE Ends(i)
    /\ UNCHANGED <<row, call, reports, accept, window, sweeps, faults, money, approved>>

Rendered(r) == [r EXCEPT !.status = Printable(r), !.rendered = TRUE]

ResultSave(i) ==
    /\ RenderAt(i, "save")
    /\ row' = Rendered(renders[i].row)
    /\ Ends(i)
    /\ UNCHANGED <<call, reports, accept, window, sweeps, faults, money, approved>>

\* The row is saved and the worker dies: the document is rendered again.
ResultUnacked(i) ==
    /\ RenderAt(i, "save")
    /\ Faulty("render")
    /\ row' = Rendered(renders[i].row)
    /\ renders' = [renders EXCEPT ![i].stage = "waiting", ![i].row = NewRow]
    /\ UNCHANGED <<call, reports, accept, window, sweeps, money, approved>>

\* The backend is out of reach or its transaction failed. The worker logs it: the
\* render has succeeded, and is not tried again.
ResultLost(i) ==
    /\ Worker /\ renders[i].stage \in {"waiting", "save"}
    /\ Faulty("callback")
    /\ Ends(i)
    /\ UNCHANGED <<row, call, reports, accept, window, sweeps, money, approved>>

ReportAt(i, stage) == reports[i].stage = stage
Reported(i) == reports' = [reports EXCEPT ![i] = NoReport]

\* Mutant: does not look at the status.
FailureReadAnyStatus(i) ==
    /\ ReportAt(i, "post")
    /\ reports' = [reports EXCEPT ![i] = [stage |-> "save", row |-> row]]
    /\ UNCHANGED <<row, call, renders, accept, window, sweeps, faults, money, approved>>

\* POST /render/failure: RENDERING only.
FailureRead(i) ==
    /\ ReportAt(i, "post")
    /\ IF row.status = "rendering"
         THEN reports' = [reports EXCEPT ![i] = [stage |-> "save", row |-> row]]
         ELSE Reported(i)
    /\ UNCHANGED <<row, call, renders, accept, window, sweeps, faults, money, approved>>

FailureSave(i) ==
    /\ ReportAt(i, "save")
    /\ row' = [reports[i].row EXCEPT !.status = "failed"]
    /\ Reported(i)
    /\ UNCHANGED <<call, renders, accept, window, sweeps, faults, money, approved>>

FailureLost(i) ==
    /\ reports[i].stage \in {"post", "save"}
    /\ Faulty("callback")
    /\ Reported(i)
    /\ UNCHANGED <<row, call, renders, accept, window, sweeps, money, approved>>

(***************************************************************************)
(* The accept window                                                       *)
(***************************************************************************)

\* POST /admin/jobs/:id/accept, by an operator of shop s: the job is looked up
\* among the shop's own, and acceptJob then reads it again by its id alone.
AcceptFind(s) ==
    /\ accept[s].pc = "idle"
    /\ row.shop = s
    /\ row.status = "awaiting_accept"
    /\ accept' = [accept EXCEPT ![s].pc = "found"]
    /\ UNCHANGED <<row, call, queue, window, sweeps, faults, money, approved>>

NoAccept == [pc |-> "idle", row |-> NewRow]

AcceptRead(s) ==
    /\ accept[s].pc = "found"
    /\ accept' = [accept EXCEPT ![s] =
          IF row.status # "awaiting_accept" THEN NoAccept
          ELSE [pc |-> IF row.from # NoShop THEN "credit" ELSE "save", row |-> row]]
    /\ UNCHANGED <<row, call, queue, window, sweeps, faults, money, approved>>

\* A job rerouted to the shop is credited to it.
AcceptCredit(s) ==
    /\ accept[s].pc = "credit"
    /\ Credits(accept[s].row.shop)
    /\ accept' = [accept EXCEPT ![s].pc = "save"]
    /\ UNCHANGED <<row, call, queue, window, sweeps, payments, approved>>

\* The credit's Transaction row or the save throws: 500. A credit made is not taken
\* back, and the operator may accept again.
AcceptThrows(s) ==
    /\ accept[s].pc \in {"credit", "save"}
    /\ Faulty("ledger")
    /\ accept' = [accept EXCEPT ![s] = NoAccept]
    /\ UNCHANGED <<row, call, queue, window, sweeps, money, approved>>

AcceptSave(s) ==
    /\ accept[s].pc = "save"
    /\ row' = [accept[s].row EXCEPT !.status = "ready", !.from = NoShop]
    /\ accept' = [accept EXCEPT ![s] = NoAccept]
    /\ approved' = TRUE
    /\ UNCHANGED <<call, queue, window, sweeps, faults, money>>

\* The other shops of the marketplace: whichever of them is open, online and nearest.
Candidates == Shops \ {row.shop}

\* enforceAcceptWindow: not AWAITING_ACCEPT is a no-op. It picks a candidate, or
\* none is open.
WindowFires ==
    /\ window.pc = "armed"
    /\ \/ /\ row.status # "awaiting_accept"
          /\ window' = [window EXCEPT !.pc = "gone"]
       \/ /\ row.status = "awaiting_accept"
          /\ \/ window' = [window EXCEPT !.pc = "auto", !.row = row]
             \/ \E s \in Candidates :
                   window' = [window EXCEPT !.pc = "reverse", !.row = row, !.to = s]
    /\ UNCHANGED <<row, call, queue, accept, sweeps, faults, money, approved>>

WindowAutoAccepts ==
    /\ window.pc = "auto"
    /\ row' = [window.row EXCEPT !.status = "ready", !.from = NoShop]
    /\ window' = [window EXCEPT !.pc = "gone", !.row = NewRow]
    /\ approved' = TRUE
    /\ UNCHANGED <<call, queue, accept, sweeps, faults, money>>

\* The reversal, whether or not the credit was made; its failure is swallowed too.
WindowReverses ==
    /\ window.pc = "reverse"
    /\ \/ credit' = [credit EXCEPT ![window.row.shop] = @ - 1] /\ UNCHANGED faults
       \/ Faulty("ledger") /\ UNCHANGED credit
    /\ window' = [window EXCEPT !.pc = "reroute"]
    /\ UNCHANGED <<row, call, queue, accept, sweeps, payments, missing, approved>>

WindowReroutes ==
    /\ window.pc = "reroute"
    /\ row' = [window.row EXCEPT !.shop = window.to, !.from = window.row.shop]
    /\ window' = [window EXCEPT !.pc = "acked", !.row = NewRow, !.to = NoShop]
    /\ UNCHANGED <<call, queue, accept, sweeps, faults, money, approved>>

\* Mutant: the re-armed window really fires again.
RearmedAgain == "armed"

\* Re-arming adds a job under the id of the one that is running: BullMQ ignores it,
\* and keeps the id after the job has completed.
Rearmed == "gone"

WindowRearms ==
    /\ window.pc = "acked"
    /\ window' = [window EXCEPT !.pc = Rearmed]
    /\ UNCHANGED <<row, call, queue, accept, sweeps, faults, money, approved>>

\* The handler throws, or its process dies: BullMQ runs the job again from the start.
WindowFails ==
    /\ window.pc \in {"auto", "reverse", "reroute", "acked"}
    /\ Faulty("window")
    /\ window' = [window EXCEPT !.pc = IF window.left > 1 THEN "armed" ELSE "gone",
                                !.left = @ - 1, !.row = NewRow, !.to = NoShop]
    /\ UNCHANGED <<row, call, queue, accept, sweeps, money, approved>>

(***************************************************************************)
(* The system                                                              *)
(***************************************************************************)

\* The release takes a READY job with a conditional UPDATE.
Release ==
    /\ row.status = "ready"
    /\ Unhurried => \A i \in RenderIds : ~ReportAt(i, "save")
    /\ row' = [row EXCEPT !.status = "released"]
    /\ UNCHANGED <<call, queue, accept, window, sweeps, faults, money, approved>>

Enqueue(c) ==
    \/ EnqueueRead(c) \/ EnqueueFlip(c) \/ EnqueueAdd(c)
    \/ FallbackRead(c) \/ FallbackSave(c)

PaymentStep(d) == PaymentCredits(d) \/ PaymentCommit(d) \/ Enqueue(d) \/ ArmWindow(d)

SweepStep == SweepFind \/ SweepDemote \/ Enqueue(Sweep) \/ SweepGiveUp \/ SweepFail

RenderStep(i) == RenderThrows(i) \/ ResultRead(i) \/ ResultSave(i)

ReportStep(i) == FailureRead(i) \/ FailureSave(i)

AcceptStep(s) == AcceptRead(s) \/ AcceptCredit(s) \/ AcceptSave(s)

WindowStep ==
    WindowFires \/ WindowAutoAccepts \/ WindowReverses \/ WindowReroutes \/ WindowRearms

RenderFault(i) == RenderFails(i) \/ RenderDies(i) \/ ResultUnacked(i) \/ ResultLost(i)

Fault ==
    \/ \E d \in Deliveries : PaymentRollsBack(d)
    \/ \E c \in Callers : EnqueueRevert(c)
    \/ \E i \in RenderIds : RenderFault(i) \/ FailureLost(i)
    \/ \E s \in Shops : AcceptThrows(s)
    \/ WindowFails

Next ==
    \/ \E d \in Deliveries : PaymentRead(d) \/ PaymentStep(d)
    \/ SweepStep
    \/ \E i \in RenderIds : RenderStep(i) \/ ReportStep(i)
    \/ \E s \in Shops : AcceptFind(s) \/ AcceptStep(s)
    \/ WindowStep
    \/ Release
    \/ Fault

Spec == Init /\ [][Next]_vars

\* Handlers that have started go on, the render queue's consumer takes what is queued,
\* the sweep is scheduled every ten minutes and the window after two. Charges, accepts
\* and releases are people's choices.
Fairness ==
    /\ \A d \in Deliveries : WF_vars(PaymentStep(d))
    /\ WF_vars(SweepStep)
    /\ \A i \in RenderIds : WF_vars(RenderStep(i)) /\ WF_vars(ReportStep(i))
    /\ \A s \in Shops : WF_vars(AcceptStep(s))
    /\ WF_vars(WindowStep)

FairSpec == Spec /\ Fairness

(***************************************************************************)
(* Properties                                                              *)
(***************************************************************************)

\* A job leaves PENDING only once it is paid, and its row still names the payment:
\* no save of an entity read earlier wipes out the payment reference, which the
\* release gate needs to find the saved card.
PaidBeforeOffered == row.status # "pending" => payments > 0 /\ row.paid

\* A marketplace job becomes releasable only by somebody's approval, the shop's or
\* the window's, however often webhooks, renders and sweeps promote it again.
ApprovedBeforeReady ==
    Marketplace /\ row.status \in {"ready", "released"} => approved

\* Where renders run, a job is offered only with its rendered artifact and its
\* final cost: neither the fallback to READY nor a stale save skips the render.
RenderedWhenOffered ==
    RenderOn /\ row.status \in {"awaiting_accept", "ready", "released"} => row.rendered

\* What was handed to the release is not taken back: no retry, callback or sweep
\* puts a released job at an earlier state again, to be released twice.
HandedOverStays == [][row.status = "released" => row'.status = "released"]_vars

\* Where worker/ renders, a paid job gets to the shop or is marked FAILED, whatever renders
\* and callbacks are lost: the sweep brings back what stays RENDERING.
PaidSettles ==
    payments > 0 ~> row.status \in {"awaiting_accept", "ready", "failed", "released"}

\* However payments, accepts and reroutes overlap, no shop's ledger is taken below zero for
\* the job but by faults: by one at most for each attempt of the window that failed, which
\* may have made its reversal first, and for each credit of the shop that was swallowed,
\* which the reversal takes from it all the same.
OverdrawnByFaultsOnly ==
    \A s \in Shops : credit[s] + missing[s] >= window.left - WindowAttempts

(***************************************************************************)
(* What comments say and the code does not do                              *)
(***************************************************************************)

\* payments.service.ts:33: a job "already paid or processed" is not paid again.
PaidOnce == payments <= 1

\* renderEnqueue.service.ts:54-55: the status is flipped first "so a concurrent
\* caller won't double-enqueue".
EnqueuedOnce ==
    \A c1, c2 \in Deliveries : call[c1].pc = "add" /\ call[c2].pc = "add" => c1 = c2

\* renderEnqueue.service.ts:104-109: if any rejection comes back, the job falls
\* through to READY.
RejectionFallsThrough ==
    payments > 0 ~> row.status # "pending"

\* renderEnqueue.service.ts:273: a stuck job that cannot be recovered is marked
\* FAILED.
StuckJobFails ==
    call[Sweep].pc = "giveup" ~> row.status = "failed"

\* renderEnqueue.service.ts:10-13: the render-worker consumes the queue, stores the artifact
\* "and calls back to POST /api/render/callback to flip status RENDERING" to READY.
CallbackFlips ==
    row.status = "rendering" ~> row.status \in {"awaiting_accept", "ready"}

\* acceptWindow.service.ts:20-21: the customer is never blocked waiting on a shop.
NeverBlocked == row.status = "awaiting_accept" ~> row.status # "awaiting_accept"

\* acceptWindow.service.ts:18-19: the money follows the job, so nobody gives back more than
\* was received.  A new attempt reverses a reversed credit again.
NobodyOverdrawn == \A s \in Shops : credit[s] >= 0

\* acceptWindow.service.ts:23-25: money moves exactly once per shop, so the shop that
\* has the job when it is released, and no other, has its credit.
CreditFollowsJob ==
    row.status = "released" =>
        \A s \in Shops : credit[s] = IF s = row.shop THEN payments ELSE 0
===============================================================================
