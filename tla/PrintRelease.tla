----------------------------- MODULE PrintRelease -----------------------------
(***************************************************************************)
(* The kiosk-pull release of a paid print job: a customer types the code   *)
(* at a kiosk (or an operator taps PRINT), the backend marks the row       *)
(* RELEASING, the on-site agent of a kiosk polls, claims the row, sends    *)
(* the documents to its printer one by one and reports the outcome, and an *)
(* operator may requeue a job that failed.                                 *)
(*                                                                         *)
(* A row is read and written by handlers that await between the two.       *)
(* Conditional UPDATEs are one action; a findOne followed by a save of the *)
(* entity is two, and the save writes back the whole row it read.          *)
(***************************************************************************)
EXTENDS Naturals

CONSTANTS
    Jobs,        \* print jobs of one tenant
    Kiosks,      \* the tenant's kiosks, one agent each
    Operators,   \* shop consoles
    NoKiosk,     \* kioskId NULL
    ItemCount,   \* documents of a job: 1, or the items of a personal batch
    MaxGrants,   \* bound: releases of one job
    MaxFaults    \* bound: crashes, timeouts and losses

ASSUME ConstantsOK ==
    /\ NoKiosk \notin Kiosks
    /\ ItemCount \in Nat \ {0}
    /\ MaxGrants \in Nat
    /\ MaxFaults \in Nat

VARIABLES
    job,        \* the print_jobs rows
    agent,      \* what each agent process is doing
    stray,      \* /start requests an agent gave up on, still on their way
    reports,    \* /complete and /failed requests at the backend
    requeues,   \* requeue requests between their read and their save
    faults,     \* faults so far
    grants,     \* history: READY -> RELEASING transitions of each job
    runs,       \* history: print runs an agent started for each job
    unprinted   \* history: documents the latest run of each job failed to print

vars == <<job, agent, stray, reports, requeues, faults, grants, runs, unprinted>>

(***************************************************************************)
(* Rows, agents and messages                                               *)
(***************************************************************************)

Status == {"ready", "releasing", "printing", "done", "failed"}

\* What an agent could prove about one document, or about the whole job.
Proof == {"confirmed", "unconfirmed"}

Row == [status: Status,
        kioskId: Kiosks \cup {NoKiosk},
        agentConfirmation: Proof \cup {"null"}]

\* An agent between two jobs is "idle"; list is what is left of its last poll.
IdleAgent == [pc |-> "idle", list |-> {}, job |-> {}, todo |-> 0, proofs |-> {}]

Agent == [pc: {"idle", "printing"},
          list: SUBSET Jobs,
          job: {{}} \cup {{j} : j \in Jobs},  \* the job being printed, if any
          todo: 0..ItemCount,                 \* documents not yet dispatched
          proofs: SUBSET Proof]               \* of the documents that printed

\* A report and how far its handler has come: "sent", then for /complete
\* "checked" (row read, kiosk compared), "recorded" (confirmation saved) and
\* "loaded" (row read again by completePrintJob).
Report == [kind: {"complete", "failed"},
           kiosk: Kiosks,
           job: Jobs,
           proof: Proof,
           stage: {"sent", "checked", "recorded", "loaded"},
           row: Row]

Requeue == [op: Operators, job: Jobs, row: Row]

TypeOK ==
    /\ job \in [Jobs -> Row]
    /\ agent \in [Kiosks -> Agent]
    /\ stray \subseteq Kiosks \X Jobs
    /\ reports \subseteq Report
    /\ requeues \subseteq Requeue
    /\ faults \in Nat
    /\ grants \in [Jobs -> Nat]
    /\ runs \in [Jobs -> Nat]
    /\ unprinted \in [Jobs -> 0..ItemCount]

\* Paid, rendered and (for a marketplace shop) accepted jobs: what the payment
\* and render pipeline hands to this one.
Init ==
    /\ job = [j \in Jobs |->
                [status |-> "ready", kioskId |-> NoKiosk, agentConfirmation |-> "null"]]
    /\ agent = [k \in Kiosks |-> IdleAgent]
    /\ stray = {}
    /\ reports = {}
    /\ requeues = {}
    /\ faults = 0
    /\ grants = [j \in Jobs |-> 0]
    /\ runs = [j \in Jobs |-> 0]
    /\ unprinted = [j \in Jobs |-> 0]

(***************************************************************************)
(* Release: the conditional UPDATE ... WHERE status = ready, bound to a    *)
(* kiosk.                                                                  *)
(***************************************************************************)

\* Mutant: a failed job may be released again without a requeue.
GrantFailedToo(j, k) ==
    /\ job[j].status \in {"ready", "failed"}
    /\ grants[j] < MaxGrants
    /\ job' = [job EXCEPT ![j].status = "releasing", ![j].kioskId = k]
    /\ grants' = [grants EXCEPT ![j] = @ + 1]
    /\ UNCHANGED <<agent, stray, reports, requeues, faults, runs, unprinted>>

\* The transition both endpoints share.
Grant(j, k) ==
    /\ job[j].status = "ready"
    /\ grants[j] < MaxGrants
    /\ job' = [job EXCEPT ![j].status = "releasing", ![j].kioskId = k]
    /\ grants' = [grants EXCEPT ![j] = @ + 1]
    /\ UNCHANGED <<agent, stray, reports, requeues, faults, runs, unprinted>>

\* POST /printer/complete in kiosk-pull mode, at kiosk k: past the shortfall
\* gate and the print policy, which may also refuse and change nothing.
KioskRelease(j, k) == Grant(j, k)

\* POST /admin/jobs/:id/release, by a console: some active kiosk of the tenant.
OperatorRelease(j) == \E k \in Kiosks : Grant(j, k)

(***************************************************************************)
(* The agent                                                               *)
(***************************************************************************)

\* Mutant: only jobs bound to no kiosk, as if the null clause were the whole query.
ReadyForUnbound(k) == {j \in Jobs : job[j].status = "releasing" /\ job[j].kioskId = NoKiosk}

\* Rows GET /jobs/ready gives the agent of kiosk k. The second clause of the
\* query asks for kioskId NULL, and TypeORM drops a null condition from a find,
\* so it selects every RELEASING row of the tenant whatever kiosk it is bound to.
ReadyFor(k) ==
    LET boundToMe == {j \in Jobs : job[j].status = "releasing" /\ job[j].kioskId = k}
        nullClause == {j \in Jobs : job[j].status = "releasing"}
    IN  boundToMe \cup nullClause

AgentPoll(k) ==
    /\ agent[k].pc = "idle"
    /\ agent[k].list = {}
    /\ ReadyFor(k) # {}
    /\ agent' = [agent EXCEPT ![k].list = ReadyFor(k)]
    /\ UNCHANGED <<job, stray, reports, requeues, faults, grants, runs, unprinted>>

\* Mutant: a job that is already PRINTING may be claimed again.
StartClaimsPrinting(j) == job[j].status \in {"releasing", "printing"}

\* The conditional UPDATE of POST /jobs/:id/start: RELEASING only, and the row is
\* rebound to the claiming kiosk.
StartClaims(j) == job[j].status = "releasing"

ClaimRow(j, k) ==
    job' = [job EXCEPT ![j].status = "printing", ![j].kioskId = k]

\* 200: the agent prints the job now.
AgentClaim(k, j) ==
    /\ agent[k].pc = "idle"
    /\ j \in agent[k].list
    /\ StartClaims(j)
    /\ ClaimRow(j, k)
    /\ agent' = [agent EXCEPT ![k] = [pc |-> "printing", list |-> @.list \ {j},
                                      job |-> {j}, todo |-> ItemCount, proofs |-> {}]]
    /\ runs' = [runs EXCEPT ![j] = @ + 1]
    /\ unprinted' = [unprinted EXCEPT ![j] = 0]
    /\ UNCHANGED <<stray, reports, requeues, faults, grants>>

\* 409: somebody else has it; on to the next job of the list.
AgentConflict(k, j) ==
    /\ agent[k].pc = "idle"
    /\ j \in agent[k].list
    /\ ~StartClaims(j)
    /\ agent' = [agent EXCEPT ![k].list = @ \ {j}]
    /\ UNCHANGED <<job, stray, reports, requeues, faults, grants, runs, unprinted>>

\* No answer within the client's timeout: processJob throws, the loop goes on,
\* and the request may still reach the database.
AgentClaimTimeout(k, j) ==
    /\ agent[k].pc = "idle"
    /\ j \in agent[k].list
    /\ faults < MaxFaults
    /\ agent' = [agent EXCEPT ![k].list = @ \ {j}]
    /\ stray' = stray \cup {<<k, j>>}
    /\ faults' = faults + 1
    /\ UNCHANGED <<job, reports, requeues, grants, runs, unprinted>>

StrayClaim(k, j) ==
    /\ <<k, j>> \in stray
    /\ stray' = stray \ {<<k, j>>}
    /\ IF StartClaims(j) THEN ClaimRow(j, k) ELSE UNCHANGED job
    /\ UNCHANGED <<agent, reports, requeues, faults, grants, runs, unprinted>>

\* Mutant: one document too many.
AgentPrintItemPastEnd(k, p) ==
    /\ agent[k].pc = "printing"
    /\ agent[k].todo >= 0
    /\ agent' = [agent EXCEPT ![k].todo = @ - 1, ![k].proofs = @ \cup {p}]
    /\ UNCHANGED <<job, stray, reports, requeues, faults, grants, runs, unprinted>>

\* One document dispatched, and confirmed by the printer or not.
AgentPrintItem(k, p) ==
    /\ agent[k].pc = "printing"
    /\ agent[k].todo > 0
    /\ agent' = [agent EXCEPT ![k].todo = @ - 1, ![k].proofs = @ \cup {p}]
    /\ UNCHANGED <<job, stray, reports, requeues, faults, grants, runs, unprinted>>

\* One document that failed: download error, dispatch error, or a printer that
\* says canceled or aborted.
AgentItemFails(k) ==
    /\ agent[k].pc = "printing"
    /\ agent[k].todo > 0
    /\ agent' = [agent EXCEPT ![k].todo = @ - 1]
    /\ \E j \in agent[k].job : unprinted' = [unprinted EXCEPT ![j] = @ + 1]
    /\ UNCHANGED <<job, stray, reports, requeues, faults, grants, runs>>

\* Mutant: failures of single documents are not counted.
OutcomeKindIgnoresFailures(proofs) == "complete"

\* /failed only when every document failed; otherwise /complete, "confirmed" when
\* every document that printed was confirmed.
OutcomeKind(proofs) == IF proofs = {} THEN "failed" ELSE "complete"
OutcomeProof(proofs) == IF proofs = {"confirmed"} THEN "confirmed" ELSE "unconfirmed"

\* The report is posted once; the agent goes on when the answer comes or the
\* client times out, so the request is left to be handled at any later time.
AgentReport(k) ==
    /\ agent[k].pc = "printing"
    /\ agent[k].todo = 0
    /\ \E j \in agent[k].job :
          reports' = reports \cup
            {[kind |-> OutcomeKind(agent[k].proofs), kiosk |-> k, job |-> j,
              proof |-> OutcomeProof(agent[k].proofs), stage |-> "sent", row |-> job[j]]}
    /\ agent' = [agent EXCEPT ![k] = [IdleAgent EXCEPT !.list = agent[k].list]]
    /\ UNCHANGED <<job, stray, requeues, faults, grants, runs, unprinted>>

\* The agent process dies and is started again with nothing remembered.
AgentCrash(k) ==
    /\ agent[k] # IdleAgent
    /\ faults < MaxFaults
    /\ agent' = [agent EXCEPT ![k] = IdleAgent]
    /\ faults' = faults + 1
    /\ UNCHANGED <<job, stray, reports, requeues, grants, runs, unprinted>>

(***************************************************************************)
(* The reports at the backend                                              *)
(***************************************************************************)

\* The request never arrives. The agent does not send it again.
ReportLost(r) ==
    /\ r.stage = "sent"
    /\ faults < MaxFaults
    /\ reports' = reports \ {r}
    /\ faults' = faults + 1
    /\ UNCHANGED <<job, agent, stray, requeues, grants, runs, unprinted>>

OwnedBy(row, k) == row.kioskId \in {k, NoKiosk}

\* POST /failed: one UPDATE, whatever the status, for the kiosk's own row.
FailedReport(r) ==
    /\ r.kind = "failed"
    /\ reports' = reports \ {r}
    /\ IF OwnedBy(job[r.job], r.kiosk)
         THEN job' = [job EXCEPT ![r.job].status = "failed"]
         ELSE UNCHANGED job
    /\ UNCHANGED <<agent, stray, requeues, faults, grants, runs, unprinted>>

Advance(r, stage, row) == reports' = (reports \ {r}) \cup {[r EXCEPT !.stage = stage, !.row = row]}

\* POST /complete reads the row; 403 for another kiosk's job.
CompleteRead(r) ==
    /\ r.kind = "complete" /\ r.stage = "sent"
    /\ IF OwnedBy(job[r.job], r.kiosk)
         THEN Advance(r, "checked", job[r.job])
         ELSE reports' = reports \ {r}
    /\ UNCHANGED <<job, agent, stray, requeues, faults, grants, runs, unprinted>>

\* The entity read is saved with the confirmation.
CompleteRecord(r) ==
    /\ r.kind = "complete" /\ r.stage = "checked"
    /\ job' = [job EXCEPT ![r.job] = [r.row EXCEPT !.agentConfirmation = r.proof]]
    /\ Advance(r, "recorded", r.row)
    /\ UNCHANGED <<agent, stray, requeues, faults, grants, runs, unprinted>>

\* completePrintJob finds the row again by its code ...
CompleteLoad(r) ==
    /\ r.kind = "complete" /\ r.stage = "recorded"
    /\ Advance(r, "loaded", job[r.job])
    /\ UNCHANGED <<job, agent, stray, requeues, faults, grants, runs, unprinted>>

\* ... and saves it DONE, whatever its status was.
CompleteDone(r) ==
    /\ r.kind = "complete" /\ r.stage = "loaded"
    /\ job' = [job EXCEPT ![r.job] = [r.row EXCEPT !.status = "done"]]
    /\ reports' = reports \ {r}
    /\ UNCHANGED <<agent, stray, requeues, faults, grants, runs, unprinted>>

(***************************************************************************)
(* PATCH /admin/jobs/:id/requeue: read, check FAILED, save READY           *)
(***************************************************************************)

\* Mutant: a delivered job may be requeued.
RequeueReadDoneToo(o, j) ==
    /\ \A q \in requeues : q.op # o
    /\ job[j].status \in {"failed", "done"}
    /\ requeues' = requeues \cup {[op |-> o, job |-> j, row |-> job[j]]}
    /\ UNCHANGED <<job, agent, stray, reports, faults, grants, runs, unprinted>>

RequeueRead(o, j) ==
    /\ \A q \in requeues : q.op # o
    /\ job[j].status = "failed"
    /\ requeues' = requeues \cup {[op |-> o, job |-> j, row |-> job[j]]}
    /\ UNCHANGED <<job, agent, stray, reports, faults, grants, runs, unprinted>>

RequeueSave(q) ==
    /\ job' = [job EXCEPT ![q.job] = [q.row EXCEPT !.status = "ready"]]
    /\ requeues' = requeues \ {q}
    /\ UNCHANGED <<agent, stray, reports, faults, grants, runs, unprinted>>

(***************************************************************************)
(* The system                                                              *)
(***************************************************************************)

Release(j) == OperatorRelease(j) \/ \E k \in Kiosks : KioskRelease(j, k)

AgentStep(k) ==
    \/ AgentPoll(k)
    \/ \E j \in Jobs : AgentClaim(k, j) \/ AgentConflict(k, j)
    \/ \E p \in Proof : AgentPrintItem(k, p)
    \/ AgentItemFails(k)
    \/ AgentReport(k)

Fault ==
    \/ \E k \in Kiosks, j \in Jobs : AgentClaimTimeout(k, j)
    \/ \E k \in Kiosks : AgentCrash(k)
    \/ \E r \in reports : ReportLost(r)

HandleReport ==
    \E r \in reports :
        \/ FailedReport(r)
        \/ CompleteRead(r) \/ CompleteRecord(r) \/ CompleteLoad(r) \/ CompleteDone(r)

HandleRequeue ==
    \/ \E o \in Operators, j \in Jobs : RequeueRead(o, j)
    \/ \E q \in requeues : RequeueSave(q)

HandleStray == \E k \in Kiosks, j \in Jobs : StrayClaim(k, j)

Next ==
    \/ \E j \in Jobs : Release(j)
    \/ \E k \in Kiosks : AgentStep(k)
    \/ HandleReport
    \/ HandleStray
    \/ HandleRequeue
    \/ Fault

Spec == Init /\ [][Next]_vars

\* An agent that runs keeps working: its poll timer fires and its loop goes on,
\* and the backend answers a request it received. Releases and requeues are
\* people's choices and faults need not happen.
Fairness ==
    /\ \A k \in Kiosks : WF_vars(AgentStep(k))
    /\ WF_vars(HandleReport)
    /\ WF_vars(HandleStray)

FairSpec == Spec /\ Fairness

(***************************************************************************)
(* Properties                                                              *)
(***************************************************************************)

\* The agents that hold job j: printing it, or with a report on it not handled.
Holders(j) ==
    {k \in Kiosks : agent[k].job = {j}} \cup {r.kiosk : r \in {x \in reports : x.job = j}}

\* A job is in the hands of at most one agent, which is the one its row names,
\* and only while the row says PRINTING. This is what the conditional UPDATE of
\* /start (agent.routes.ts:356-371) is for; /complete and /failed do not check
\* the status and rely on it.
OneHolder ==
    \A j \in Jobs : \A k \in Holders(j) :
        job[j].status = "printing" /\ job[j].kioskId = k

\* Every print run was authorised by a release of its own: no sequence of polls,
\* stale lists, timeouts, crashes, reports and requeues prints a job more often
\* than somebody released it.
RunsWithinGrants ==
    \A j \in Jobs :
        runs[j] + (IF job[j].status = "releasing" THEN 1 ELSE 0) <= grants[j]

\* A job is DONE only if the run that was reported printed one of its documents:
\* no report of an earlier run, and no save of an entity read earlier, makes a
\* job DONE that did not come out.
DoneMeansPrinted ==
    \A j \in Jobs : job[j].status = "done" => runs[j] > 0 /\ unprinted[j] < ItemCount

\* DONE is final: completePrintJob overwrites any status and requeue saves an
\* entity it read before, and still a job that was delivered is never released
\* again.
DoneIsFinal == [][\A j \in Jobs : job[j].status = "done" => job'[j].status = "done"]_vars

\* A released job is settled: as long as nothing crashes, times out or is lost, the
\* agents bring every RELEASING or PRINTING job to DONE or FAILED.
ReleaseSettles ==
    [](faults = 0) =>
        \A j \in Jobs : job[j].status \in {"releasing", "printing"}
                            ~> job[j].status \in {"done", "failed"}

(***************************************************************************)
(* The release implements what PrintGrants promises.                       *)
(***************************************************************************)

HolderOf(row) == IF row.status = "printing" THEN row.kioskId ELSE NoKiosk

Grants == INSTANCE PrintGrants WITH
              phase <- [j \in Jobs |-> job[j].status],
              holder <- [j \in Jobs |-> HolderOf(job[j])],
              prints <- runs

\* Whatever agents, reports and consoles do, a job only ever moves as PrintGrants
\* allows: printed under a grant, held by one kiosk until it is settled, and made
\* ready again only after a failure.
GrantsKept == Grants!Spec

(***************************************************************************)
(* What documents and comments say and the code does not do                *)
(***************************************************************************)

\* FLOWCHARTS.md, section 5: a sweep bumps jobs that got stuck when an agent
\* crashed mid-claim back to READY.
StuckReleaseRecovers ==
    \A j \in Jobs : job[j].status \in {"releasing", "printing"}
                        ~> job[j].status \in {"ready", "done", "failed"}

\* agent.routes.ts:88-91: an agent is given the jobs bound to its kiosk, or bound
\* to none; so a job comes out where it was released.
PrintsWhereReleased ==
    [][\A j \in Jobs :
          job[j].status = "releasing" /\ job'[j].status = "printing"
              => job'[j].kioskId = job[j].kioskId]_vars

\* agent.routes.ts:409-413: a confirmation records that the printer itself
\* reported the job completed.
ConfirmedMeansAllPrinted ==
    \A j \in Jobs :
        job[j].status = "done" /\ job[j].agentConfirmation = "confirmed"
            => unprinted[j] = 0
===============================================================================
