# Printloop in TLA+

Printloop is a two-sided print marketplace: customers upload and pay, shops print. This
directory models its core, the life of a job from the document and its price over the payment
to the paper, the money behind it, the orders that a group collects, and the kiosks it is
printed at. TLC checks it on small instances and TLAPS proves the safety properties for every
instance, some of them under assumptions named [below](#proofs).

Contents: [the system](#the-system) · [modules](#modules-and-the-code-they-model) ·
[runs](#runs) · [deployments](#deployments) · [bounds](#bounds) · [fairness](#fairness) · [proofs](#proofs) ·
[where the code and its comments part](#where-the-code-and-its-comments-part) ·
[not modelled](#what-is-not-modelled) · [plan](#plan)

## The system

| Part (under `src/`) | State it keeps | Operations | Talks to |
|---|---|---|---|
| Release endpoints (`01-backend/routes/printer.routes.ts`, `admin.routes.ts`) | `print_jobs.status`, `kioskId` | `POST /printer/complete`, `POST /admin/jobs/:id/release`, `PATCH /admin/jobs/:id/requeue` | agent protocol (through the row), shortfall gate |
| Agent protocol (`01-backend/routes/agent.routes.ts`, `services/printerExtensions.service.ts`) | `status`, `kioskId`, `agentConfirmation` | `GET /jobs/ready`, `POST /jobs/:id/start`, `/complete`, `/failed` | on-site agents, by HTTP polls |
| On-site agent (`printloop-agent/agent.ts`) | memory only: the list of its last poll, the job being printed | poll, claim, download and dispatch each document, report once | agent protocol, the printer |
| Payment completion (`01-backend/services/payments.service.ts`) | Payment and Transaction rows, the job's payment reference | `completePrintJobPayment`, from the `charge.success` webhook | render hand-off, accept window, ledger |
| Render hand-off, callbacks, sweep (`services/renderEnqueue.service.ts`, `routes/render.routes.ts`, `costReconciliation.service.ts`) | `status`, `renderedKey`, `finalCost` | `enqueueRenderOrReady`, `applyRenderResult`, `applyRenderFailure`, `reconcileStuckRenders` | BullMQ, render worker |
| Render queue's consumers (`worker/src`, `render-worker/src`) | none | render, post the result or the failure; or throw at every job | BullMQ, callbacks |
| Accept window (`services/acceptWindow.service.ts`, `workers/scheduled.worker.ts`) | `tenantId`, `reroutedFromTenantId`, `requiresAccept`, each shop's Transactions | `acceptJob`, `enforceAcceptWindow`, credit and reversal | BullMQ delayed jobs, consoles |
| Shortfall gate (`services/costReconciliation.service.ts`, `settleShortfall`) | `cost`, Payment, DELTA_ transactions | charge the difference before the release | Paystack, release endpoint |
| Payouts (`services/payout.service.ts`, `routes/saas.routes.ts`) | `payouts` rows | `processDuePayouts`, `POST /payouts/instant`, `initiatePayout`, `applyTransferWebhook` | Paystack transfers and webhooks |
| Balance rollup (`services/tenantBalance.service.ts`) | `tenant_balances` | `applyTransactionDelta`, `applyPayoutTransition` | every writer of money |
| CUPS ingress (`src/tools/cups-printloop/printloop`, `routes/cups.routes.ts`) | `print_jobs` with an idempotency key, `files` | the queue's backend script and its retries, `POST /api/cups/print` | CUPS, file store, checkout |
| Customer uploads and checkout (`routes/customerPrint.routes.ts`, `payments.routes.ts`, `services/pricing.service.ts`, `promotion.service.ts`) | `print_jobs.cost`, batch items, `promotions.usageCount` | quote, upload, batch, `applyPromotion`, `initialize-job-payment` | Paystack, payment completion, admin's promotions |
| Retention and file clean-up (`workers/retention.ts`, `fileCleanup.worker.ts`) | the bytes of documents | hourly sweep of the disk, a queue of clean-ups | `print_jobs` status |
| Group sessions (`services/groupSession.service.ts`, `routes/participantUpload.routes.ts`) | `group_sessions`, `group_participants` | join, upload, close by host or schedule, batch release | scheduled worker, release endpoints |
| Edit orders and document editor (`routes/saas.routes.ts`, `editor.routes.ts`, `services/documentEditor.service.ts`, `editorExport.service.ts`) | `document_edits`, `editor_sessions`, `print_jobs` | start, upload, complete, confirm, reject, pay, in two sets of routes: [not modelled](#what-is-not-modelled) | Etherpad, LibreOffice, Paystack |
| Kiosk fleet status (`middleware/kioskAuth.middleware.ts`, `services/kiosk.service.ts`, `kioskAlert.service.ts`, `workers/scheduled.worker.ts`) | `kiosks` rows | heartbeat of every kiosk request, edits, offline sweep, alert mails | kiosks, owners' mail |
| Tenant webhooks, auth and limits, mail, exports, conversion, front ends | | | see [what is not modelled](#what-is-not-modelled) |

Parts meet in three ways: through the **row** of a job (every handler reads it, awaits, and
writes it), through **queues and webhooks** that are lost, late or repeated, and through
**people** who tap twice or at two places.

What makes them hard is the same everywhere. A handler that does `findOne`, awaits and
`save(entity)` makes the row what it was when it was read, but for its own changes, so it undoes
what happened in between. A few transitions are conditional `UPDATE ... WHERE status = ...` statements and do
not. The models keep this difference: a conditional UPDATE is one action; a read and a save
are two, and the save writes the copy. (TypeORM's `save` is itself a SELECT and an UPDATE of the
columns in which the copy differs from it. Every model takes these two as one step, so a row made of
the columns of two handlers, of which one wrote between the other's SELECT and UPDATE, is no state
of a model.)

| Part | Hard behaviour | What makes it correct |
|---|---|---|
| Release and agent | two agents, one row; a claim that times out and arrives later; crash after the claim; lost report; stale lists; a batch that fails in part; two consoles | one holder, printed only under a grant, DONE means printed, DONE is final, every release settles |
| Payment and render | repeated webhook, overlapping calls, lost callbacks, stalled renders, the sweep against a slow render | nothing offered unpaid, unapproved or unrendered, nothing released taken back, every paid job settles |
| Accept window | an accept against the reroute, retries of the window, credits that fail and are swallowed, ledgers of several shops | approval before release, no shop overdrawn but by a window tried again or a credit that was swallowed |
| Shortfall gate | overlapping requests under two print policies, a crash between charge and record, stale saves | charged before released, credited no more than charged, retries charge and release no more |
| Payouts and rollup | tick against instant payout, webhooks early, late, repeated, out of order; lost updates | no overdraft, rows tell what the bank did, one transfer per row, nothing counted twice |
| Ingress and retention | a submission that overlaps its own successor, across the turn of an hour, on a database with the unique index or without; a requeue against the sweep | one job per key, or a race that made two; a document as long as it is needed and no longer |
| Uploads and promotions | redemptions that race, an admin's edit over them, a batch that can be paid half-way | no use too many, the whole is paid |
| Group sessions | uploads that outlast the session, two closes at once | the code shown is the session's, a closed session is settled, an expired one closes |
| Kiosk fleet | saves of stale rows against single UPDATEs, an alert that crashes between mail and stamp | a retired kiosk stays out, a silent one is found, one mail per cool-down |

`PROJECT.json` lists the hazards one by one, at their lines.

## Modules and the code they model

```
Intake        <- CustomerProofs                                     MCIntake
GroupSession  <- CustomerProofs                                     MCGroupSession
Documents     <- DocumentsProofs                                    MCDocuments
PaidJob       <- PaidJobProofs                                      MCPaidJob
ShortfallGate <- ShortfallGateProofs                                MCShortfallGate
PrintRelease  <- PrintReleaseProofs  (refines PrintGrants)          MCPrintRelease
KioskFleet    <- KioskFleetProofs                                   MCKioskFleet
Payouts       <- PayoutsProofs       (refines PayoutLedger)         MCPayouts
```

`CustomerProofs` holds the proofs about both kinds of request a customer makes, alone and in a
group: it extends both modules, which share no name, and nothing in it combines their
specifications. (The specification of `GroupSession` is `GroupSpec`, its rows of `print_jobs` are
`printJob`.)

In the order of a job's life: `Intake` ends with a job that is paid, where `PaidJob` begins; a
`GroupSession` comes instead of it. `PaidJob` ends where
`PrintRelease` starts: its `Release` (READY to "released") is `PrintRelease!Grant`, and
`PrintRelease!Init` is any job that is READY. `ShortfallGate` is what happens inside
`POST /printer/complete` at that transition, for a job whose price rose. `Documents` follows the
bytes of a job from the first submission until they are deleted, with the job's life between
cut down to its statuses. `Payouts` takes the money `PaidJob` credits as `Earn`. `KioskFleet`
decides which kiosks may ask at all.

**PrintRelease.** Variables: the job rows (`status`, `kioskId`, `agentConfirmation`), one
agent process per kiosk, `/start` requests an agent gave up on (`stray`), reports and how far
their handler came, requeues between their read and their save. Each action is one step
between two awaits of the code: `Grant` is the UPDATE of both release endpoints; `ReadyFor`
is the query of `GET /jobs/ready`, whose clause `{ kioskId: null }` TypeORM drops, so it
returns every RELEASING row of the tenant; `AgentClaim`, `AgentConflict` and
`AgentClaimTimeout` are the answers to `/start`; `StrayClaim` is a `/start` that arrives after
its client timed out; `AgentPrintItem` and `AgentItemFails` are one document each;
`AgentReport` posts the outcome once; `CompleteRead`, `CompleteRecord`, `CompleteLoad` and
`CompleteDone` are the two reads and two saves of `/complete`; `FailedReport` is the UPDATE of
`/failed`; `RequeueRead` and `RequeueSave` the requeue. History variables count the grants,
the runs, and the documents the latest run failed to print.

**PrintGrants** is the promise: a job's phase, its holder, the number of runs; it is printed
only under a grant, held by one kiosk until it settles, and made ready again only after a
failure. `GrantsKept` is the refinement.

**PaidJob.** One job, because these handlers meet only on its row. Variables: the row; the
calls of `completePrintJobPayment` and the sweep, with the entity each has read; render jobs,
by who added them, with the attempts left; reports of failed renders on their way; accepts in
flight; the accept-window job; each shop's share of the ledger, and the credits that failed.
A payment is `PaymentRead`, `PaymentCredits` (the ledger, on a connection of its own, whose failure
is swallowed: `missing`), `PaymentCommit`, or `PaymentRollsBack`, which leaves the credit in place.
`enqueueRenderOrReady` is `EnqueueRead`, `EnqueueFlip`, `EnqueueAdd`, `EnqueueRevert`,
`FallbackRead`, `FallbackSave`.

`Consumers` says who listens on the render queue. `worker/` reads the job the API enqueues:
it renders and posts the result (`ResultRead`, `ResultSave`); each attempt that throws is reported
while BullMQ goes on with the next (`RenderFails`, then `FailureRead`, `FailureSave`); a worker that
dies has its job run again, or failed, as stalled (`RenderDies`, `ResultUnacked`); posts are sent once
and their errors logged (`ResultLost`, `FailureLost`). `render-worker/` looks for a
field the API does not send, and throws before its `try` (`RenderThrows`). The sweep is `SweepFind`,
`SweepDemote`, then the enqueue, `SweepGiveUp`, `SweepFail`. An accept is `AcceptFind`, `AcceptRead`,
`AcceptCredit`, `AcceptSave`, or `AcceptThrows`; the window debits whether or not there was a credit
(`WindowReverses`). `RenderOn` is FALSE for a batch parent, which is never rendered.

**ShortfallGate.** One job whose final price is above what was paid, any number of release
requests under either print policy (`Modes`): the look for an earlier DELTA_ transaction (which
only a customer with a wallet can have), the charge, the transaction that records it with the
entities read before, the credit to the shop, which may fail. A job without a Payment (CUPS) or
whose user is gone passes the gate uncharged, a payment without a saved card is answered 402
(`GateReads`, `PriorMissing`; `Customer` says which it is). In kiosk-pull mode the conditional
release follows
(`Releases`). In cloud-push mode, the default of the setting (`config/settings.ts:66`), the
request prints the document itself (`Dispatches`), without a look at the status, and then
`completePrintJob` saves the job as it was found before the gate (`Completes`): the settled cost
is the estimate again, which `forgotten` counts.

**Payouts.** One shop: calls of `initiatePayout` (the tick and the owner), the payout rows,
what Paystack did with each transfer (external, modelled from its answers and webhooks), the
webhooks under way, and the rollup as read-and-save calls. `Earn` may insert a Transaction, call
the rollup's helper, or both, since the code ties neither to the other; `Reverse` calls the helper
for a reversal, which has no Transaction. `POST /payouts/instant` saves the
entity it was given once more, to record its fee (`PayerBackfills`).

**PayoutLedger** is the promise: money that was earned is available until a payout claims it; a
claim is asked for once, and the money lands or is available again; what a settled row tells the
shop is what happened. The refinement `LedgerKept` reads a payout's phase off the bank, the row
and the call at work (`PhaseOf`), and what is available as the earnings less what is committed.

**Intake.** For each customer the handler at work: `Prices`, or for a batch `InsertsParent`,
`AddsItem`, `Totals`; then `ReadsPromo` and the conditional UPDATE of `usageCount` (`Redeems`);
then the answer of a quote, the inserted job or the saved batch. `Resubmits` is CUPS again after a
lost answer. A checkout has the job's cost at the time it is opened, and `Pays` takes any checkout
still open. `EditReads` and `EditSaves` are an admin's PATCH, which saves the count it read.

**Documents.** For each CUPS job the backend script, which submits and waits, and whose exit code 4
stops the queue ("halted") until somebody enables it (`Resumes`); for each request the handler:
`LooksUp` by key, `StoresDocument`, `InsertsJob`, `Answers`. `indexed` says whether the database has
the unique index that refuses a second insert. Rows have a status and an age in hours. `SweepFinds`
and `SweepUnlinks` are the retention sweep, `CleanupRuns` the queue's job 24 hours after a cloud-push
completion; a requeue is its read and its save.

**GroupSession.** The session row, participant rows and jobs; calls of participants between
their look at the session and their write; calls of `closeSession`, of the host and of the
scheduled job. A code is named by the call that minted it. `CompleteBatch` prints what
`getBatchPrintData` finds.

**KioskFleet.** The kiosks rows, with ages for timestamps; `BeatReads` and `Saves` are the
middleware in front of every kiosk request; edits read and save too, removal and sweep are single
UPDATEs. The sweep's two queries have different conditions (`SweepFinds`, `SweepMarks`), as SQL
has it for a null campus. `AlertReads`, `AlertMails` and `AlertStamps` are one run of
`notifyOfflineKiosks`, which the sweep does not wait for.

Data is abstracted to what the properties tell apart: prices are units, a render result is
"rendered", an address of a shop is its identity. Each module keeps, after its operators, the
mutated forms (`\* Mutant:`) with which every checked property is shown to be breakable.

## Runs

| Run | Instance | Properties | Distinct states |
|---|---|---|---|
| PrintRelease | two jobs of two documents, two kiosks, one console, two releases of each job, one fault; FairSpec | TypeOK, OneHolder, RunsWithinGrants, DoneMeansPrinted, DoneIsFinal, GrantsKept, ReleaseSettles | 503,089 |
| PaidJob | marketplace job, two shops, two deliveries, one sweep as early as it likes, a window of two attempts, either consumer, one fault of the payment, the ledger, the window or the queue | TypeOK, PaidBeforeOffered, ApprovedBeforeReady, OverdrawnByFaultsOnly | 5.0 million |
| PaidJobHandOver | one shop, one delivery, `worker/` alone, four render and callback faults, three attempts; FairSpec | RenderedWhenOffered, HandedOverStays, PaidSettles | 480 |
| PaidJobShipped | the same with `render-worker/` alone, and no fault | CallbackFlips is violated | |
| Payouts | one payer (the owner, with a fee), two rows, five units, one repeated webhook, refused transfers | NoOverdraft, RowTellsTruth, AskedOncePerRow, LedgerKept | 395,045 |
| PayoutsDrift | the tick, two sales and a reversal, the rollup as separate reads and saves, refused and lost transfers | NothingCountedTwice | 2.2 million |
| PayoutsDoublePay | the tick and the owner together | NoOverdraft is violated | |
| ShortfallGate | three requests under either policy; with and without a Payment, a user, a card, a wallet; two faults of any kind, one cloud-push print | TypeOK, PaidBeforeReleased, CreditedAsCharged, RetriesDoNotCharge, RetriesDoNotRelease | 3.2 million |
| Intake | two customers, one code of four kinds with one use, documents or batches of one or two, two admin edits, two failures | NeverOversold, PaidInFull | 1.7 million |
| Documents | one CUPS job, two requests, with and without the index, two documents on disk or in the cloud, two hours, one fault; FairSpec | TypeOK, OneJobPerKey, TwiceOnlyByRace, KeepsDocument, DocumentGoes | 824,976 |
| GroupSession | two people, two rows, two jobs, two requests, the host and the scheduled job, one crash; FairSpec | CodeKept, ClosedStaysSettled, ExpiredCloses | 305,780 |
| KioskFleet | one kiosk, one heartbeat, one operator request, two alerts, one crash; FairSpec | TypeOK, OneMailPerCooldown, StaysOut, SilentGoesOffline | 1.1 million |

What they show:

- **Release.** Neither `/complete` nor `/failed` checks the status it overwrites. They may,
  because the conditional claim makes the reporter the only holder, and `OneHolder` says that
  it is and stays so through stale lists, stray claims, requeues and crashes. `DoneIsFinal` and
  `DoneMeansPrinted` are what a customer sees of it. All of it holds with one console. With two,
  a requeue that was read before another one saves after it, over a claimed row.
- **Payment and render.** Overlapping webhooks pay twice and enqueue twice, and a save of
  one of them may take a row back; even so no row is offered without its payment reference, and
  no marketplace job is released unapproved. `HandedOverStays` and `RenderedWhenOffered` are
  checked where deliveries do not overlap and the sweep comes after the renders. With two
  deliveries the second one's late save (`PaymentCommit` or `EnqueueFlip`) does take a released job
  back to PENDING or RENDERING. `PaidSettles` is of a deployment that runs `worker/`; with
  `render-worker/` alone no paid job is ever rendered (`PaidJobShipped`).
- **Accept window.** Without faults an accept that overlaps a reroute leaves the credit at the
  wrong shop, but takes no ledger below zero. Two faults can: a reroute that fails after the reversal
  is tried again by BullMQ, and reverses again; and the payment's or the accept's credit may fail,
  which is logged and dropped, while the window's reversal debits the shop all the same.
  `OverdrawnByFaultsOnly` says that nothing else does, and by no more than one for each attempt that
  failed and each credit that was swallowed. That the window fires once is part of it: the mutant is
  a re-arming that works.
- **Shortfall gate.** The guard against a second charge is weaker than its comment: each
  overlapping request, and each fault, may charge once more, and each request once more again
  when a cloud-push completion has put the old cost back. It is not weaker than that, and for a
  job with a Payment and a user, paper comes out under neither policy before the first charge. A job
  without one of them passes the gate uncharged.
- **Payouts.** With one payer, whatever order webhooks, saves of stale entities and reversals
  come in, the shop is not sent more than it earned and a settled row is right: the payouts implement
  `PayoutLedger`. The rollup loses updates, of debits too, and counts none twice; it says nothing of
  the Transactions, since neither is written for the other.
- **Intake.** The conditional UPDATE of the usage count holds against any race of redemptions;
  only an admin's edit takes uses off it, by saving the row it read. A batch can be found by the
  payment's handler from its first row on, at no cost: that an amount of nothing is refused is
  what keeps it from being paid before it is complete.
- **Documents.** Where the unique index exists it keeps one job per key although the lookup alone
  would not. Where it does not (Postgres), a submission that curl gave up after 120 s and its
  successor, once the queue is enabled again, make two jobs; `TwiceOnlyByRace` says that only such an
  overlap does. Neither the sweep nor the clean-up takes a document that was never done or failed for
  the retention time.
- **Group sessions.** `linkFileToParticipant` looks at the session again, so an upload that began
  before the close and ends after it leaves a job but no link. Two closes at once each show a
  code, and the first code is void.
- **Kiosk fleet.** A heartbeat saves the row as it read it, but is refused for a retired kiosk;
  the sweep touches ACTIVE rows only. So retirement holds but for requests in flight.

Some properties excuse a race the code loses, and say only that nothing else does the damage:
`OneMailPerCooldown` excuses a lost stamp and overlapping alerts, `StaysOut` a request that overlaps
the removal, `CodeKept` two closes at once, `TwiceOnlyByRace` two submissions at once without the
index, `ReleaseSettles` behaviours with a fault. What the excused races do is stated as properties of
its own where [the code and its comments part](#where-the-code-and-its-comments-part), and
`PROJECT.json` lists those hazards as open.

`CHECK_DEADLOCK FALSE` where the system may stop: a job that is done or stuck, a bound that
is reached.

## Deployments

Some of what holds depends on how the program is deployed. The models have this as parameters.

- *Database.* `print_jobs_user_idem_uniq` is created by the SQLite migrations
  (`1717700000000-InitSchema.ts:301` and after) and by none for Postgres, and `synchronize` is off.
  `docker-compose.prod.yml` runs Postgres and two API replicas. `Documents` has both (`indexed`);
  `OneJobPerKey` is claimed with the index, `TwiceOnlyByRace` with or without.
- *Render consumer.* `docker-compose.yml`, `docker-compose.prod.yml` and `render.yaml` deploy
  `render-worker/`. It takes `fileId` from the job (`render-worker/src/worker.ts:105`), which the API
  does not send (`renderEnqueue.service.ts:83-93`), so each attempt throws; and its callbacks would go
  to `/api/internal/render/callback` (`render-worker/src/config/index.ts:29`), while `app.ts:173`
  mounts `/api/render`. As shipped, a paid job stays RENDERING and the sweep enqueues it again for
  ever: `PaidJobShipped`. `worker/` reads `sourceFileKey` and posts to `/api/render`;
  `CODEBASE-DICTIONARY.md:957` says that either may run. The safety properties are checked and proved
  with either or both; `PaidSettles` is claimed of `worker/` alone.
- *CUPS.* The script ends with exit 4 on a 5xx, a timeout or a lost connection
  (`tools/cups-printloop/printloop:185-190`). Its comments call that "retry-current"; to CUPS it is
  `CUPS_BACKEND_STOP`, which stops the queue, and a retry would be 6 or 7. So a submission is answered
  only if somebody enables the queue again, and no run claims that it is (`SubmissionSettles` is
  violated). Jobs of one queue are printed one after another, so an overlap takes a request that was
  given up and is still being served.
- *Money.* `applyTransactionDelta` is called on a connection of its own and its failure is swallowed
  by every caller (`payments.service.ts:102-106`, `acceptWindow.service.ts:117-119, 155-159`): a fault
  of the kind "ledger" in `PaidJob`, a choice in `Payouts` and `ShortfallGate`.
- *Timing.* `Unhurried`: the sweep's 15 minutes are longer than a render job takes, and a customer
  needs longer to release a job than a callback's handler to save it. It is TRUE only where a property
  is about lost renders, and assumed by the two theorems on the hand-over (`Plain`). A render that is
  stalled for BullMQ while its worker is alive, so that two workers render one job at once, is not
  modelled.

## Bounds

Every bound is a constant: `MaxGrants`, `MaxFaults`, `MaxSweeps`, `MaxAttempts`, `MaxPayouts`,
`MaxEarned`, `MaxReversals`, `MaxRepeats`, `WindowAttempts`, `MaxPrints`, `MaxHour`, `MaxDocs`, `MaxEdits`, `MaxKeys`, `MaxCrashes`.

- *Two of each actor* is the smallest number that races; agents, deliveries, requests and
  payers do not tell each other apart, and a violation above takes two. The three requests of
  `ShortfallGate` let one come when two others have raced. `PaidJob` has two shops:
  a reroute leads from the one to the other, and that of a retry may lead back. A third is one more candidate of the
  same reroute; the proof covers any number.
- *Two window attempts* are the first and a retry, the least that reverses a credit twice.
- *Two grants* let a report, a list entry or a stray claim of the first run meet the second
  run. *Two documents* let a batch fail in part. *One fault* in each place; the proofs
  cover more.
- `PaidJobHandOver` has *four faults and three attempts*, the API's `defaultJobOptions`: enough to use
  up the attempts of one render job and to lose the callback or the report of the next. An unhurried
  sweep finds no render under way, so it may use the number of its last render job again. The state
  space is small because one delivery and a sweep that waits leave few handlers at a time.
- `PaidJob` leaves the faults of the consumer to `PaidJobHandOver`: with two consumers and a sweep that
  overtakes, results are late, repeated and stale in it without them.
- `Payouts` needs *five units, fee two*, so that what an instant payout leaves, its fee, is
  enough for another payout, and *two rows*, so that money that came back is paid out again.
- `Rollup` is FALSE, and `tenant_balances` not followed, in the runs whose properties do not look at
  it. No handler reads it back, so nothing else changes. *Two sales and a reversal* are the least that
  lose a credit or a debit while another is added.
- *Symmetry*, where a run checks invariants only: deliveries and the shops that are not the
  job's first in `PaidJob`, requests in `ShortfallGate`, customers in `Intake`.
- *One cloud-push print* lets a settled cost be forgotten and charged again; the proof has any number.
- `Intake`: *one use and two customers* race for it, *two edits* let one be read before and saved
  after the other's redemption. The four promotions are half the price, a fixed amount below the
  floor, a free page, and the whole price; at four a page the floor of five applies to one page and
  not to two. Two requests of one customer follow each other: they share nothing but the code.
- `Documents`: *two requests* for one client are a submission and its retry, on either side of an
  hour's turn; *two documents* are what both of them store. A retention time of one tick is as
  good as 24: a job is either due or not.
- `GroupSession`: *two rows* let one person have two; `Closers` are the host and the schedule.
- `KioskFleet`: kiosks share nothing but the mail, so one is enough. The code's times are
  three and six periods of the sweep; *two and three* keep their order. *Two alerts* overlap when a mail outlasts a period.

## Fairness

`PrintRelease`: weak fairness of each agent's loop (`setInterval`, then a sequential loop), of
the backend's handlers, and of requests on their way. Not of releases, requeues or faults.
`ReleaseSettles` is claimed of behaviours without faults only: after a crash or a lost report
nothing in the code would settle the job.

`PaidJob`: weak fairness of calls that have started, of the sweep (a repeatable job every ten
minutes), of the render queue's consumer and its posts, of accepts in progress, and of the delayed
window. Charges, accepts and releases are people's choices. Faults are bounded, as BullMQ's attempts are.

`Documents`: the server works on what it accepted, the sweep's timer and the clean-up queue
run, time passes (weak), and a queue that is not stopped runs its script (strong: a request slot of
the model comes and goes). That somebody enables a stopped queue is not assumed, nor are operators'
requeues and the job's progress.

`GroupSession`: the scheduled job and time. `KioskFleet`: the sweep's steps, the alerts, and the
saves of requests that have begun. Time's `Tick` needs no fairness there: what is claimed is
about kiosks that are already silent.

`Payouts`' fairness is used only for `WebhookSettles`.

## Proofs

TLAPS proves, for every value of the constants (any number of jobs, kiosks, documents,
releases, faults; shops, deliveries, sweeps, attempts; payers, rows, webhooks; overlapping
requests, crashes):

| Module | Theorem | States |
|---|---|---|
| PrintReleaseProofs | TypeCorrect, OneHolderHolds, RunsWithinGrantsHolds, DoneMeansPrintedHolds | `Spec => []` of the invariant |
| PrintReleaseProofs | DoneIsFinalHolds | a delivered job stays DONE |
| PrintReleaseProofs | Refinement | `Spec => GrantsKept`, the implementation of PrintGrants |
| PaidJobProofs | TypeCorrect, PaidBeforeOfferedHolds, ApprovedBeforeReadyHolds, OverdrawnByFaultsOnlyHolds | `Spec => []` of the invariant |
| PaidJobProofs | RenderedWhenOfferedHolds, HandedOverStaysHolds (both where `Plain`) | what is released is rendered, and stays released |
| ShortfallGateProofs | TypeCorrect, PaidBeforeReleasedHolds, CreditedAsChargedHolds, RetriesDoNotChargeHolds, RetriesDoNotReleaseHolds | `Spec => []` of the invariant |
| PayoutsProofs | LedgerKeptHolds (where `OneAtATime`) | `Spec => LedgerKept`, the implementation of PayoutLedger |
| PayoutsProofs | TypeCorrect, NoOverdraftHolds (where `OneAtATime`), RowTellsTruthHolds (where no transfer times out), AskedOncePerRowHolds, NothingCountedTwiceHolds | `Spec => []` of the invariant |
| DocumentsProofs | TypeCorrect, OneJobPerKeyHolds, TwiceOnlyByRaceHolds, KeepsDocumentHolds | `Spec => []` of the invariant |
| CustomerProofs | NeverOversoldHolds, PaidInFullHolds | `Spec => []` of the invariant |
| CustomerProofs | GroupTypeCorrect, CodeKeptHolds | `GroupSpec => []` of the invariant |
| CustomerProofs | ClosedStaysSettledHolds | once settled, a closed session stays so |
| KioskFleetProofs | TypeCorrect, OneMailPerCooldownHolds | `Spec => []` of the invariant |
| KioskFleetProofs | StaysOutHolds | a retired kiosk stays out |

*PrintReleaseProofs* assumes `ConstantsOK` and `OneConsoleAtATime` (at most one operator). The
second assumption is needed: with two consoles, `OneHolder` is violated (below). The properties are not
inductive: that a report finds its row PRINTING depends on who may hold the job. The invariant
adds, for every job, that an agent that prints it is the row's kiosk and no report on it is under
way (`AgentHolds`), that a report under way is the only one and its entity agrees with the row
(`ReportHolds`), that a requeue under way finds the row FAILED, with the entity it read
(`RequeueHolds`), and how runs and grants count. One lemma per action, one step per conjunct.

*PaidJobProofs* assumes `ConstantsOK` only. The point is the stale saves. Its invariant says that
every entity a handler will save is *vouched*: there is a payment, the copy carries the reference,
and for a marketplace job it still requires acceptance (`CallCopies`, `HandlerCopies`, `PaidRow`).
So a save that takes the row back, whichever it is, takes it back to a row that the release gate and
the accept window still treat correctly. `WindowTries` bounds the window's attempts, for the type.

The ledgers are in one of two states (`Ledgers`). Until the window has reversed anything, every copy
of the row names the first shop, whose credits and swallowed credits together come to at least what
was paid, so the first reversal is covered (`Covered`). Afterwards each shop that is short is short by
no more than its swallowed credits and the attempts that failed, and an attempt still to reverse leaves
one of those unused (`Tried`): that an attempt reverses once and is not tried again unless it failed is
what keeps the count.

`RenderedWhenOffered` and `HandedOverStays` assume `Plain`: no marketplace, one delivery, and a
sweep later than any render. Each is needed: a second delivery, or a sweep that overtakes a slow
render, does take a released job back, and on the marketplace the window's auto-accept saves the row
it read before an operator accepted, over the release. Then one of the delivery, the sweep the
renders and their reports works on the row at a time (`OneAtWork`), the delivery first
(`DeliveryFirst`), and a call that is at work holds the row as it is (`CallKnows`). A render's result
and the report of its own earlier attempt may both be about to be saved, over each other but not over
a released row (`RenderKnows`).

*ShortfallGateProofs* assumes `ConstantsOK` only (a finite set of requests). The two bounds on
retries are about counts of requests, so its invariant counts them. While the row is as it came
(`NewRow`) and no charge was recorded, nobody is past the charge, and every charge is either about
to be recorded or the work of a fault (`Unsettled`). `Bounded` counts the charges made and those
still possible against the requests, once more for every time a settled cost was forgotten
(`Again`), and the faults. Once the row is no longer new, each request that will still save the
READY entity it read may release once more, which with the releases made stays within the number of
requests (`Settled`). `CreditsLag` counts the charges still owed to the shop. `CountMove` says how a
step of one request changes a count, from the library's theorems on cardinality; every action then
is one application of it.

*PayoutsProofs* assumes `ConstantsOK`, and for `RowTellsTruth`, `NoOverdraft` and `LedgerKept` that
no transfer call times out: with a lost answer the row says FAILED of a transfer that was made. Its
invariant ties each row to the one call of `initiatePayout` that works on it (`Owns`, `OneEach`), to
what the bank did with it (`RowOK`), and to the entities that webhooks have read (`HookOK`).
`NothingCountedTwice` follows from `Booked`: of the credits and debits that were called for, what a
helper is still to add is neither in the rollup's row nor in any copy of it that was read.

`NoOverdraft` compares sums over rows. The library's induction theorems take an operator, which the
provers cannot instantiate, so `Climb` states induction up to a bound over a set and proves it from
the theorem that every non-empty set of naturals has a least element. From it follow that the sums
are what their equation says (`SumsDefined`), that they grow with their weights and with their rows
(`SumsGrow`, `TotalGrows`), and that they add (`SumsAdd`). The invariant then is: what is committed,
rows whose transfer was made or is about to be asked for, is within what was earned, together with
the amount a call has read as available (`Covered`); what is committed is reserved
(`CommittedReserved`), so a call reads no more than the rest; and no stale entity changes an amount
(`AmountsKept`). Both parts of `OneAtATime` are needed: two payers read the same balance
(`PayoutsDoublePay`), and a lost answer frees money that was sent.

`LedgerKept` rests on the same invariant. A read, a repeated webhook and the rollup are no step of
the ledger (`LedgerRests`); every save of a row, fresh or stale, is a `Tell`, since it says what the
bank did (`LedgerTells`); the creation of a row, the answer and the bank's moves are the others, and
change what is available by just the amount of their row (`TotalJoins`, `TotalLeaves`).

*DocumentsProofs* assumes `ConstantsOK`, and nothing of the database. A stored document is one
request's own until it is in a job (`Intake`), and what is old enough for the sweep, or in the list it
is about to unlink, has once been finished for the retention time (`OldEnough`): a requeue in between
changes the job and not that. For `TwiceOnlyByRace`, as long as no race is recorded for a key, at most
one request is making a job for it, and only where there is none yet (`OneMaker`).

*CustomerProofs* assumes `ConstantsOK` and `GroupConstantsOK`. For `Intake`, what a code was given
for is what it counts and what edits took off the count, and the count is within the limit in the
row and in the copy an edit will save (`Uses`). A request that has priced its job holds its price,
less the discount it redeemed (`Quoted`), a job that costs anything costs that (`Priced`), and so
does every checkout opened on it (`Charged`); a batch still being taken in costs nothing, and
nothing is not charged.

For `GroupSession`: unless two closes raced, the call about to save is the only one and the session
is open (`OneClose`), so a code shown to anybody is the one in the row (`CodesShown`).
`ClosedStaysSettled` needs no more than that every way to a write leads over a look at the session.

*KioskFleetProofs* assumes `ConstantsOK`. For a kiosk whose stamp nothing lost, one alert at a time
holds it, mails it only when it is due, and since the last mail it is stamped or about to be
(`StampsKept`). `StaysOut` is a statement about each step and needs the types only.

Every safety property of the passing runs is stated by a theorem; the type invariants of `Payouts`,
`GroupSession` and `Intake` are proved and in no run. Only model-checked is the liveness
(`ReleaseSettles`, `PaidSettles`, `DocumentGoes`, `ExpiredCloses`, `SilentGoesOffline`), which is out
of the prover's reach.

## Where the code and its comments part

Two disagreements have runs of their own. `PayoutsDoublePay`: `payout.service.ts:146-148` says that the
PENDING row is written at once so that concurrent ticks do not pay twice; the balance is read
before it, by two callers, and `NoOverdraft` is violated. `PaidJobShipped`:
`renderEnqueue.service.ts:10-13` says that the render worker calls back to flip the status from
RENDERING; it cannot read the job, and `CallbackFlips` is violated without any fault.

The others are stated in their modules, under "What comments say and the code does not do". TLC
finds each violated on the instance named here, the .cfg of that name with the changes given; they
are not among the runs.

| Property | Says | Violated with |
|---|---|---|
| StuckReleaseRecovers | FLOWCHARTS.md:411-414: a sweep takes up stuck RELEASING jobs; none exists | PrintRelease, one job |
| OneHolder | `agent.routes.ts:356-371`: the claim lets one agent hold a job; requeue (`admin.routes.ts:101`) saves an entity without a condition | PrintRelease, one job, TwoConsoles, no fault |
| PrintsWhereReleased | `agent.routes.ts:88-91`: an agent gets the jobs bound to its kiosk or to none | PrintRelease, one job, one grant |
| ConfirmedMeansAllPrinted | `agent.routes.ts:409-413`: confirmed means that the printer reported the job completed | the same |
| PaidOnce | `payments.service.ts:33`: a job already paid is left alone; the row stays PENDING and is not locked | PaidJob, one shop, no fault |
| EnqueuedOnce | `renderEnqueue.service.ts:54-55`: the flip keeps a concurrent caller from enqueueing | the same |
| RejectionFallsThrough | `renderEnqueue.service.ts:104-109`: a rejected add falls through to READY | PaidJobHandOver, MoneyAndQueueFaults, one fault |
| StuckJobFails | `renderEnqueue.service.ts:273`: a job the sweep cannot recover is FAILED | PaidJobHandOver, FaultKinds of every kind, two faults, one attempt |
| NeverBlocked | `acceptWindow.service.ts:20-21`: the customer is never blocked | PaidJob under FairSpec, one delivery, no fault, OnlyWorker, Unhurried |
| CreditFollowsJob | `acceptWindow.service.ts:23-25`: money moves exactly once per shop | PaidJob, one delivery, no fault |
| NobodyOverdrawn | `acceptWindow.service.ts:18-19`: the money follows the job, so no shop gives back more than it got; a window tried again debits twice, and a credit that was swallowed is debited all the same | PaidJob |
| StaysPending | `payout.service.ts:160-162`: a failed API call leaves the row PENDING | PayoutsDrift, Rejected |
| WebhookSettles | `payout.service.ts:148`: the webhook settles the row | PayoutsDrift under FairSpec, no errors, Rollup FALSE |
| RollupAddsUp | `tenantBalance.service.ts:13-25`: each helper holds a row lock, and is called after a Transaction is inserted | PayoutsDrift, no errors, no reversal |
| CountedOnce | `payout.service.ts:214-217`: a webhook is idempotent | PayoutsDrift, no errors, one repeat |
| ChargedOnce | `costReconciliation.service.ts:36-38, 193-203`: no double charge, the gate never fires again | ShortfallGate, two requests, no fault, no print; or one request, no fault, two prints; or one with a crash |
| ReleasedOnce | `printer.routes.ts:224-225`: two kiosks cannot both win | ShortfallGate, two requests, no fault, no print |
| QuoteHolds | `customerPrint.routes.ts:671-672`: the price in the quote is the price debited; the quote takes a use itself | Intake |
| AlwaysPositive | `promotion.service.ts:20-21`: the cost is always positive | Intake |
| UsesAreJobs | `customerPrint.routes.ts:514-515`: the counter counts the jobs that have the discount | Intake |
| ReadyKeepsDocument | `retention.ts:21-23`: a READY job keeps its file; one requeued late does not | Documents |
| OneJobOnAnyDatabase | `printJob.entity.ts:51-52`: a user has one active job per idempotency key; on Postgres no migration creates the index | Documents |
| SubmissionSettles | `tools/cups-printloop/printloop:122-123`: CUPS retries the whole backend with exit code 4, and `README.md:99` there "Job retries forever"; it stops the queue | Documents |
| OneJobPerSubmission | `printJob.entity.ts:215-221`: a resubmission returns the existing job; past the hour it does not | Documents |
| NoOrphans | `retention.ts:14-16`: no file stays for ever; that of a refused insert does | Documents |
| DoneDocumentGoes | `fileCleanup.worker.ts:25-29`: a document goes 24 hours after completion; one in S3, or one an agent completed, does not | Documents |
| BatchPrintsThePaid | `printer.routes.ts:477`: one code, every paid participant's file; `markParticipantPaid` is never called | GroupSession |
| EverySilentGoesOffline | `scheduled.worker.ts:71`: silent kiosks go OFFLINE; those without a campus do not | KioskFleet |
| ComesBack | `kioskAlert.service.ts:101-102`: a kiosk that calls again re-appears | KioskFleet |
| RemovalSticks | `kiosk.service.ts:252`: a deleted kiosk is DISABLED | KioskFleet |
| DisclosedKeyWorks | `saas.routes.ts:613-628`: the key disclosed is the kiosk's | KioskFleet, two edits |
| TestPrintKept | `admin-kiosk.routes.ts:42-43`: the test print is recorded | KioskFleet, two edits |

## What is not modelled

- *The edit flow* (`saas.routes.ts`, `editor.routes.ts`): no state it starts from can be reached with
  the migrations of the repository. The CHECK on `print_jobs.status`
  (`1720500000000-AddAcceptWindowFields.ts:57`) refuses `awaiting_edit` on SQLite, so the request that
  creates such a job answers 500. The `DocumentEdit` is created without its NOT NULL `tenantId`
  (`customerPrint.routes.ts:254-276`) and the failure is dropped (289-292). On Postgres the migrations
  of its tables use `DATETIME` and `datetime('now')`, which Postgres does not have
  (`1720900000000-CreateDocumentEditsTable.ts:26-29`, `1721100000000-CreateEditorSessionsTable.ts:22-25`).
- *The personal batch of a cloud-push release* (`printer.routes.ts:254-365`): a batch parent is
  never rendered, so it has no shortfall; its loop marks the job DONE whatever came out. Single
  documents under cloud-push are in `ShortfallGate`, `/complete-batch` in `GroupSession`.
- *`PATCH /progress`, the capability report*: no client in the repository calls them for a decision
  the models make.
- *The printer transports* (IPP, spooler, raw): an outcome per document, confirmed, unconfirmed or
  failed. The older agent (`src/kiosk-app`) plays the same part as the one modelled; `virtualPrinter.cjs` and `devApi.routes.ts` are for development.
- *The price matrix, promotion dates and scope, the commission's split*: `Intake` has a price per
  page with the floor of five, and every kind of discount. An admin's edit changes the status; it
  may also change `maxUses`, which `Intake` keeps.
- *The rendering itself*: the pipeline of `worker/` is one action; that of `render-worker/`, its
  callbacks and its DLQ worker are never reached by a job the API enqueues.
- *Contents*: what conversions, preflight and watermarks hold; the collaboration rooms keep no rows. Files two jobs share (a reprint) under retention.
- *Mail, exports, backups, tenant webhooks, reports, onboarding, discovery, reviews, disputes*:
  reads, single-row writes and outbound I/O, with no protocol to check.
- *Authentication, roles, rate limits*: request checks without interleavings that matter here.
- *Front ends*: clients of the API.
- *No Redis*: without it there are no queues, sweeps or windows, and a paid job goes straight to
  READY; `PaidJob` has Redis configured.

## Plan

1. Done: the life of a job from intake to the paper, group sessions, retention, the kiosk fleet,
   payouts and rollup; proofs of every safety property of them.
2. Composition: `PaidJob`, `ShortfallGate` and `PrintRelease` over one row, with the promise that
   what is printed was paid in full, where the gate has somebody to charge.
3. Proofs: the sum of several overlapping payers, each overdrawing by what it read; the refinement
   of a payment's life by `PaidJob`.
4. The commission split as operators against a reference definition; the brute-force counter.
