---------------------------- MODULE PaidJobProofs ----------------------------
(***************************************************************************)
(* Proofs about PaidJob, for any shops, deliveries, faults and bounds:     *)
(* what every save of an entity read earlier preserves.                    *)
(***************************************************************************)
EXTENDS PaidJob, TLAPS

USE DEF queue, money

(***************************************************************************)
(* The inductive invariant                                                 *)
(***************************************************************************)

\* What the payment writes to a row, and every later copy of the row still says.
Vouched(r) == payments > 0 /\ r.paid /\ (Marketplace => r.requiresAccept)

PaidRow == payments > 0 => Vouched(row)

\* A job that has left PENDING, and a call that is past its transaction, had a payment.
PaidFirst ==
    /\ row.status # "pending" => payments > 0
    /\ \A c \in Callers : call[c].pc \notin {"idle", "tx", "commit"} => payments > 0

\* The entities that calls of the payment and of the sweep will save.
CallCopies ==
    \A c \in Callers :
        /\ call[c].pc \in {"tx", "commit"} => call[c].row.status = "pending"
        /\ call[c].pc \in {"flip", "add"} => call[c].row.status \in Trigger
        /\ call[c].pc \in {"flip", "add", "promote", "stuck", "fail"} => Vouched(call[c].row)

\* The entities that callbacks, accepts and the window will save.
HandlerCopies ==
    /\ \A i \in RenderIds :
          /\ renders[i].stage = "save" => Vouched(renders[i].row)
          /\ reports[i].stage = "save" => Vouched(reports[i].row)
    /\ \A s \in Shops : accept[s].pc \in {"credit", "save"} => Vouched(accept[s].row)
    /\ window.pc \in {"auto", "reverse", "reroute"} =>
          Vouched(window.row) /\ window.row.status = "awaiting_accept"
    /\ window.pc \in {"reverse", "reroute"} => window.to \in Shops

\* The window is run once more only while attempts are left.
WindowTries == window.pc # "gone" => window.left > 0

IInv ==
    /\ TypeOK
    /\ PaidRow
    /\ PaidFirst
    /\ CallCopies
    /\ HandlerCopies
    /\ WindowTries
    /\ ApprovedBeforeReady

\* The rows, renders and reports that handlers reset to are of their types.
LEMMA Resets == NewRow \in Row /\ NoRender \in Render /\ NoReport \in Report
BY ConstantsOK DEF NewRow, Row, Status, NoRender, Render, NoReport, Report

\* The draft the customer pays for satisfies the invariant.
LEMMA InitIInv == Init => IInv
<1> SUFFICES ASSUME Init PROVE IInv
  OBVIOUS
<1>1. approved \in BOOLEAN
  BY DEF Init
<1>2. TypeOK
  BY <1>1, ConstantsOK DEF Init, TypeOK, Row, NewRow, Status, Call, Render, NoRender, Report,
     NoReport, Accept, Window
<1>3. PaidRow /\ PaidFirst /\ CallCopies /\ HandlerCopies /\ WindowTries /\ ApprovedBeforeReady
  BY ConstantsOK DEF Init, NewRow, NoRender, NoReport, PaidRow, PaidFirst, CallCopies,
     HandlerCopies, WindowTries, ApprovedBeforeReady, Callers
<1> QED
  BY <1>2, <1>3 DEF IInv

\* A delivery starts: a copy it will save is a PENDING row.
LEMMA PaymentReadStep ==
    ASSUME NEW d \in Deliveries, IInv, PaymentRead(d)
    PROVE  IInv'
<1> USE DEF IInv, PaymentRead, Reads, Goes
<1>1. TypeOK'
  <2>1. call' \in [Callers -> Call]
    BY ConstantsOK, Resets DEF TypeOK, Call, Callers
  <2>2. QED
    BY <2>1 DEF TypeOK
<1>2. PaidFirst'
  BY ConstantsOK DEF TypeOK, Call, PaidFirst, CallCopies, Vouched, Callers
<1>3. CallCopies'
  BY ConstantsOK DEF TypeOK, Call, PaidRow, PaidFirst, CallCopies, Vouched, Callers, Trigger
<1>4. (PaidRow /\ HandlerCopies /\ WindowTries /\ ApprovedBeforeReady)'
  BY DEF PaidRow, HandlerCopies, WindowTries, ApprovedBeforeReady, Vouched
<1>5. QED
  BY <1>1, <1>2, <1>3, <1>4

\* Crediting a shop, or failing to, keeps the ledgers' types.
LEMMA CreditsTyped ==
    ASSUME TypeOK, NEW s \in Shops, Credits(s)
    PROVE  credit' \in [Shops -> Int] /\ missing' \in [Shops -> Nat] /\ faults' \in Nat
BY DEF Credits, Faulty, TypeOK

\* The ledger is credited before the transaction is committed.
LEMMA PaymentCreditsStep ==
    ASSUME NEW d \in Deliveries, IInv, PaymentCredits(d)
    PROVE  IInv'
<1> USE DEF IInv, PaymentCredits
<1>1. TypeOK'
  <2>1. call[d].row.shop \in Shops
    BY DEF TypeOK, Call, Callers, Row
  <2>2. credit' \in [Shops -> Int] /\ missing' \in [Shops -> Nat] /\ faults' \in Nat
    BY <2>1, CreditsTyped
  <2>3. call' \in [Callers -> Call]
    BY DEF TypeOK, Call, Callers
  <2>4. QED
    BY <2>2, <2>3 DEF TypeOK
<1>2. PaidFirst'
  BY ConstantsOK DEF TypeOK, Call, PaidFirst, CallCopies, Vouched, Callers
<1>3. CallCopies'
  BY ConstantsOK DEF TypeOK, Call, PaidRow, PaidFirst, CallCopies, Vouched, Callers, Trigger
<1>4. (PaidRow /\ HandlerCopies /\ WindowTries /\ ApprovedBeforeReady)'
  BY DEF PaidRow, HandlerCopies, WindowTries, ApprovedBeforeReady, Vouched
<1>5. QED
  BY <1>1, <1>2, <1>3, <1>4

\* A transaction rolled back leaves no copy behind.
LEMMA PaymentRollsBackStep ==
    ASSUME NEW d \in Deliveries, IInv, PaymentRollsBack(d)
    PROVE  IInv'
<1> USE DEF IInv, PaymentRollsBack, Goes, Faulty
<1>1. TypeOK'
  <2>1. call' \in [Callers -> Call]
    BY ConstantsOK, Resets DEF TypeOK, Call, Callers
  <2>2. QED
    BY <2>1 DEF TypeOK
<1>2. PaidFirst'
  BY ConstantsOK DEF TypeOK, Call, PaidFirst, CallCopies, Vouched, Callers
<1>3. CallCopies'
  BY ConstantsOK DEF TypeOK, Call, PaidRow, PaidFirst, CallCopies, Vouched, Callers, Trigger
<1>4. (PaidRow /\ HandlerCopies /\ WindowTries /\ ApprovedBeforeReady)'
  BY DEF PaidRow, HandlerCopies, WindowTries, ApprovedBeforeReady, Vouched
<1>5. QED
  BY <1>1, <1>2, <1>3, <1>4

\* The transaction vouches for the row it writes, whatever copy it read.
LEMMA PaymentCommitStep ==
    ASSUME NEW d \in Deliveries, IInv, PaymentCommit(d)
    PROVE  IInv'
<1> USE DEF IInv, PaymentCommit, Goes
<1>1. TypeOK'
  <2>1. row' \in Row
    <3>1. call[d].row \in Row
      BY DEF TypeOK, Call, Callers
    <3>2. QED
      BY <3>1, ConstantsOK DEF Row, Status
  <2>2. call' \in [Callers -> Call]
    BY ConstantsOK, Resets DEF TypeOK, Call, Callers
  <2>3. QED
    BY <2>1, <2>2 DEF TypeOK
<1>2. PaidRow'
  BY ConstantsOK DEF TypeOK, PaidRow, PaidFirst, CallCopies, Vouched, Callers
<1>3. PaidFirst'
  BY ConstantsOK DEF TypeOK, Call, PaidFirst, CallCopies, Vouched, Callers
<1>4. CallCopies'
  BY ConstantsOK DEF TypeOK, Call, PaidRow, PaidFirst, CallCopies, Vouched, Callers, Trigger
<1>5. HandlerCopies'
  BY ConstantsOK DEF TypeOK, PaidRow, PaidFirst, HandlerCopies, Vouched
<1>6. ApprovedBeforeReady'
  BY ConstantsOK DEF TypeOK, PaidFirst, CallCopies, ApprovedBeforeReady, Vouched, Callers
<1>7. WindowTries'
  BY DEF WindowTries
<1>8. QED
  BY <1>1, <1>2, <1>3, <1>4, <1>5, <1>6, <1>7

\* Arming the window touches no row and no copy.
LEMMA ArmWindowStep ==
    ASSUME NEW d \in Deliveries, IInv, ArmWindow(d)
    PROVE  IInv'
<1> USE DEF IInv, ArmWindow, Goes
<1>1. TypeOK'
  <2>1. call' \in [Callers -> Call]
    BY ConstantsOK, Resets DEF TypeOK, Call, Callers
  <2>2. window' \in Window
    BY ConstantsOK, Resets DEF TypeOK, Window
  <2>3. QED
    BY <2>1, <2>2 DEF TypeOK
<1>2. PaidFirst'
  BY ConstantsOK DEF TypeOK, Call, PaidFirst, CallCopies, Vouched, Callers
<1>3. CallCopies'
  BY ConstantsOK DEF TypeOK, Call, PaidRow, PaidFirst, CallCopies, Vouched, Callers, Trigger
<1>4. HandlerCopies'
  BY ConstantsOK DEF TypeOK, Window, PaidRow, PaidFirst, HandlerCopies, Vouched
<1>5. WindowTries'
  BY ConstantsOK DEF TypeOK, Window, WindowTries
<1>6. (PaidRow /\ ApprovedBeforeReady)'
  BY DEF PaidRow, ApprovedBeforeReady, Vouched
<1>7. QED
  BY <1>1, <1>2, <1>3, <1>4, <1>5, <1>6

\* enqueueRender reads a row that has been paid.
LEMMA EnqueueReadStep ==
    ASSUME NEW c \in Callers, IInv, EnqueueRead(c)
    PROVE  IInv'
<1> USE DEF IInv, EnqueueRead, Reads, Goes
<1>1. TypeOK'
  <2>1. call' \in [Callers -> Call]
    BY ConstantsOK, Resets DEF TypeOK, Call, Callers
  <2>2. QED
    BY <2>1 DEF TypeOK
<1>2. PaidFirst'
  BY ConstantsOK DEF TypeOK, Call, PaidFirst, CallCopies, Vouched, Callers
<1>3. CallCopies'
  BY ConstantsOK DEF TypeOK, Call, PaidRow, PaidFirst, CallCopies, Vouched, Callers, Trigger
<1>4. (PaidRow /\ HandlerCopies /\ WindowTries /\ ApprovedBeforeReady)'
  BY DEF PaidRow, HandlerCopies, WindowTries, ApprovedBeforeReady, Vouched
<1>5. QED
  BY <1>1, <1>2, <1>3, <1>4

\* The flip to RENDERING saves a vouched copy.
LEMMA EnqueueFlipStep ==
    ASSUME NEW c \in Callers, IInv, EnqueueFlip(c)
    PROVE  IInv'
<1> USE DEF IInv, EnqueueFlip
<1>1. TypeOK'
  <2>1. row' \in Row
    <3>1. call[c].row \in Row
      BY DEF TypeOK, Call, Callers
    <3>2. QED
      BY <3>1, ConstantsOK DEF Row, Status
  <2>2. call' \in [Callers -> Call]
    BY ConstantsOK, Resets DEF TypeOK, Call, Callers
  <2>3. QED
    BY <2>1, <2>2 DEF TypeOK
<1>2. PaidRow'
  BY ConstantsOK DEF TypeOK, PaidRow, PaidFirst, CallCopies, Vouched, Callers
<1>3. PaidFirst'
  BY ConstantsOK DEF TypeOK, Call, PaidFirst, CallCopies, Vouched, Callers
<1>4. CallCopies'
  BY ConstantsOK DEF TypeOK, Call, PaidRow, PaidFirst, CallCopies, Vouched, Callers, Trigger
<1>5. ApprovedBeforeReady'
  BY ConstantsOK DEF TypeOK, PaidFirst, CallCopies, ApprovedBeforeReady, Vouched, Callers
<1>6. (HandlerCopies /\ WindowTries)'
  BY DEF HandlerCopies, WindowTries, Vouched
<1>7. QED
  BY <1>1, <1>2, <1>3, <1>4, <1>5, <1>6

\* A render job that waits holds no copy.
LEMMA EnqueueAddStep ==
    ASSUME NEW c \in Callers, IInv, EnqueueAdd(c)
    PROVE  IInv'
<1> USE DEF IInv, EnqueueAdd, Goes, After
<1>1. TypeOK'
  <2>1. call' \in [Callers -> Call]
    BY ConstantsOK, Resets DEF TypeOK, Call, Callers
  <2>2. renders' \in [RenderIds -> Render]
    <3>1. [stage |-> "waiting", left |-> MaxAttempts, row |-> NewRow] \in Render
      BY ConstantsOK, Resets DEF Render
    <3>2. QED
      BY <3>1 DEF TypeOK
  <2>3. QED
    BY <2>1, <2>2 DEF TypeOK
<1>2. PaidFirst'
  BY ConstantsOK DEF TypeOK, Call, PaidFirst, CallCopies, Vouched, Callers
<1>3. CallCopies'
  BY ConstantsOK DEF TypeOK, Call, PaidRow, PaidFirst, CallCopies, Vouched, Callers, Trigger
<1>4. HandlerCopies'
  BY ConstantsOK DEF TypeOK, Render, NoRender, PaidRow, PaidFirst, HandlerCopies, Vouched
<1>5. (PaidRow /\ WindowTries /\ ApprovedBeforeReady)'
  BY DEF PaidRow, WindowTries, ApprovedBeforeReady, Vouched
<1>6. QED
  BY <1>1, <1>2, <1>3, <1>4, <1>5

\* The revert saves a vouched copy, which was PENDING or AWAITING_ACCEPT.
LEMMA EnqueueRevertStep ==
    ASSUME NEW c \in Callers, IInv, EnqueueRevert(c)
    PROVE  IInv'
<1> USE DEF IInv, EnqueueRevert, Goes, Faulty
<1>1. TypeOK'
  <2>1. row' \in Row
    <3>1. call[c].row \in Row
      BY DEF TypeOK, Call, Callers
    <3>2. QED
      BY <3>1, ConstantsOK DEF Row, Status
  <2>2. call' \in [Callers -> Call]
    BY ConstantsOK, Resets DEF TypeOK, Call, Callers
  <2>3. QED
    BY <2>1, <2>2 DEF TypeOK
<1>2. PaidRow'
  BY ConstantsOK DEF TypeOK, PaidRow, PaidFirst, CallCopies, Vouched, Callers
<1>3. PaidFirst'
  BY ConstantsOK DEF TypeOK, Call, PaidFirst, CallCopies, Vouched, Callers
<1>4. CallCopies'
  BY ConstantsOK DEF TypeOK, Call, PaidRow, PaidFirst, CallCopies, Vouched, Callers, Trigger
<1>5. ApprovedBeforeReady'
  BY ConstantsOK DEF TypeOK, PaidFirst, CallCopies, ApprovedBeforeReady, Vouched, Callers, Trigger
<1>6. (HandlerCopies /\ WindowTries)'
  BY DEF HandlerCopies, WindowTries, Vouched
<1>7. QED
  BY <1>1, <1>2, <1>3, <1>4, <1>5, <1>6

\* The fallback reads a row that has been paid.
LEMMA FallbackReadStep ==
    ASSUME NEW c \in Callers, IInv, FallbackRead(c)
    PROVE  IInv'
<1> USE DEF IInv, FallbackRead, Reads, Goes, After
<1>1. TypeOK'
  <2>1. call' \in [Callers -> Call]
    BY ConstantsOK, Resets DEF TypeOK, Call, Callers
  <2>2. QED
    BY <2>1 DEF TypeOK
<1>2. PaidFirst'
  BY ConstantsOK DEF TypeOK, Call, PaidFirst, CallCopies, Vouched, Callers
<1>3. CallCopies'
  BY ConstantsOK DEF TypeOK, Call, PaidRow, PaidFirst, CallCopies, Vouched, Callers, Trigger
<1>4. (PaidRow /\ HandlerCopies /\ WindowTries /\ ApprovedBeforeReady)'
  BY DEF PaidRow, HandlerCopies, WindowTries, ApprovedBeforeReady, Vouched
<1>5. QED
  BY <1>1, <1>2, <1>3, <1>4

\* The fallback offers a marketplace job for acceptance, and no more.
LEMMA FallbackSaveStep ==
    ASSUME NEW c \in Callers, IInv, FallbackSave(c)
    PROVE  IInv'
<1> USE DEF IInv, FallbackSave, Goes, After, Printable
<1>1. TypeOK'
  <2>1. row' \in Row
    <3>1. call[c].row \in Row
      BY DEF TypeOK, Call, Callers
    <3>2. QED
      BY <3>1, ConstantsOK DEF Row, Status
  <2>2. call' \in [Callers -> Call]
    BY ConstantsOK, Resets DEF TypeOK, Call, Callers
  <2>3. QED
    BY <2>1, <2>2 DEF TypeOK
<1>2. PaidRow'
  BY ConstantsOK DEF TypeOK, PaidRow, PaidFirst, CallCopies, Vouched, Callers
<1>3. PaidFirst'
  BY ConstantsOK DEF TypeOK, Call, PaidFirst, CallCopies, Vouched, Callers
<1>4. CallCopies'
  BY ConstantsOK DEF TypeOK, Call, PaidRow, PaidFirst, CallCopies, Vouched, Callers, Trigger
<1>5. ApprovedBeforeReady'
  BY ConstantsOK DEF TypeOK, PaidFirst, CallCopies, ApprovedBeforeReady, Vouched, Callers
<1>6. (HandlerCopies /\ WindowTries)'
  BY DEF HandlerCopies, WindowTries, Vouched
<1>7. QED
  BY <1>1, <1>2, <1>3, <1>4, <1>5, <1>6

\* The sweep finds a RENDERING row, which was paid.
LEMMA SweepFindStep ==
    ASSUME IInv, SweepFind
    PROVE  IInv'
<1> USE DEF IInv, SweepFind, Reads
<1>1. TypeOK'
  <2>1. call' \in [Callers -> Call]
    BY ConstantsOK, Resets DEF TypeOK, Call, Callers
  <2>2. QED
    BY <2>1 DEF TypeOK
<1>2. PaidFirst'
  BY ConstantsOK DEF TypeOK, Call, PaidFirst, CallCopies, Vouched, Callers
<1>3. CallCopies'
  BY ConstantsOK DEF TypeOK, Call, PaidRow, PaidFirst, CallCopies, Vouched, Callers, Trigger
<1>4. (PaidRow /\ HandlerCopies /\ WindowTries /\ ApprovedBeforeReady)'
  BY DEF PaidRow, HandlerCopies, WindowTries, ApprovedBeforeReady, Vouched
<1>5. QED
  BY <1>1, <1>2, <1>3, <1>4

\* The demotion saves a vouched copy as PENDING.
LEMMA SweepDemoteStep ==
    ASSUME IInv, SweepDemote
    PROVE  IInv'
<1> USE DEF IInv, SweepDemote, Goes
<1>1. TypeOK'
  <2>1. row' \in Row
    <3>1. call[Sweep].row \in Row
      BY DEF TypeOK, Call, Callers
    <3>2. QED
      BY <3>1, ConstantsOK DEF Row, Status
  <2>2. call' \in [Callers -> Call]
    BY ConstantsOK, Resets DEF TypeOK, Call, Callers
  <2>3. QED
    BY <2>1, <2>2 DEF TypeOK
<1>2. PaidRow'
  BY ConstantsOK DEF TypeOK, PaidRow, PaidFirst, CallCopies, Vouched, Callers
<1>3. PaidFirst'
  BY ConstantsOK DEF TypeOK, Call, PaidFirst, CallCopies, Vouched, Callers
<1>4. CallCopies'
  BY ConstantsOK DEF TypeOK, Call, PaidRow, PaidFirst, CallCopies, Vouched, Callers, Trigger
<1>5. ApprovedBeforeReady'
  BY ConstantsOK DEF TypeOK, PaidFirst, CallCopies, ApprovedBeforeReady, Vouched, Callers
<1>6. (HandlerCopies /\ WindowTries)'
  BY DEF HandlerCopies, WindowTries, Vouched
<1>7. QED
  BY <1>1, <1>2, <1>3, <1>4, <1>5, <1>6

\* The sweep's error path reads a RENDERING row.
LEMMA SweepGiveUpStep ==
    ASSUME IInv, SweepGiveUp
    PROVE  IInv'
<1> USE DEF IInv, SweepGiveUp, Reads, Goes
<1>1. TypeOK'
  <2>1. call' \in [Callers -> Call]
    BY ConstantsOK, Resets DEF TypeOK, Call, Callers
  <2>2. QED
    BY <2>1 DEF TypeOK
<1>2. PaidFirst'
  BY ConstantsOK DEF TypeOK, Call, PaidFirst, CallCopies, Vouched, Callers
<1>3. CallCopies'
  BY ConstantsOK DEF TypeOK, Call, PaidRow, PaidFirst, CallCopies, Vouched, Callers, Trigger
<1>4. (PaidRow /\ HandlerCopies /\ WindowTries /\ ApprovedBeforeReady)'
  BY DEF PaidRow, HandlerCopies, WindowTries, ApprovedBeforeReady, Vouched
<1>5. QED
  BY <1>1, <1>2, <1>3, <1>4

\* It saves a vouched copy as FAILED.
LEMMA SweepFailStep ==
    ASSUME IInv, SweepFail
    PROVE  IInv'
<1> USE DEF IInv, SweepFail, Goes
<1>1. TypeOK'
  <2>1. row' \in Row
    <3>1. call[Sweep].row \in Row
      BY DEF TypeOK, Call, Callers
    <3>2. QED
      BY <3>1, ConstantsOK DEF Row, Status
  <2>2. call' \in [Callers -> Call]
    BY ConstantsOK, Resets DEF TypeOK, Call, Callers
  <2>3. QED
    BY <2>1, <2>2 DEF TypeOK
<1>2. PaidRow'
  BY ConstantsOK DEF TypeOK, PaidRow, PaidFirst, CallCopies, Vouched, Callers
<1>3. PaidFirst'
  BY ConstantsOK DEF TypeOK, Call, PaidFirst, CallCopies, Vouched, Callers
<1>4. CallCopies'
  BY ConstantsOK DEF TypeOK, Call, PaidRow, PaidFirst, CallCopies, Vouched, Callers, Trigger
<1>5. ApprovedBeforeReady'
  BY ConstantsOK DEF TypeOK, PaidFirst, CallCopies, ApprovedBeforeReady, Vouched, Callers
<1>6. (HandlerCopies /\ WindowTries)'
  BY DEF HandlerCopies, WindowTries, Vouched
<1>7. QED
  BY <1>1, <1>2, <1>3, <1>4, <1>5, <1>6

\* A render that never runs touches no row.
LEMMA RenderThrowsStep ==
    ASSUME NEW i \in RenderIds, IInv, RenderThrows(i)
    PROVE  IInv'
<1> USE DEF IInv, RenderThrows, RenderAt, Retry, Retried
<1>1. TypeOK'
  <2>1. renders' \in [RenderIds -> Render] /\ reports' \in [RenderIds -> Report]
    BY ConstantsOK, Resets DEF TypeOK, Render, Report, RenderIds
  <2>2. QED
    BY <2>1 DEF TypeOK
<1>2. HandlerCopies'
  BY ConstantsOK DEF TypeOK, Render, NoRender, Report, NoReport, PaidRow, PaidFirst,
     HandlerCopies, Vouched
<1>3. (PaidRow /\ PaidFirst /\ CallCopies /\ WindowTries /\ ApprovedBeforeReady)'
  BY DEF PaidRow, PaidFirst, CallCopies, WindowTries, ApprovedBeforeReady, Vouched
<1>4. QED
  BY <1>1, <1>2, <1>3

\* Nor does a failed render.
LEMMA RenderFailsStep ==
    ASSUME NEW i \in RenderIds, IInv, RenderFails(i)
    PROVE  IInv'
<1> USE DEF IInv, RenderFails, RenderAt, Retry, Retried, FailedEvent, Faulty
<1>1. TypeOK'
  <2>1. renders' \in [RenderIds -> Render] /\ reports' \in [RenderIds -> Report]
    BY ConstantsOK, Resets DEF TypeOK, Render, Report, RenderIds
  <2>2. QED
    BY <2>1 DEF TypeOK
<1>2. HandlerCopies'
  BY ConstantsOK DEF TypeOK, Render, NoRender, Report, NoReport, PaidRow, PaidFirst,
     HandlerCopies, Vouched
<1>3. (PaidRow /\ PaidFirst /\ CallCopies /\ WindowTries /\ ApprovedBeforeReady)'
  BY DEF PaidRow, PaidFirst, CallCopies, WindowTries, ApprovedBeforeReady, Vouched
<1>4. QED
  BY <1>1, <1>2, <1>3

\* Nor does a worker that dies.
LEMMA RenderDiesStep ==
    ASSUME NEW i \in RenderIds, IInv, RenderDies(i)
    PROVE  IInv'
<1> USE DEF IInv, RenderDies, RenderAt, Ends, FailedEvent, Faulty, queue
<1>1. TypeOK'
  <2>1. renders' \in [RenderIds -> Render] /\ reports' \in [RenderIds -> Report]
    BY ConstantsOK, Resets DEF TypeOK, Render, Report, RenderIds
  <2>2. QED
    BY <2>1 DEF TypeOK
<1>2. HandlerCopies'
  BY ConstantsOK DEF TypeOK, Render, NoRender, Report, NoReport, PaidRow, PaidFirst,
     HandlerCopies, Vouched
<1>3. (PaidRow /\ PaidFirst /\ CallCopies /\ WindowTries /\ ApprovedBeforeReady)'
  BY DEF PaidRow, PaidFirst, CallCopies, WindowTries, ApprovedBeforeReady, Vouched
<1>4. QED
  BY <1>1, <1>2, <1>3

\* The result callback reads a RENDERING row, which was paid.
LEMMA ResultReadStep ==
    ASSUME NEW i \in RenderIds, IInv, ResultRead(i)
    PROVE  IInv'
<1> USE DEF IInv, ResultRead, RenderAt, Ends
<1>1. TypeOK'
  <2>1. renders' \in [RenderIds -> Render] /\ reports' \in [RenderIds -> Report]
    BY ConstantsOK, Resets DEF TypeOK, Render, Report, RenderIds
  <2>2. QED
    BY <2>1 DEF TypeOK
<1>2. HandlerCopies'
  BY ConstantsOK DEF TypeOK, Render, NoRender, Report, NoReport, PaidRow, PaidFirst,
     HandlerCopies, Vouched
<1>3. (PaidRow /\ PaidFirst /\ CallCopies /\ WindowTries /\ ApprovedBeforeReady)'
  BY DEF PaidRow, PaidFirst, CallCopies, WindowTries, ApprovedBeforeReady, Vouched
<1>4. QED
  BY <1>1, <1>2, <1>3

\* The result offers a marketplace job for acceptance, and no more.
LEMMA ResultSaveStep ==
    ASSUME NEW i \in RenderIds, IInv, ResultSave(i)
    PROVE  IInv'
<1> USE DEF IInv, ResultSave, RenderAt, Ends, Rendered, Printable
<1>1. TypeOK'
  <2>1. row' \in Row
    <3>1. renders[i].row \in Row
      BY DEF TypeOK, Render
    <3>2. QED
      BY <3>1, ConstantsOK DEF Row, Status
  <2>2. renders' \in [RenderIds -> Render] /\ reports' \in [RenderIds -> Report]
    BY ConstantsOK, Resets DEF TypeOK, Render, Report, RenderIds
  <2>3. QED
    BY <2>1, <2>2 DEF TypeOK
<1>2. PaidRow'
  BY ConstantsOK DEF TypeOK, PaidRow, PaidFirst, HandlerCopies, Vouched
<1>3. PaidFirst'
  BY ConstantsOK DEF TypeOK, PaidFirst, HandlerCopies, Vouched
<1>4. HandlerCopies'
  BY ConstantsOK DEF TypeOK, Render, NoRender, Report, NoReport, PaidRow, PaidFirst,
     HandlerCopies, Vouched
<1>5. ApprovedBeforeReady'
  BY ConstantsOK DEF TypeOK, PaidFirst, HandlerCopies, ApprovedBeforeReady, Vouched
<1>6. (CallCopies /\ WindowTries)'
  BY DEF CallCopies, WindowTries, Vouched
<1>7. QED
  BY <1>1, <1>2, <1>3, <1>4, <1>5, <1>6

\* The saved result is the same when the worker dies.
LEMMA ResultUnackedStep ==
    ASSUME NEW i \in RenderIds, IInv, ResultUnacked(i)
    PROVE  IInv'
<1> USE DEF IInv, ResultUnacked, RenderAt, Rendered, Printable, Faulty
<1>1. TypeOK'
  <2>1. row' \in Row
    <3>1. renders[i].row \in Row
      BY DEF TypeOK, Render
    <3>2. QED
      BY <3>1, ConstantsOK DEF Row, Status
  <2>2. renders' \in [RenderIds -> Render] /\ reports' \in [RenderIds -> Report]
    BY ConstantsOK, Resets DEF TypeOK, Render, Report, RenderIds
  <2>3. QED
    BY <2>1, <2>2 DEF TypeOK
<1>2. PaidRow'
  BY ConstantsOK DEF TypeOK, PaidRow, PaidFirst, HandlerCopies, Vouched
<1>3. PaidFirst'
  BY ConstantsOK DEF TypeOK, PaidFirst, HandlerCopies, Vouched
<1>4. HandlerCopies'
  BY ConstantsOK DEF TypeOK, Render, NoRender, Report, NoReport, PaidRow, PaidFirst,
     HandlerCopies, Vouched
<1>5. ApprovedBeforeReady'
  BY ConstantsOK DEF TypeOK, PaidFirst, HandlerCopies, ApprovedBeforeReady, Vouched
<1>6. (CallCopies /\ WindowTries)'
  BY DEF CallCopies, WindowTries, Vouched
<1>7. QED
  BY <1>1, <1>2, <1>3, <1>4, <1>5, <1>6

\* A lost result drops the copy.
LEMMA ResultLostStep ==
    ASSUME NEW i \in RenderIds, IInv, ResultLost(i)
    PROVE  IInv'
<1> USE DEF IInv, ResultLost, Ends, Faulty
<1>1. TypeOK'
  <2>1. renders' \in [RenderIds -> Render] /\ reports' \in [RenderIds -> Report]
    BY ConstantsOK, Resets DEF TypeOK, Render, Report, RenderIds
  <2>2. QED
    BY <2>1 DEF TypeOK
<1>2. HandlerCopies'
  BY ConstantsOK DEF TypeOK, Render, NoRender, Report, NoReport, PaidRow, PaidFirst,
     HandlerCopies, Vouched
<1>3. (PaidRow /\ PaidFirst /\ CallCopies /\ WindowTries /\ ApprovedBeforeReady)'
  BY DEF PaidRow, PaidFirst, CallCopies, WindowTries, ApprovedBeforeReady, Vouched
<1>4. QED
  BY <1>1, <1>2, <1>3

\* The failure callback reads a RENDERING row, which was paid.
LEMMA FailureReadStep ==
    ASSUME NEW i \in RenderIds, IInv, FailureRead(i)
    PROVE  IInv'
<1> USE DEF IInv, FailureRead, ReportAt, Reported
<1>1. TypeOK'
  <2>1. renders' \in [RenderIds -> Render] /\ reports' \in [RenderIds -> Report]
    BY ConstantsOK, Resets DEF TypeOK, Render, Report, RenderIds
  <2>2. QED
    BY <2>1 DEF TypeOK
<1>2. HandlerCopies'
  BY ConstantsOK DEF TypeOK, Render, NoRender, Report, NoReport, PaidRow, PaidFirst,
     HandlerCopies, Vouched
<1>3. (PaidRow /\ PaidFirst /\ CallCopies /\ WindowTries /\ ApprovedBeforeReady)'
  BY DEF PaidRow, PaidFirst, CallCopies, WindowTries, ApprovedBeforeReady, Vouched
<1>4. QED
  BY <1>1, <1>2, <1>3

\* It saves a vouched copy as FAILED.
LEMMA FailureSaveStep ==
    ASSUME NEW i \in RenderIds, IInv, FailureSave(i)
    PROVE  IInv'
<1> USE DEF IInv, FailureSave, ReportAt, Reported
<1>1. TypeOK'
  <2>1. row' \in Row
    <3>1. reports[i].row \in Row
      BY DEF TypeOK, Report
    <3>2. QED
      BY <3>1, ConstantsOK DEF Row, Status
  <2>2. renders' \in [RenderIds -> Render] /\ reports' \in [RenderIds -> Report]
    BY ConstantsOK, Resets DEF TypeOK, Render, Report, RenderIds
  <2>3. QED
    BY <2>1, <2>2 DEF TypeOK
<1>2. PaidRow'
  BY ConstantsOK DEF TypeOK, PaidRow, PaidFirst, HandlerCopies, Vouched
<1>3. PaidFirst'
  BY ConstantsOK DEF TypeOK, PaidFirst, HandlerCopies, Vouched
<1>4. HandlerCopies'
  BY ConstantsOK DEF TypeOK, Render, NoRender, Report, NoReport, PaidRow, PaidFirst,
     HandlerCopies, Vouched
<1>5. ApprovedBeforeReady'
  BY ConstantsOK DEF TypeOK, PaidFirst, HandlerCopies, ApprovedBeforeReady, Vouched
<1>6. (CallCopies /\ WindowTries)'
  BY DEF CallCopies, WindowTries, Vouched
<1>7. QED
  BY <1>1, <1>2, <1>3, <1>4, <1>5, <1>6

\* A lost failure report touches no row.
LEMMA FailureLostStep ==
    ASSUME NEW i \in RenderIds, IInv, FailureLost(i)
    PROVE  IInv'
<1> USE DEF IInv, FailureLost, Reported, Faulty
<1>1. TypeOK'
  <2>1. renders' \in [RenderIds -> Render] /\ reports' \in [RenderIds -> Report]
    BY ConstantsOK, Resets DEF TypeOK, Render, Report, RenderIds
  <2>2. QED
    BY <2>1 DEF TypeOK
<1>2. HandlerCopies'
  BY ConstantsOK DEF TypeOK, Render, NoRender, Report, NoReport, PaidRow, PaidFirst,
     HandlerCopies, Vouched
<1>3. (PaidRow /\ PaidFirst /\ CallCopies /\ WindowTries /\ ApprovedBeforeReady)'
  BY DEF PaidRow, PaidFirst, CallCopies, WindowTries, ApprovedBeforeReady, Vouched
<1>4. QED
  BY <1>1, <1>2, <1>3

\* An accept that has found the job holds no copy yet.
LEMMA AcceptFindStep ==
    ASSUME NEW s \in Shops, IInv, AcceptFind(s)
    PROVE  IInv'
<1> USE DEF IInv, AcceptFind
<1>1. TypeOK'
  <2>1. accept' \in [Shops -> Accept]
    BY ConstantsOK, Resets DEF TypeOK, Accept
  <2>2. QED
    BY <2>1 DEF TypeOK
<1>2. HandlerCopies'
  BY ConstantsOK DEF TypeOK, Accept, PaidRow, PaidFirst, HandlerCopies, Vouched
<1>3. (PaidRow /\ PaidFirst /\ CallCopies /\ WindowTries /\ ApprovedBeforeReady)'
  BY DEF PaidRow, PaidFirst, CallCopies, WindowTries, ApprovedBeforeReady, Vouched
<1>4. QED
  BY <1>1, <1>2, <1>3

\* acceptJob reads an AWAITING_ACCEPT row, which was paid.
LEMMA AcceptReadStep ==
    ASSUME NEW s \in Shops, IInv, AcceptRead(s)
    PROVE  IInv'
<1> USE DEF IInv, AcceptRead, NoAccept
<1>1. TypeOK'
  <2>1. accept' \in [Shops -> Accept]
    BY ConstantsOK, Resets DEF TypeOK, Accept
  <2>2. QED
    BY <2>1 DEF TypeOK
<1>2. HandlerCopies'
  BY ConstantsOK DEF TypeOK, Accept, PaidRow, PaidFirst, HandlerCopies, Vouched
<1>3. (PaidRow /\ PaidFirst /\ CallCopies /\ WindowTries /\ ApprovedBeforeReady)'
  BY DEF PaidRow, PaidFirst, CallCopies, WindowTries, ApprovedBeforeReady, Vouched
<1>4. QED
  BY <1>1, <1>2, <1>3

\* The credit touches no row.
LEMMA AcceptCreditStep ==
    ASSUME NEW s \in Shops, IInv, AcceptCredit(s)
    PROVE  IInv'
<1> USE DEF IInv, AcceptCredit
<1>1. TypeOK'
  <2>1. accept' \in [Shops -> Accept]
    BY ConstantsOK, Resets DEF TypeOK, Accept
  <2>2. accept[s].row.shop \in Shops
    BY DEF TypeOK, Row, Accept
  <2>3. credit' \in [Shops -> Int] /\ missing' \in [Shops -> Nat] /\ faults' \in Nat
    BY <2>2, CreditsTyped
  <2>4. QED
    BY <2>1, <2>3 DEF TypeOK
<1>2. HandlerCopies'
  BY ConstantsOK DEF TypeOK, Accept, PaidRow, PaidFirst, HandlerCopies, Vouched
<1>3. (PaidRow /\ PaidFirst /\ CallCopies /\ WindowTries /\ ApprovedBeforeReady)'
  BY DEF PaidRow, PaidFirst, CallCopies, WindowTries, ApprovedBeforeReady, Vouched
<1>4. QED
  BY <1>1, <1>2, <1>3

\* An accept that throws drops its copy.
LEMMA AcceptThrowsStep ==
    ASSUME NEW s \in Shops, IInv, AcceptThrows(s)
    PROVE  IInv'
<1> USE DEF IInv, AcceptThrows, NoAccept, Faulty
<1>1. TypeOK'
  <2>1. accept' \in [Shops -> Accept]
    BY ConstantsOK, Resets DEF TypeOK, Accept
  <2>2. QED
    BY <2>1 DEF TypeOK
<1>2. HandlerCopies'
  BY ConstantsOK DEF TypeOK, Accept, PaidRow, PaidFirst, HandlerCopies, Vouched
<1>3. (PaidRow /\ PaidFirst /\ CallCopies /\ WindowTries /\ ApprovedBeforeReady)'
  BY DEF PaidRow, PaidFirst, CallCopies, WindowTries, ApprovedBeforeReady, Vouched
<1>4. QED
  BY <1>1, <1>2, <1>3

\* The accept saves READY, and is the approval.
LEMMA AcceptSaveStep ==
    ASSUME NEW s \in Shops, IInv, AcceptSave(s)
    PROVE  IInv'
<1> USE DEF IInv, AcceptSave, NoAccept
<1>1. TypeOK'
  <2>1. row' \in Row
    <3>1. accept[s].row \in Row
      BY DEF TypeOK, Accept
    <3>2. QED
      BY <3>1, ConstantsOK DEF Row, Status
  <2>2. accept' \in [Shops -> Accept]
    BY ConstantsOK, Resets DEF TypeOK, Accept
  <2>3. QED
    BY <2>1, <2>2 DEF TypeOK
<1>2. PaidRow'
  BY ConstantsOK DEF TypeOK, PaidRow, PaidFirst, HandlerCopies, Vouched
<1>3. PaidFirst'
  BY ConstantsOK DEF TypeOK, PaidFirst, HandlerCopies, Vouched
<1>4. HandlerCopies'
  BY ConstantsOK DEF TypeOK, Accept, PaidRow, PaidFirst, HandlerCopies, Vouched
<1>5. ApprovedBeforeReady'
  BY ConstantsOK DEF TypeOK, PaidFirst, HandlerCopies, ApprovedBeforeReady, Vouched
<1>6. (CallCopies /\ WindowTries)'
  BY DEF CallCopies, WindowTries, Vouched
<1>7. QED
  BY <1>1, <1>2, <1>3, <1>4, <1>5, <1>6

\* The window reads an AWAITING_ACCEPT row, which was paid.
LEMMA WindowFiresStep ==
    ASSUME IInv, WindowFires
    PROVE  IInv'
<1> USE DEF IInv, WindowFires, Candidates
<1>1. TypeOK'
  <2>1. window' \in Window
    BY ConstantsOK, Resets DEF TypeOK, Window
  <2>2. QED
    BY <2>1 DEF TypeOK
<1>2. HandlerCopies'
  BY ConstantsOK DEF TypeOK, Window, PaidRow, PaidFirst, HandlerCopies, Vouched
<1>3. WindowTries'
  BY ConstantsOK DEF TypeOK, Window, WindowTries
<1>4. (PaidRow /\ PaidFirst /\ CallCopies /\ ApprovedBeforeReady)'
  BY DEF PaidRow, PaidFirst, CallCopies, ApprovedBeforeReady, Vouched
<1>5. QED
  BY <1>1, <1>2, <1>3, <1>4

\* The automatic accept saves READY, and is the approval.
LEMMA WindowAutoAcceptsStep ==
    ASSUME IInv, WindowAutoAccepts
    PROVE  IInv'
<1> USE DEF IInv, WindowAutoAccepts
<1>1. TypeOK'
  <2>1. row' \in Row
    <3>1. window.row \in Row
      BY DEF TypeOK, Window
    <3>2. QED
      BY <3>1, ConstantsOK DEF Row, Status
  <2>2. window' \in Window
    BY ConstantsOK, Resets DEF TypeOK, Window
  <2>3. QED
    BY <2>1, <2>2 DEF TypeOK
<1>2. PaidRow'
  BY ConstantsOK DEF TypeOK, PaidRow, PaidFirst, HandlerCopies, Vouched
<1>3. PaidFirst'
  BY ConstantsOK DEF TypeOK, PaidFirst, HandlerCopies, Vouched
<1>4. HandlerCopies'
  BY ConstantsOK DEF TypeOK, Window, PaidRow, PaidFirst, HandlerCopies, Vouched
<1>5. WindowTries'
  BY ConstantsOK DEF TypeOK, Window, WindowTries
<1>6. ApprovedBeforeReady'
  BY ConstantsOK DEF TypeOK, PaidFirst, HandlerCopies, ApprovedBeforeReady, Vouched
<1>7. CallCopies'
  BY DEF CallCopies, Vouched
<1>8. QED
  BY <1>1, <1>2, <1>3, <1>4, <1>5, <1>6, <1>7

\* The reversal touches no row.
LEMMA WindowReversesStep ==
    ASSUME IInv, WindowReverses
    PROVE  IInv'
<1> USE DEF IInv, WindowReverses, Faulty
<1>1. TypeOK'
  <2>1. window' \in Window
    BY ConstantsOK, Resets DEF TypeOK, Window
  <2>2. credit' \in [Shops -> Int]
    BY DEF TypeOK, Row, Window
  <2>3. QED
    BY <2>1, <2>2 DEF TypeOK
<1>2. HandlerCopies'
  BY ConstantsOK DEF TypeOK, Window, PaidRow, PaidFirst, HandlerCopies, Vouched
<1>3. WindowTries'
  BY ConstantsOK DEF TypeOK, Window, WindowTries
<1>4. (PaidRow /\ PaidFirst /\ CallCopies /\ ApprovedBeforeReady)'
  BY DEF PaidRow, PaidFirst, CallCopies, ApprovedBeforeReady, Vouched
<1>5. QED
  BY <1>1, <1>2, <1>3, <1>4

\* The reroute saves an AWAITING_ACCEPT copy under the next shop, and drops it.
LEMMA WindowReroutesStep ==
    ASSUME IInv, WindowReroutes
    PROVE  IInv'
<1> USE DEF IInv, WindowReroutes
<1>1. TypeOK'
  <2>1. row' \in Row
    <3>1. window.row \in Row
      BY DEF TypeOK, Window
    <3>2. QED
      BY <3>1, ConstantsOK DEF Row, Status, TypeOK, Window, HandlerCopies
  <2>2. window' \in Window
    BY ConstantsOK, Resets DEF TypeOK, Window
  <2>3. QED
    BY <2>1, <2>2 DEF TypeOK
<1>2. PaidRow'
  BY ConstantsOK DEF TypeOK, PaidRow, PaidFirst, HandlerCopies, Vouched
<1>3. PaidFirst'
  BY ConstantsOK DEF TypeOK, PaidFirst, HandlerCopies, Vouched
<1>4. HandlerCopies'
  BY ConstantsOK DEF TypeOK, Window, PaidRow, PaidFirst, HandlerCopies, Vouched
<1>5. WindowTries'
  BY ConstantsOK DEF TypeOK, Window, WindowTries
<1>6. ApprovedBeforeReady'
  BY ConstantsOK DEF TypeOK, PaidFirst, HandlerCopies, ApprovedBeforeReady, Vouched
<1>7. CallCopies'
  BY DEF CallCopies, Vouched
<1>8. QED
  BY <1>1, <1>2, <1>3, <1>4, <1>5, <1>6, <1>7

\* The re-arming touches no row and no copy.
LEMMA WindowRearmsStep ==
    ASSUME IInv, WindowRearms
    PROVE  IInv'
<1> USE DEF IInv, WindowRearms, Rearmed
<1>1. TypeOK'
  <2>1. window' \in Window
    BY ConstantsOK, Resets DEF TypeOK, Window
  <2>2. QED
    BY <2>1 DEF TypeOK
<1>2. HandlerCopies'
  BY ConstantsOK DEF TypeOK, Window, PaidRow, PaidFirst, HandlerCopies, Vouched
<1>3. WindowTries'
  BY ConstantsOK DEF TypeOK, Window, WindowTries
<1>4. (PaidRow /\ PaidFirst /\ CallCopies /\ ApprovedBeforeReady)'
  BY DEF PaidRow, PaidFirst, CallCopies, ApprovedBeforeReady, Vouched
<1>5. QED
  BY <1>1, <1>2, <1>3, <1>4

\* A retry of the window drops the copy and uses up an attempt.
LEMMA WindowFailsStep ==
    ASSUME IInv, WindowFails
    PROVE  IInv'
<1> USE DEF IInv, WindowFails, Faulty
<1>1. TypeOK'
  <2>1. window' \in Window
    <3>1. window.left - 1 \in 0..WindowAttempts
      BY ConstantsOK DEF TypeOK, Window, WindowTries
    <3>2. QED
      BY <3>1, Resets DEF TypeOK, Window
  <2>2. QED
    BY <2>1 DEF TypeOK
<1>2. HandlerCopies'
  BY ConstantsOK DEF TypeOK, Window, PaidRow, PaidFirst, HandlerCopies, Vouched
<1>3. WindowTries'
  BY ConstantsOK DEF TypeOK, Window, WindowTries
<1>4. (PaidRow /\ PaidFirst /\ CallCopies /\ ApprovedBeforeReady)'
  BY DEF PaidRow, PaidFirst, CallCopies, ApprovedBeforeReady, Vouched
<1>5. QED
  BY <1>1, <1>2, <1>3, <1>4

\* A job is released from READY, which was approved.
LEMMA ReleaseStep ==
    ASSUME IInv, Release
    PROVE  IInv'
<1> USE DEF IInv, Release
<1>1. TypeOK'
  <2>1. row' \in Row
    BY DEF TypeOK, Row, Status
  <2>2. QED
    BY <2>1 DEF TypeOK
<1>2. PaidRow'
  BY ConstantsOK DEF TypeOK, PaidRow, PaidFirst, HandlerCopies, Vouched
<1>3. PaidFirst'
  BY ConstantsOK DEF TypeOK, PaidFirst, HandlerCopies, Vouched
<1>4. ApprovedBeforeReady'
  BY ConstantsOK DEF TypeOK, PaidFirst, HandlerCopies, ApprovedBeforeReady, Vouched
<1>5. (CallCopies /\ HandlerCopies /\ WindowTries)'
  BY DEF CallCopies, HandlerCopies, WindowTries, Vouched
<1>6. QED
  BY <1>1, <1>2, <1>3, <1>4, <1>5

\* A step that changes nothing keeps the invariant.
LEMMA StutterStep ==
    ASSUME IInv, UNCHANGED vars
    PROVE  IInv'
BY DEF vars, IInv, TypeOK, PaidRow, PaidFirst, CallCopies, HandlerCopies, WindowTries,
       ApprovedBeforeReady, Vouched

\* enqueueRenderOrReady, called by a delivery or by the sweep.
LEMMA EnqueueStep ==
    ASSUME NEW c \in Callers, IInv, Enqueue(c)
    PROVE  IInv'
BY EnqueueReadStep, EnqueueFlipStep, EnqueueAddStep, FallbackReadStep, FallbackSaveStep DEF Enqueue

\* Every step keeps the invariant.
LEMMA NextIInv ==
    ASSUME IInv, [Next]_vars
    PROVE  IInv'
<1>0. Deliveries \subseteq Callers /\ Sweep \in Callers
  BY DEF Callers
<1>1. CASE UNCHANGED vars
  BY <1>1, StutterStep
<1>2. CASE \E d \in Deliveries : PaymentRead(d) \/ PaymentStep(d)
  BY <1>0, <1>2, PaymentReadStep, PaymentCreditsStep, PaymentCommitStep, EnqueueStep, ArmWindowStep
     DEF PaymentStep
<1>3. CASE SweepStep
  BY <1>0, <1>3, SweepFindStep, SweepDemoteStep, EnqueueStep, SweepGiveUpStep, SweepFailStep
     DEF SweepStep
<1>4. CASE \E i \in RenderIds : RenderStep(i) \/ ReportStep(i)
  BY <1>4, RenderThrowsStep, ResultReadStep, ResultSaveStep,
     FailureReadStep, FailureSaveStep DEF RenderStep, ReportStep
<1>5. CASE \E s \in Shops : AcceptFind(s) \/ AcceptStep(s)
  BY <1>5, AcceptFindStep, AcceptReadStep, AcceptCreditStep, AcceptSaveStep DEF AcceptStep
<1>6. CASE WindowStep
  BY <1>6, WindowFiresStep, WindowAutoAcceptsStep, WindowReversesStep, WindowReroutesStep,
     WindowRearmsStep DEF WindowStep
<1>7. CASE Release
  BY <1>7, ReleaseStep
<1>8. CASE Fault
  BY <1>8, PaymentRollsBackStep, EnqueueRevertStep, RenderFailsStep, RenderDiesStep,
     ResultUnackedStep, ResultLostStep, FailureLostStep, AcceptThrowsStep, WindowFailsStep
     DEF Fault, RenderFault
<1>9. QED
  BY <1>1, <1>2, <1>3, <1>4, <1>5, <1>6, <1>7, <1>8 DEF Next

\* The invariant holds in every reachable state.
LEMMA Invariance == Spec => []IInv
<1>1. IInv /\ [Next]_vars => IInv'
  BY NextIInv
<1>2. QED
  BY InitIInv, <1>1, PTL DEF Spec

(***************************************************************************)
(* What follows from the invariant                                         *)
(***************************************************************************)

\* Every variable keeps to its type.
THEOREM TypeCorrect == Spec => []TypeOK
<1>1. IInv => TypeOK
  BY DEF IInv
<1>2. QED
  BY <1>1, Invariance, PTL

\* However many webhooks, renders, sweeps and windows overlap, a job that has left
\* PENDING has a payment, and no save of a stale entity takes its reference away.
THEOREM PaidBeforeOfferedHolds == Spec => []PaidBeforeOffered
<1>1. IInv => PaidBeforeOffered
  BY DEF IInv, PaidRow, PaidFirst, Vouched, PaidBeforeOffered
<1>2. QED
  BY <1>1, Invariance, PTL

\* No handler that promotes a marketplace job goes past the shop's approval, or the
\* window's.
THEOREM ApprovedBeforeReadyHolds == Spec => []ApprovedBeforeReady
<1>1. IInv => ApprovedBeforeReady
  BY DEF IInv
<1>2. QED
  BY <1>1, Invariance, PTL

(***************************************************************************)
(* The shops' ledgers                                                      *)
(***************************************************************************)

\* Nobody has rerouted the job: every row anybody holds is the first shop's, ...
AllHome ==
    /\ row.shop = Home /\ window.row.shop = Home
    /\ \A c \in Callers : call[c].row.shop = Home
    /\ \A i \in RenderIds : renders[i].row.shop = Home /\ reports[i].row.shop = Home
    /\ \A s \in Shops : accept[s].row.shop = Home

\* What a shop's ledger would say had no credit been swallowed.
Given(s) == credit[s] + missing[s]

\* A payment has called for its credit, and may have been committed since.
Counted == payments > 0 \/ \E c \in Callers : call[c].pc = "commit"

\* ... so a payment's credit is the first shop's, and the first reversal is covered.
Covered ==
    /\ AllHome
    /\ \A s \in Shops : Given(s) >= 0
    /\ Counted => Given(Home) >= 1
    /\ window.pc \notin {"reroute", "acked"}
    /\ window.pc = "reverse" => payments > 0

Failed == WindowAttempts - window.left

\* Later, an attempt that is still to reverse leaves one of the failed ones uncharged.
Tried ==
    /\ window.pc # "none"
    /\ \A s \in Shops :
          Given(s) + Failed >= IF window.pc \in {"armed", "auto", "reverse"} THEN 1 ELSE 0

Ledgers == Covered \/ Tried

LEMMA InitLedgers == Init => Ledgers
BY ConstantsOK DEF Init, Ledgers, Covered, AllHome, Given, Counted, NewRow, NoRender, NoReport

\* Crediting a shop counts, whether or not the credit is swallowed.
LEMMA CreditsGive ==
    ASSUME TypeOK, NEW s \in Shops, Credits(s)
    PROVE  \A t \in Shops : /\ Given(t) \in Int
                            /\ Given(t)' = IF t = s THEN Given(t) + 1 ELSE Given(t)
BY DEF Credits, Given, TypeOK

\* Steps that leave the ledgers and the window alone only copy rows.
LEMMA CallsKeepLedgers ==
    ASSUME NEW c \in Callers, IInv, Ledgers,
           \/ PaymentRead(c) \/ PaymentRollsBack(c)
           \/ EnqueueRead(c) \/ EnqueueFlip(c) \/ EnqueueAdd(c)
           \/ EnqueueRevert(c) \/ FallbackRead(c) \/ FallbackSave(c)
           \/ c = Sweep /\ (SweepFind \/ SweepDemote \/ SweepGiveUp \/ SweepFail)
    PROVE  Ledgers'
<1> USE DEF PaymentRead, PaymentRollsBack, EnqueueRead, EnqueueFlip, EnqueueAdd, EnqueueRevert,
        FallbackRead, FallbackSave, SweepFind, SweepDemote, SweepGiveUp, SweepFail
<1>1. UNCHANGED <<credit, missing, window, payments, accept, reports>>
  OBVIOUS
<1>2. CASE Tried
  BY <1>1, <1>2 DEF Ledgers, Tried, Failed, Given
<1>3. CASE Covered
  <2>1. row'.shop = Home
    BY <1>3 DEF IInv, TypeOK, Call, Row, Covered, AllHome
  <2>2. \A b \in Callers : /\ call'[b].row.shop = Home
                           /\ call'[b].pc = "commit" => call[b].pc = "commit"
    <3>1. \/ call' = [call EXCEPT ![c].pc = "add"]
          \/ \E to : to # "commit" /\ call' = [call EXCEPT ![c] = [pc |-> to, row |-> row]]
          \/ \E to : to # "commit" /\ call' = [call EXCEPT ![c] = [pc |-> to, row |-> NewRow]]
      BY DEF Reads, Goes, After
    <3>2. call \in [Callers -> Call] /\ call[c] \in Call
      BY DEF IInv, TypeOK
    <3> QED
      BY <1>3, <3>1, <3>2 DEF Call, Covered, AllHome, NewRow
  <2>3. \A i \in RenderIds : renders'[i].row.shop = Home
    BY <1>3 DEF IInv, TypeOK, Render, Row, Covered, AllHome, NewRow
  <2>4. Counted' => Counted
    BY <1>1, <2>2 DEF Counted
  <2> QED
    BY <1>1, <1>3, <2>1, <2>2, <2>3, <2>4 DEF Ledgers, Covered, AllHome, Given
<1> QED
  BY <1>2, <1>3 DEF Ledgers

LEMMA RendersKeepLedgers ==
    ASSUME NEW i \in RenderIds, IInv, Ledgers,
           RenderStep(i) \/ ReportStep(i) \/ RenderFault(i) \/ FailureLost(i)
    PROVE  Ledgers'
<1> USE DEF RenderStep, ReportStep, RenderFault, RenderThrows, ResultRead,
        ResultSave, FailureRead, FailureSave, RenderFails, RenderDies, ResultUnacked,
        ResultLost, FailureLost
<1>1. UNCHANGED <<credit, missing, window, payments, accept, call>>
  OBVIOUS
<1>2. CASE Tried
  BY <1>1, <1>2 DEF Ledgers, Tried, Failed, Given
<1>3. CASE Covered
  <2>1. renders[i].row.shop = Home /\ reports[i].row.shop = Home /\ row.shop = Home
    BY <1>3 DEF Covered, AllHome
  <2>2. renders[i].row \in Row /\ reports[i].row \in Row /\ row \in Row
    BY DEF IInv, TypeOK, Render, Report
  <2>3. row'.shop = Home
    BY <2>1, <2>2 DEF Row, Rendered
  <2>4. \A j \in RenderIds : renders'[j].row.shop = Home
    <3>1. \/ UNCHANGED renders
          \/ Retry(i) \/ Ends(i)
          \/ \E to : renders' = [renders EXCEPT ![i].stage = to]
          \/ \E to, r : /\ renders' = [renders EXCEPT ![i].stage = to, ![i].row = r]
                        /\ r.shop = Home
      BY <2>1 DEF NewRow
    <3>2. renders \in [RenderIds -> Render] /\ renders[i] \in Render
      BY DEF IInv, TypeOK
    <3>3. Retried(i).row.shop = Home /\ NoRender.row.shop = Home
      BY DEF NewRow, Retried, NoRender
    <3> QED
      BY <1>3, <3>1, <3>2, <3>3 DEF Render, Retry, Ends, Covered, AllHome
  <2>5. \A j \in RenderIds : reports'[j].row.shop = Home
    <3>1. \/ UNCHANGED reports
          \/ Reported(i)
          \/ \E to, r : /\ reports' = [reports EXCEPT ![i] = [stage |-> to, row |-> r]]
                        /\ r.shop = Home
      BY <2>1 DEF FailedEvent, NewRow
    <3>2. reports \in [RenderIds -> Report] /\ NoReport.row.shop = Home
      BY DEF IInv, TypeOK, NoReport, NewRow
    <3> QED
      BY <1>3, <3>1, <3>2 DEF Reported, Covered, AllHome
  <2> QED
    BY <1>1, <1>3, <2>3, <2>4, <2>5 DEF Ledgers, Covered, AllHome, Given, Counted
<1> QED
  BY <1>2, <1>3 DEF Ledgers

\* A payment credits the shop of the row it read.
LEMMA PaymentCreditsKeepsLedgers ==
    ASSUME NEW d \in Deliveries, IInv, Ledgers, PaymentCredits(d)
    PROVE  Ledgers'
<1>1. d \in Callers /\ call[d] \in Call /\ call[d].row.shop \in Shops /\ TypeOK
  BY DEF IInv, TypeOK, Call, Callers, Row
<1>2. \A s \in Shops :
          /\ Given(s) \in Int
          /\ Given(s)' = IF s = call[d].row.shop THEN Given(s) + 1 ELSE Given(s)
  BY <1>1, CreditsGive DEF PaymentCredits
<1>3. UNCHANGED <<row, renders, reports, accept, window, payments>>
  BY DEF PaymentCredits
<1>4. CASE Tried
  BY <1>1, <1>2, <1>3, <1>4, ConstantsOK DEF Ledgers, Tried, Failed, Window, TypeOK
<1>5. CASE Covered
  <2>1. call[d].row.shop = Home
    BY <1>1, <1>5 DEF Covered, AllHome
  <2>2. Given(Home)' >= 1 /\ \A s \in Shops : Given(s)' >= 0
    BY <1>2, <1>5, <2>1, ConstantsOK DEF Covered
  <2>3. \A b \in Callers : call'[b].row = call[b].row
    BY <1>1 DEF PaymentCredits, TypeOK, Call
  <2>4. AllHome'
    BY <1>3, <1>5, <2>3 DEF Covered, AllHome
  <2> QED
    BY <1>3, <1>5, <2>2, <2>4 DEF Ledgers, Covered
<1> QED
  BY <1>4, <1>5 DEF Ledgers

\* The commit follows its credit.
LEMMA PaymentCommitKeepsLedgers ==
    ASSUME NEW d \in Deliveries, IInv, Ledgers, PaymentCommit(d)
    PROVE  Ledgers'
<1>1. d \in Callers /\ call[d] \in Call /\ call[d].row \in Row /\ payments \in Nat
  BY DEF IInv, TypeOK, Call, Callers
<1>2. UNCHANGED <<renders, reports, accept, window, credit, missing>> /\ payments' > 0
  BY <1>1 DEF PaymentCommit
<1>3. CASE Tried
  BY <1>2, <1>3 DEF Ledgers, Tried, Failed, Given
<1>4. CASE Covered
  <2>1. Counted
    BY <1>1 DEF PaymentCommit, Counted
  <2>2. row'.shop = Home
    BY <1>1, <1>4 DEF PaymentCommit, Covered, AllHome, Row
  <2>3. \A b \in Callers : call'[b].row.shop = Home
    BY <1>4 DEF PaymentCommit, Goes, NewRow, Covered, AllHome, IInv, TypeOK
  <2>4. AllHome'
    BY <1>2, <1>4, <2>2, <2>3 DEF Covered, AllHome
  <2> QED
    BY <1>2, <1>4, <2>1, <2>4 DEF Ledgers, Covered, Given
<1> QED
  BY <1>3, <1>4 DEF Ledgers

LEMMA AcceptsKeepLedgers ==
    ASSUME NEW s \in Shops, IInv, Ledgers, AcceptFind(s) \/ AcceptStep(s) \/ AcceptThrows(s)
    PROVE  Ledgers'
<1> USE DEF AcceptFind, AcceptStep, AcceptRead, AcceptCredit, AcceptSave, AcceptThrows
<1>1. UNCHANGED <<window, payments, call, renders, reports>>
  OBVIOUS
<1>2. \A t \in Shops : Given(t) \in Int /\ Given(t)' \in Int /\ Given(t)' >= Given(t)
  <2>1. TypeOK /\ accept[s].row.shop \in Shops
    BY DEF IInv, TypeOK, Accept, Row
  <2>2. CASE AcceptCredit(s)
    BY <2>1, <2>2, CreditsGive
  <2>3. CASE UNCHANGED <<credit, missing>>
    BY <2>1, <2>3 DEF Given, TypeOK
  <2> QED
    BY <2>2, <2>3
<1>3. CASE Tried
  BY <1>1, <1>2, <1>3, ConstantsOK DEF Ledgers, Tried, Failed, IInv, TypeOK, Window
<1>4. CASE Covered
  <2>1. row'.shop = Home
    BY <1>4 DEF IInv, TypeOK, Accept, Row, Covered, AllHome
  <2>2. \A t \in Shops : accept'[t].row.shop = Home
    <3>1. \/ \E to : accept' = [accept EXCEPT ![s].pc = to]
          \/ \E to : accept' = [accept EXCEPT ![s] = [pc |-> to, row |-> row]]
          \/ \E to : accept' = [accept EXCEPT ![s] = [pc |-> to, row |-> NewRow]]
      BY DEF NoAccept
    <3>2. accept \in [Shops -> Accept] /\ accept[s] \in Accept
      BY DEF IInv, TypeOK
    <3> QED
      BY <1>4, <3>1, <3>2 DEF Accept, Covered, AllHome, NewRow
  <2>3. AllHome' /\ (Counted' => Counted)
    BY <1>1, <1>4, <2>1, <2>2 DEF Covered, AllHome, Counted
  <2> QED
    BY <1>1, <1>2, <1>4, <2>3, ConstantsOK DEF Ledgers, Covered
<1> QED
  BY <1>3, <1>4 DEF Ledgers

\* The window, which reverses a credit once in an attempt.
LEMMA WindowKeepsLedgers ==
    ASSUME IInv, Ledgers, WindowStep \/ WindowFails \/ \E d \in Deliveries : ArmWindow(d)
    PROVE  Ledgers'
<1>1. /\ window \in Window /\ window.left \in Nat /\ WindowAttempts \in Nat
      /\ window.left <= WindowAttempts /\ payments \in Nat
      /\ \A s \in Shops : Given(s) \in Int
      /\ window.row.shop \in Shops
  BY ConstantsOK DEF IInv, TypeOK, Window, Row, Given
<1>2. CASE \E d \in Deliveries : ArmWindow(d)
  <2>1. /\ window' = window \/ (window.pc = "none" /\ window' = [window EXCEPT !.pc = "armed"])
        /\ UNCHANGED <<row, renders, reports, accept, payments, credit, missing>>
    BY <1>2 DEF ArmWindow
  <2>2. CASE Tried
    BY <1>1, <2>1, <2>2 DEF Ledgers, Tried, Failed, Window, Given
  <2>3. CASE Covered
    <3>1. \A c \in Callers : /\ call'[c].row.shop = Home
                             /\ call'[c].pc = "commit" => call[c].pc = "commit"
      BY <1>2, <2>3 DEF ArmWindow, Goes, NewRow, Covered, AllHome, IInv, TypeOK, Call
    <3>2. AllHome' /\ (Counted' => Counted)
      BY <1>1, <2>1, <2>3, <3>1 DEF Covered, AllHome, Counted, Window
    <3> QED
      BY <1>1, <2>1, <2>3, <3>2 DEF Ledgers, Covered, Window, Given
  <2> QED
    BY <2>2, <2>3 DEF Ledgers
<1>3. CASE WindowFires
  <2>0. UNCHANGED <<row, call, renders, reports, accept, payments, credit, missing>>
    BY <1>3 DEF WindowFires
  <2>1. row.status = "awaiting_accept" => payments > 0
    BY DEF IInv, PaidFirst
  <2>2. CASE Tried
    <3>1. /\ window.pc = "armed" /\ window'.pc # "none"
          /\ Failed' = Failed /\ Failed \in Int
      <4>1. /\ window.pc = "armed" /\ window'.pc \in {"gone", "auto", "reverse"}
            /\ window'.left = window.left
        BY <1>1, <1>3 DEF WindowFires, Window
      <4> QED
        BY <1>1, <4>1 DEF Failed
    <3>2. \A s \in Shops : Given(s) + Failed >= 1
      BY <2>2, <3>1 DEF Tried
    <3>3. \A s \in Shops : Given(s)' = Given(s)
      BY <2>0 DEF Given
    <3>4. Tried'
      BY <1>1, <3>1, <3>2, <3>3 DEF Tried
    <3> QED
      BY <3>4 DEF Ledgers
  <2>3. CASE Covered
    <3>1. AllHome' /\ (Counted' => Counted) /\ \A s \in Shops : Given(s)' = Given(s)
      BY <1>1, <1>3, <2>0, <2>3 DEF WindowFires, Covered, AllHome, Counted, Window, Given
    <3>2. window'.pc \in {"gone", "auto", "reverse"} /\ (window'.pc = "reverse" => payments > 0)
      BY <1>1, <1>3, <2>1 DEF WindowFires, Window
    <3> QED
      BY <2>0, <2>3, <3>1, <3>2, ConstantsOK DEF Ledgers, Covered
  <2> QED
    BY <2>2, <2>3 DEF Ledgers
<1>4. CASE WindowAutoAccepts
  <2>0. UNCHANGED <<call, renders, reports, accept, payments, credit, missing>>
    BY <1>4 DEF WindowAutoAccepts
  <2>1. CASE Tried
    BY <1>1, <1>4, <2>0, <2>1 DEF WindowAutoAccepts, Ledgers, Tried, Failed, Window, Given
  <2>2. CASE Covered
    <3>1. window.row \in Row /\ window.row.shop = Home
      BY <1>1, <2>2 DEF Window, Covered, AllHome
    <3>2. row'.shop = Home /\ window'.row.shop = Home /\ window'.pc = "gone"
      BY <1>1, <1>4, <3>1 DEF WindowAutoAccepts, Window, Row, NewRow
    <3>3. AllHome' /\ Counted' = Counted /\ \A s \in Shops : Given(s)' = Given(s)
      BY <2>0, <2>2, <3>2 DEF Covered, AllHome, Counted, Given
    <3> QED
      BY <2>2, <3>2, <3>3, ConstantsOK DEF Ledgers, Covered
  <2> QED
    BY <2>1, <2>2 DEF Ledgers
<1>5. CASE WindowReverses
  <2>1. /\ \A s \in Shops : Given(s)' >= IF s = window.row.shop THEN Given(s) - 1 ELSE Given(s)
        /\ \A s \in Shops : Given(s)' \in Int
        /\ window'.pc = "reroute" /\ Failed' = Failed /\ Failed \in Nat
    BY <1>1, <1>5 DEF WindowReverses, Window, Failed, IInv, TypeOK, Given
  <2>2. Tried'
    <3>1. CASE Tried
      BY <1>1, <1>5, <2>1, <3>1 DEF WindowReverses, Tried
    <3>2. CASE Covered
      <4>1. Given(Home) >= 1 /\ window.row.shop = Home
        BY <1>5, <3>2 DEF WindowReverses, Covered, AllHome, Counted
      <4> QED
        BY <1>1, <2>1, <3>2, <4>1, ConstantsOK DEF Covered, Tried
    <3> QED
      BY <3>1, <3>2 DEF Ledgers
  <2> QED
    BY <2>2 DEF Ledgers
<1>6. CASE WindowReroutes \/ WindowRearms
  <2>1. Tried /\ UNCHANGED <<credit, missing>>
    BY <1>6 DEF WindowReroutes, WindowRearms, Ledgers, Covered
  <2> QED
    BY <1>1, <1>6, <2>1 DEF WindowReroutes, WindowRearms, Rearmed, Ledgers, Tried, Failed, Window,
       Given
<1>7. CASE WindowFails
  <2>1. /\ window'.pc \in {"armed", "gone"} /\ Failed' = Failed + 1
        /\ UNCHANGED <<row, credit, missing, call, renders, reports, accept, payments>>
        /\ window'.row = NewRow /\ Failed \in Int
    BY <1>1, <1>7 DEF WindowFails, Window, Failed
  <2>2. \A s \in Shops : Given(s)' = Given(s)
    BY <2>1 DEF Given
  <2>3. CASE Tried
    BY <1>1, <2>1, <2>2, <2>3 DEF Ledgers, Tried
  <2>4. CASE Covered
    BY <1>1, <2>1, <2>2, <2>4, ConstantsOK DEF Ledgers, Covered, AllHome, Counted, NewRow
  <2> QED
    BY <2>3, <2>4 DEF Ledgers
<1> QED
  BY <1>2, <1>3, <1>4, <1>5, <1>6, <1>7 DEF WindowStep

LEMMA NextLedgers == IInv /\ Ledgers /\ [Next]_vars => Ledgers'
<1> SUFFICES ASSUME IInv, Ledgers, [Next]_vars PROVE Ledgers'
  OBVIOUS
<1>0. Deliveries \subseteq Callers /\ Sweep \in Callers
  BY DEF Callers
<1>1. CASE \E d \in Deliveries : PaymentRead(d) \/ PaymentStep(d)
  BY <1>0, <1>1, CallsKeepLedgers, PaymentCreditsKeepsLedgers, PaymentCommitKeepsLedgers,
     WindowKeepsLedgers DEF PaymentStep, Enqueue
<1>2. CASE SweepStep
  BY <1>0, <1>2, CallsKeepLedgers DEF SweepStep, Enqueue
<1>3. CASE \E i \in RenderIds : RenderStep(i) \/ ReportStep(i)
  BY <1>3, RendersKeepLedgers
<1>4. CASE \E s \in Shops : AcceptFind(s) \/ AcceptStep(s)
  BY <1>4, AcceptsKeepLedgers
<1>5. CASE WindowStep
  BY <1>5, WindowKeepsLedgers
<1>6. CASE Release \/ UNCHANGED vars
  BY <1>6 DEF Release, vars, Ledgers, Covered, AllHome, Tried, Failed, Given, Counted, IInv,
     TypeOK, Row
<1>7. CASE Fault
  BY <1>0, <1>7, CallsKeepLedgers, RendersKeepLedgers, AcceptsKeepLedgers, WindowKeepsLedgers
     DEF Fault
<1> QED
  BY <1>1, <1>2, <1>3, <1>4, <1>5, <1>6, <1>7 DEF Next

\* However many webhooks, accepts and reroutes overlap, over however many shops, what is
\* taken from a ledger was to be given to it, but for one unit for each attempt of the
\* window that failed; what of it was not given is the swallowed credits.
THEOREM OverdrawnByFaultsOnlyHolds == Spec => []OverdrawnByFaultsOnly
<1>1. IInv /\ Ledgers => OverdrawnByFaultsOnly
  <2> SUFFICES ASSUME IInv, Ledgers, NEW s \in Shops
               PROVE  credit[s] + missing[s] >= window.left - WindowAttempts
    BY DEF OverdrawnByFaultsOnly
  <2>1. /\ window.left \in Nat /\ WindowAttempts \in Nat /\ Given(s) \in Int
        /\ window.left <= WindowAttempts
    BY ConstantsOK DEF IInv, TypeOK, Window, Given
  <2>2. Given(s) >= window.left - WindowAttempts
    BY <2>1 DEF Ledgers, Covered, Tried, Failed
  <2> QED
    BY <2>2 DEF Given
<1>2. QED
  BY <1>1, InitLedgers, NextLedgers, Invariance, PTL DEF Spec

(***************************************************************************)
(* The hand-over, for a shop that is not on the marketplace, one delivery  *)
(* of the webhook, a sweep that comes later than any render, and a release *)
(* that takes longer than a callback's handler                             *)
(***************************************************************************)

Plain ==
    /\ ~Marketplace /\ Unhurried
    /\ \A c, d \in Deliveries : c = d

AtWork(c) == call[c].pc \notin {"idle", "arm", "done"}
Rendering(i) == renders[i].stage # "none" \/ reports[i].stage # "none"

\* Nothing is accepted or rerouted.
NoMarket ==
    /\ row.shop = Home /\ ~row.requiresAccept /\ row.status # "awaiting_accept"
    /\ window.pc = "none"
    /\ \A s \in Shops : accept[s].pc = "idle"

\* One of the delivery, the sweep and the renders works on the row at a time.
OneAtWork ==
    /\ \A b, c \in Callers : AtWork(b) /\ AtWork(c) => b = c
    /\ \A i, j \in RenderIds : Rendering(i) /\ Rendering(j) => i = j
    /\ \A c \in Callers, i \in RenderIds : ~(AtWork(c) /\ Rendering(i))

\* The delivery's work comes first, ...
DeliveryFirst ==
    \A d \in Deliveries :
        /\ call[d].pc \notin {"stuck", "giveup", "fail"}
        /\ call[d].pc = "idle" =>
              /\ row.status = "pending"
              /\ \A c \in Callers : ~AtWork(c)
              /\ \A i \in RenderIds : ~Rendering(i)

\* ... and who is at work knows the row, and that it is not handed over.
CallKnows(c) ==
    /\ call[c].pc \in {"tx", "commit", "enqueue", "flip", "fallback", "promote", "giveup"} =>
          row.status = "pending"
    /\ call[c].pc \in {"tx", "commit", "flip", "promote", "stuck"} => call[c].row = row
    /\ call[c].pc \in {"fallback", "promote"} => ~RenderOn
    /\ call[c].pc \in {"stuck", "add"} => row.status = "rendering"
    /\ call[c].pc = "add" =>
          call[c].row.status = "pending" /\ row = [call[c].row EXCEPT !.status = "rendering"]
    /\ call[c].pc # "fail"

\* A result and a failure of one render job may both be about to be saved.
RenderKnows(i) ==
    /\ renders[i].stage = "save" =>
          /\ row.status \in {"rendering", "failed"}
          /\ renders[i].row.shop = Home /\ ~renders[i].row.requiresAccept
    /\ reports[i].stage = "save" =>
          /\ row.status # "released"
          /\ reports[i].row.shop = Home /\ ~reports[i].row.requiresAccept

HandOver ==
    /\ NoMarket
    /\ OneAtWork
    /\ DeliveryFirst
    /\ \A c \in Callers : CallKnows(c)
    /\ \A i \in RenderIds : RenderKnows(i)
    /\ RenderedWhenOffered

LEMMA InitHandOver == Init => HandOver
<1> SUFFICES ASSUME Init PROVE HandOver
  OBVIOUS
<1>1. \A c \in Callers : call[c].pc = "idle" /\ ~AtWork(c)
  BY DEF Init, AtWork
<1>2. \A i \in RenderIds :
          renders[i].stage = "none" /\ reports[i].stage = "none" /\ ~Rendering(i)
  BY DEF Init, NoRender, NoReport, Rendering
<1>3. NoMarket /\ row.status = "pending"
  BY DEF Init, NoMarket, NewRow
<1>4. OneAtWork /\ DeliveryFirst
  BY <1>1, <1>2, <1>3 DEF OneAtWork, DeliveryFirst, Callers
<1>5. (\A c \in Callers : CallKnows(c)) /\ \A i \in RenderIds : RenderKnows(i)
  BY <1>1, <1>2 DEF CallKnows, RenderKnows
<1> QED
  BY <1>3, <1>4, <1>5 DEF HandOver, RenderedWhenOffered

LEMMA Alone ==
    ASSUME HandOver, NEW c \in Callers, AtWork(c)
    PROVE  /\ \A b \in Callers \ {c} : ~AtWork(b)
           /\ \A i \in RenderIds : ~Rendering(i)
           /\ \A d \in Deliveries : call[d].pc # "idle"
BY DEF HandOver, OneAtWork, DeliveryFirst

\* A call does a step while nobody else is at work, and may leave a render behind.
LEMMA CallMoves ==
    ASSUME TypeOK, HandOver, NEW c \in Callers, NEW to,
           \A b \in Callers \ {c} : ~AtWork(b), \A i \in RenderIds : ~Rendering(i),
           \A d \in Deliveries : d = c \/ call[d].pc # "idle",
           c \in Deliveries => to.pc \notin {"idle", "stuck", "giveup", "fail"},
           call' = [call EXCEPT ![c] = to],
           NoMarket', CallKnows(c)', RenderedWhenOffered', UNCHANGED reports,
           \/ UNCHANGED renders
           \/ /\ to.pc \in {"arm", "idle"}
              /\ \E i, r : renders' = [renders EXCEPT ![i] = r] /\ r.stage = "waiting"
    PROVE  HandOver'
<1>1. call'[c] = to /\ \A b \in Callers \ {c} : call'[b] = call[b]
  BY DEF TypeOK
<1>2. \A b \in Callers \ {c} : ~AtWork(b)'
  BY <1>1 DEF AtWork
<1>3. \A i, j \in RenderIds : Rendering(i)' /\ Rendering(j)' => i = j
  BY DEF TypeOK, Rendering
<1>4. \A i \in RenderIds : Rendering(i)' => ~AtWork(c)' /\ renders'[i].stage = "waiting"
  BY <1>1 DEF TypeOK, Rendering, AtWork
<1>5. OneAtWork'
  BY <1>2, <1>3, <1>4 DEF OneAtWork
<1>6. DeliveryFirst'
  BY <1>1 DEF HandOver, DeliveryFirst, Callers
<1>7. \A b \in Callers : CallKnows(b)'
  BY <1>2 DEF CallKnows, AtWork
<1>8. \A i \in RenderIds : RenderKnows(i)'
  BY <1>4 DEF RenderKnows, Rendering
<1> QED
  BY <1>5, <1>6, <1>7, <1>8 DEF HandOver

\* A render does a step.
LEMMA RenderMoves ==
    ASSUME TypeOK, HandOver, NEW i \in RenderIds, Rendering(i),
           \A j \in RenderIds \ {i} : renders'[j] = renders[j] /\ reports'[j] = reports[j],
           UNCHANGED call, NoMarket', RenderKnows(i)', RenderedWhenOffered'
    PROVE  HandOver'
<1>2. \A c \in Callers : ~AtWork(c)' /\ ~AtWork(c)
  BY DEF HandOver, OneAtWork, AtWork
<1>3. \A j \in RenderIds \ {i} : ~Rendering(j)'
  BY DEF HandOver, OneAtWork, Rendering
<1>4. OneAtWork'
  BY <1>2, <1>3 DEF OneAtWork
<1>5. DeliveryFirst'
  BY DEF HandOver, DeliveryFirst
<1>6. \A c \in Callers : CallKnows(c)'
  BY <1>2 DEF CallKnows, AtWork
<1>7. \A j \in RenderIds : RenderKnows(j)'
  BY <1>3 DEF RenderKnows, Rendering
<1> QED
  BY <1>4, <1>5, <1>6, <1>7 DEF HandOver

LEMMA PaymentHandOver ==
    ASSUME TypeOK, Plain, HandOver, NEW d \in Deliveries,
           PaymentRead(d) \/ PaymentCredits(d) \/ PaymentCommit(d) \/ PaymentRollsBack(d)
    PROVE  HandOver'
<1> USE DEF Reads, Goes
<1>1. /\ d \in Callers /\ call[d] \in Call /\ CallKnows(d)
      /\ NoMarket /\ RenderedWhenOffered /\ row \in Row
  BY DEF Callers, TypeOK, HandOver
<1>2. CASE PaymentRead(d)
  <2> DEFINE to == [pc |-> "tx", row |-> row]
  <2>1. row.status = "pending" /\ (\A b \in Callers : ~AtWork(b)) /\ \A i \in RenderIds : ~Rendering(i)
    BY <1>2 DEF PaymentRead, HandOver, DeliveryFirst
  <2>2. call' = [call EXCEPT ![d] = to] /\ UNCHANGED <<row, renders, reports, window, accept>>
    BY <1>2, <2>1 DEF PaymentRead
  <2>3. NoMarket' /\ RenderedWhenOffered'
    BY <1>1, <2>2 DEF NoMarket, RenderedWhenOffered
  <2>4. CallKnows(d)'
    BY <1>1, <2>1, <2>2 DEF CallKnows, TypeOK
  <2> QED
    BY <1>1, <2>1, <2>2, <2>3, <2>4, CallMoves DEF Plain
<1>3. CASE PaymentCommit(d)
  <2>1. AtWork(d) /\ call[d].row = row /\ row.status = "pending"
    BY <1>1, <1>3 DEF PaymentCommit, AtWork, CallKnows
  <2>2. /\ row' = [row EXCEPT !.paid = TRUE, !.requiresAccept = (row.shop # Home \/ Marketplace)]
        /\ call' = [call EXCEPT ![d] = [pc |-> "enqueue", row |-> NewRow]]
        /\ UNCHANGED <<renders, reports, window, accept>>
    BY <1>3, <2>1 DEF PaymentCommit
  <2>3. row'.status = "pending" /\ row'.shop = Home /\ ~row'.requiresAccept
    BY <1>1, <2>1, <2>2 DEF NoMarket, Plain, Row
  <2>4. NoMarket' /\ RenderedWhenOffered'
    BY <1>1, <2>2, <2>3 DEF NoMarket, RenderedWhenOffered
  <2>5. CallKnows(d)'
    BY <1>1, <2>2, <2>3 DEF CallKnows, TypeOK
  <2> QED
    BY <1>1, <2>1, <2>2, <2>4, <2>5, CallMoves, Alone
<1>4. CASE PaymentCredits(d)
  <2>1. AtWork(d) /\ call[d].row = row /\ row.status = "pending"
    BY <1>1, <1>4 DEF PaymentCredits, AtWork, CallKnows
  <2>2. /\ call' = [call EXCEPT ![d] = [call[d] EXCEPT !.pc = "commit"]]
        /\ UNCHANGED <<row, renders, reports, window, accept>>
    BY <1>4 DEF PaymentCredits
  <2>3. NoMarket' /\ RenderedWhenOffered'
    BY <1>1, <2>2 DEF NoMarket, RenderedWhenOffered
  <2>4. [call[d] EXCEPT !.pc = "commit"].pc = "commit"
    BY <1>1 DEF Call
  <2>5. CallKnows(d)'
    BY <1>1, <2>1, <2>2 DEF CallKnows, TypeOK, Call
  <2> QED
    BY <1>1, <2>1, <2>2, <2>3, <2>4, <2>5, CallMoves, Alone
<1>5. CASE PaymentRollsBack(d)
  <2>1. AtWork(d) /\ row.status = "pending"
    BY <1>1, <1>5 DEF PaymentRollsBack, AtWork, CallKnows
  <2>2. /\ call' = [call EXCEPT ![d] = [pc |-> "idle", row |-> NewRow]]
        /\ UNCHANGED <<row, renders, reports, window, accept>>
    BY <1>5 DEF PaymentRollsBack
  <2>3. /\ call'[d].pc = "idle" /\ \A c \in Callers \ {d} : call'[c] = call[c] /\ ~AtWork(c)
        /\ \A i \in RenderIds : ~Rendering(i)
    BY <1>1, <2>1, <2>2, Alone DEF TypeOK
  <2>4. (\A c \in Callers : ~AtWork(c)') /\ \A i \in RenderIds : ~Rendering(i)'
    BY <2>2, <2>3 DEF AtWork, Rendering
  <2>5. OneAtWork' /\ DeliveryFirst'
    BY <2>1, <2>2, <2>3, <2>4 DEF OneAtWork, DeliveryFirst, Plain, Callers
  <2>6. NoMarket' /\ RenderedWhenOffered'
    BY <1>1, <2>2 DEF NoMarket, RenderedWhenOffered
  <2>7. (\A c \in Callers : CallKnows(c)') /\ \A i \in RenderIds : RenderKnows(i)'
    BY <2>2, <2>3, <2>4 DEF CallKnows, AtWork, RenderKnows, Rendering, HandOver
  <2> QED
    BY <2>5, <2>6, <2>7 DEF HandOver
<1> QED
  BY <1>2, <1>3, <1>4, <1>5

\* No window is armed.
LEMMA ArmWindowHandOver ==
    ASSUME TypeOK, HandOver, NEW d \in Deliveries, ArmWindow(d)
    PROVE  HandOver'
<1>1. /\ d \in Callers /\ call[d].pc = "arm"
      /\ call' = [call EXCEPT ![d] = [pc |-> "done", row |-> NewRow]]
      /\ UNCHANGED <<row, renders, reports, window, accept>>
  BY DEF ArmWindow, Goes, Callers, HandOver, NoMarket
<1>2. \A c \in Callers : /\ AtWork(c)' <=> AtWork(c)
                         /\ c # d => call'[c] = call[c]
                         /\ c = d => call'[c].pc = "done"
  BY <1>1 DEF AtWork, TypeOK
<1>3. OneAtWork' /\ DeliveryFirst'
  BY <1>1, <1>2 DEF HandOver, OneAtWork, DeliveryFirst, Rendering, Callers
<1>4. \A c \in Callers : CallKnows(c)'
  BY <1>1, <1>2 DEF HandOver, CallKnows
<1>5. NoMarket' /\ RenderedWhenOffered' /\ \A i \in RenderIds : RenderKnows(i)'
  BY <1>1 DEF HandOver, NoMarket, RenderedWhenOffered, RenderKnows
<1> QED
  BY <1>3, <1>4, <1>5 DEF HandOver

LEMMA EnqueueHandOver ==
    ASSUME TypeOK, Plain, HandOver, NEW c \in Callers, Enqueue(c) \/ EnqueueRevert(c)
    PROVE  HandOver'
<1> USE DEF Reads, Goes
<1>1. call[c] \in Call /\ CallKnows(c) /\ NoMarket /\ RenderedWhenOffered /\ row \in Row
  BY DEF TypeOK, HandOver
<1>2. AtWork(c) /\ UNCHANGED <<window, accept, reports>>
  BY DEF Enqueue, EnqueueRead, EnqueueFlip, EnqueueAdd, EnqueueRevert, FallbackRead,
     FallbackSave, AtWork
<1>3. c \in Deliveries => c # Sweep
  BY ConstantsOK
<1>4. CASE EnqueueRead(c) \/ FallbackRead(c)
  <2> DEFINE flip == [pc |-> "flip", row |-> row]
             fallback == [pc |-> "fallback", row |-> NewRow]
             promote == [pc |-> "promote", row |-> row]
  <2>1. PICK to : /\ call' = [call EXCEPT ![c] = to]
                  /\ \/ to.pc = "flip" /\ to.row = row
                     \/ to.pc = "fallback" /\ ~RenderOn
                     \/ to.pc = "promote" /\ to.row = row /\ ~RenderOn
    <3>1. row.status = "pending" /\ (call[c].pc = "fallback" => ~RenderOn)
      BY <1>1, <1>4 DEF EnqueueRead, FallbackRead, CallKnows
    <3>2. \/ call' = [call EXCEPT ![c] = flip]
          \/ call' = [call EXCEPT ![c] = fallback] /\ ~RenderOn
          \/ call' = [call EXCEPT ![c] = promote] /\ ~RenderOn
      BY <1>4, <3>1 DEF EnqueueRead, FallbackRead, Trigger
    <3>3. /\ flip.pc = "flip" /\ flip.row = row
          /\ fallback.pc = "fallback"
          /\ promote.pc = "promote" /\ promote.row = row
      OBVIOUS
    <3> HIDE DEF flip, fallback, promote
    <3> QED
      BY <3>2, <3>3
  <2> HIDE DEF flip, fallback, promote
  <2>2. UNCHANGED <<row, renders>> /\ row.status = "pending"
    BY <1>1, <1>4 DEF EnqueueRead, FallbackRead, CallKnows
  <2>3. NoMarket' /\ RenderedWhenOffered'
    BY <1>1, <1>2, <2>2 DEF NoMarket, RenderedWhenOffered
  <2>4. CallKnows(c)'
    BY <1>1, <2>1, <2>2 DEF CallKnows, TypeOK
  <2> QED
    BY <1>2, <2>1, <2>2, <2>3, <2>4, CallMoves, Alone
<1>5. CASE EnqueueFlip(c)
  <2>1. call[c].row = row /\ row.status = "pending" /\ call[c].pc = "flip"
    BY <1>1, <1>5 DEF EnqueueFlip, CallKnows
  <2>2. /\ row' = [row EXCEPT !.status = "rendering"] /\ UNCHANGED renders
        /\ call' = [call EXCEPT ![c] = [call[c] EXCEPT !.pc = "add"]]
    BY <1>5, <2>1 DEF EnqueueFlip
  <2>3. NoMarket' /\ RenderedWhenOffered'
    BY <1>1, <1>2, <2>2 DEF NoMarket, RenderedWhenOffered, Row
  <2>4. CallKnows(c)'
    BY <1>1, <2>1, <2>2 DEF CallKnows, TypeOK, Call, Row
  <2>5. [call[c] EXCEPT !.pc = "add"].pc = "add"
    BY <1>1 DEF Call
  <2> QED
    BY <1>2, <2>2, <2>3, <2>4, <2>5, CallMoves, Alone
<1>6. CASE EnqueueAdd(c)
  <2> DEFINE render == [stage |-> "waiting", left |-> MaxAttempts, row |-> NewRow]
  <2>1. /\ call' = [call EXCEPT ![c] = [pc |-> After(c), row |-> NewRow]]
        /\ \E i, r : renders' = [renders EXCEPT ![i] = r] /\ r.stage = "waiting"
        /\ UNCHANGED row
    <3>1. render.stage = "waiting"
      OBVIOUS
    <3>2. \E i : renders' = [renders EXCEPT ![i] = render]
      BY <1>6 DEF EnqueueAdd
    <3> HIDE DEF render
    <3> QED
      BY <1>6, <3>1, <3>2 DEF EnqueueAdd
  <2>2. After(c) \in {"arm", "idle"} /\ (c \in Deliveries => After(c) = "arm")
    BY <1>3 DEF After
  <2>3. NoMarket' /\ RenderedWhenOffered'
    BY <1>1, <1>2, <2>1 DEF NoMarket, RenderedWhenOffered
  <2>4. CallKnows(c)'
    BY <1>1, <2>1, <2>2 DEF CallKnows, TypeOK
  <2>5. [pc |-> After(c), row |-> NewRow].pc = After(c)
    OBVIOUS
  <2> HIDE DEF render
  <2> QED
    BY <1>2, <2>1, <2>2, <2>3, <2>4, <2>5, CallMoves, Alone
<1>7. CASE EnqueueRevert(c)
  <2>1. PICK pc \in {"giveup", "arm"} :
            /\ call' = [call EXCEPT ![c] = [pc |-> pc, row |-> NewRow]]
            /\ c \in Deliveries => pc = "arm"
    BY <1>3, <1>7 DEF EnqueueRevert
  <2>2. row' = call[c].row /\ UNCHANGED renders /\ call[c].pc = "add"
    BY <1>7 DEF EnqueueRevert
  <2>3. row'.status = "pending" /\ row'.shop = Home /\ ~row'.requiresAccept
    BY <1>1, <2>2 DEF CallKnows, NoMarket, Call, Row
  <2>4. NoMarket' /\ RenderedWhenOffered'
    BY <1>1, <1>2, <2>3 DEF NoMarket, RenderedWhenOffered
  <2>5. CallKnows(c)'
    BY <1>1, <2>1, <2>3 DEF CallKnows, TypeOK
  <2> QED
    BY <1>2, <2>1, <2>2, <2>4, <2>5, CallMoves, Alone
<1>8. CASE FallbackSave(c)
  <2>1. call[c].row = row /\ ~RenderOn /\ ~row.requiresAccept
    BY <1>1, <1>8 DEF FallbackSave, CallKnows, NoMarket
  <2>2. /\ row' = [row EXCEPT !.status = "ready"] /\ UNCHANGED renders
        /\ call' = [call EXCEPT ![c] = [pc |-> After(c), row |-> NewRow]]
    BY <1>8, <2>1 DEF FallbackSave, Printable
  <2>3. After(c) \in {"arm", "idle"} /\ (c \in Deliveries => After(c) = "arm")
    BY <1>3 DEF After
  <2>4. NoMarket' /\ RenderedWhenOffered'
    BY <1>1, <1>2, <2>1, <2>2 DEF NoMarket, RenderedWhenOffered, Row
  <2>5. CallKnows(c)'
    BY <1>1, <2>2, <2>3 DEF CallKnows, TypeOK
  <2> QED
    BY <1>2, <2>2, <2>3, <2>4, <2>5, CallMoves, Alone
<1> QED
  BY <1>4, <1>5, <1>6, <1>7, <1>8 DEF Enqueue

LEMMA SweepHandOver ==
    ASSUME TypeOK, Plain, HandOver, SweepFind \/ SweepDemote \/ SweepGiveUp \/ SweepFail
    PROVE  HandOver'
<1> USE DEF Reads, Goes
<1>1. /\ Sweep \in Callers /\ Sweep \notin Deliveries
      /\ call[Sweep] \in Call /\ CallKnows(Sweep) /\ NoMarket /\ RenderedWhenOffered /\ row \in Row
  BY ConstantsOK DEF Callers, TypeOK, HandOver
<1>2. UNCHANGED <<window, accept, renders, reports>>
  BY DEF SweepFind, SweepDemote, SweepGiveUp, SweepFail
<1>3. CASE SweepFind
  <2>1. /\ row.status = "rendering" /\ UNCHANGED row
        /\ call' = [call EXCEPT ![Sweep] = [pc |-> "stuck", row |-> row]]
        /\ \A i \in RenderIds : ~Rendering(i)
        /\ \A c \in Callers : call[c].pc # "add"
    BY <1>3 DEF SweepFind, Plain, Underway, Rendering
  <2>2. \A c \in Callers \ {Sweep} : ~AtWork(c)
    BY <2>1 DEF HandOver, DeliveryFirst, CallKnows, AtWork, TypeOK, Call, Callers
  <2>3. \A d \in Deliveries : call[d].pc # "idle"
    BY <2>1 DEF HandOver, DeliveryFirst
  <2>4. NoMarket' /\ RenderedWhenOffered'
    BY <1>1, <1>2, <2>1 DEF NoMarket, RenderedWhenOffered
  <2>5. CallKnows(Sweep)'
    BY <1>1, <2>1 DEF CallKnows, TypeOK
  <2> QED
    BY <1>1, <1>2, <2>1, <2>2, <2>3, <2>4, <2>5, CallMoves
<1>4. CASE SweepDemote
  <2>1. AtWork(Sweep) /\ call[Sweep].row = row
    BY <1>1, <1>4 DEF SweepDemote, AtWork, CallKnows
  <2>2. /\ row' = [row EXCEPT !.status = "pending"]
        /\ call' = [call EXCEPT ![Sweep] = [pc |-> "enqueue", row |-> NewRow]]
    BY <1>4, <2>1 DEF SweepDemote
  <2>3. NoMarket' /\ RenderedWhenOffered'
    BY <1>1, <1>2, <2>2 DEF NoMarket, RenderedWhenOffered, Row
  <2>4. CallKnows(Sweep)'
    BY <1>1, <2>2 DEF CallKnows, TypeOK, Row
  <2> QED
    BY <1>1, <1>2, <2>1, <2>2, <2>3, <2>4, CallMoves, Alone
<1>5. CASE SweepGiveUp
  <2>1. AtWork(Sweep) /\ row.status = "pending"
    BY <1>1, <1>5 DEF SweepGiveUp, AtWork, CallKnows
  <2>2. call' = [call EXCEPT ![Sweep] = [pc |-> "idle", row |-> NewRow]] /\ UNCHANGED row
    BY <1>5, <2>1 DEF SweepGiveUp
  <2>3. NoMarket' /\ RenderedWhenOffered'
    BY <1>1, <1>2, <2>2 DEF NoMarket, RenderedWhenOffered
  <2>4. CallKnows(Sweep)'
    BY <1>1, <2>2 DEF CallKnows, TypeOK
  <2> QED
    BY <1>1, <1>2, <2>1, <2>2, <2>3, <2>4, CallMoves, Alone
<1>6. CASE SweepFail
  BY <1>1, <1>6 DEF SweepFail, CallKnows
<1> QED
  BY <1>3, <1>4, <1>5, <1>6

LEMMA RenderHandOver ==
    ASSUME TypeOK, HandOver, NEW i \in RenderIds,
           RenderStep(i) \/ ReportStep(i) \/ RenderFault(i) \/ FailureLost(i)
    PROVE  HandOver'
<1> USE DEF RenderStep, ReportStep, RenderFault, RenderThrows, ResultRead,
        ResultSave, FailureRead, FailureSave, RenderFails, RenderDies, ResultUnacked,
        ResultLost, FailureLost, RenderAt, ReportAt, queue
<1>1. /\ renders[i] \in Render /\ RenderKnows(i) /\ NoMarket /\ RenderedWhenOffered /\ row \in Row
      /\ reports[i] \in Report /\ Rendering(i) /\ UNCHANGED <<call, window, accept>>
  BY DEF TypeOK, HandOver, Rendering
<1>2. UNCHANGED row \/ ResultSave(i) \/ ResultUnacked(i) \/ FailureSave(i)
  OBVIOUS
<1>3. /\ \A j \in RenderIds \ {i} : renders'[j] = renders[j]
      /\ renders'[i].stage = "save" =>
            \/ /\ renders'[i].row = row /\ row.status = "rendering"
               /\ UNCHANGED <<row, reports>>
            \/ renders'[i] = renders[i] /\ UNCHANGED renders
  <2>1. \/ UNCHANGED renders
        \/ Retry(i) \/ Ends(i)
        \/ renders' = [renders EXCEPT ![i].stage = "waiting", ![i].row = NewRow]
        \/ /\ renders' = [renders EXCEPT ![i].stage = "save", ![i].row = row]
           /\ row.status = "rendering" /\ UNCHANGED <<row, reports>>
    OBVIOUS
  <2>2. Retried(i).stage # "save" /\ NoRender.stage # "save"
    BY DEF Retried, NoRender
  <2> QED
    BY <1>1, <2>1, <2>2 DEF Retry, Ends, TypeOK, Render
<1>4. /\ \A j \in RenderIds \ {i} : reports'[j] = reports[j]
      /\ reports'[i].stage = "save" =>
            \/ reports'[i].row = row /\ row.status = "rendering" /\ UNCHANGED <<row, renders>>
            \/ reports'[i] = reports[i] /\ UNCHANGED reports
  <2>1. \/ UNCHANGED reports
        \/ Reported(i) \/ FailedEvent(i)
        \/ /\ reports' = [reports EXCEPT ![i] = [stage |-> "save", row |-> row]]
           /\ row.status = "rendering" /\ UNCHANGED <<row, renders>>
    OBVIOUS
  <2> QED
    BY <2>1 DEF Reported, FailedEvent, NoReport, TypeOK
<1>5. CASE UNCHANGED row
  <2>1. NoMarket' /\ RenderedWhenOffered'
    BY <1>1, <1>5 DEF NoMarket, RenderedWhenOffered
  <2>2. RenderKnows(i)'
    BY <1>1, <1>3, <1>4, <1>5 DEF RenderKnows, NoMarket
  <2> QED
    BY <1>1, <1>3, <1>4, <2>1, <2>2, RenderMoves
<1>6. CASE ResultSave(i) \/ ResultUnacked(i)
  <2>1. renders[i].row \in Row /\ renders[i].row.shop = Home /\ ~renders[i].row.requiresAccept
    BY <1>1, <1>6 DEF RenderKnows, Render
  <2>2. /\ row'.shop = Home /\ ~row'.requiresAccept /\ row'.rendered /\ row'.status = "ready"
    BY <1>6, <2>1 DEF Rendered, Printable, Row
  <2>3. renders'[i].stage # "save" /\ UNCHANGED reports
    BY <1>1, <1>6 DEF Ends, NoRender, TypeOK, Render
  <2>4. NoMarket' /\ RenderedWhenOffered'
    BY <1>1, <2>2 DEF NoMarket, RenderedWhenOffered
  <2>5. RenderKnows(i)'
    BY <1>1, <2>2, <2>3 DEF RenderKnows
  <2> QED
    BY <1>1, <1>3, <1>4, <2>4, <2>5, RenderMoves
<1>7. CASE FailureSave(i)
  <2>1. reports[i].row \in Row /\ reports[i].row.shop = Home /\ ~reports[i].row.requiresAccept
    BY <1>1, <1>7 DEF RenderKnows, Report
  <2>2. /\ row'.shop = Home /\ ~row'.requiresAccept /\ row'.status = "failed"
        /\ UNCHANGED renders /\ reports'[i].stage = "none"
    BY <1>7, <2>1 DEF Reported, NoReport, Row, TypeOK
  <2>3. NoMarket' /\ RenderedWhenOffered'
    BY <1>1, <2>2 DEF NoMarket, RenderedWhenOffered
  <2>4. RenderKnows(i)'
    BY <1>1, <2>2 DEF RenderKnows
  <2> QED
    BY <1>1, <1>3, <1>4, <2>3, <2>4, RenderMoves
<1> QED
  BY <1>2, <1>5, <1>6, <1>7

\* The release comes when nobody is at work, and no report is about to be saved.
LEMMA ReleaseHandOver == ASSUME TypeOK, Plain, HandOver, Release PROVE HandOver'
<1>1. row.status = "ready" /\ row' = [row EXCEPT !.status = "released"] /\ row \in Row
      /\ UNCHANGED <<call, renders, reports, window, accept>>
  BY DEF Release, TypeOK
<1>2. \A i \in RenderIds : renders[i].stage # "save" /\ reports[i].stage # "save"
  BY <1>1 DEF HandOver, RenderKnows, Release, ReportAt, Plain
<1>3. NoMarket' /\ RenderedWhenOffered'
  BY <1>1 DEF HandOver, NoMarket, RenderedWhenOffered, Row
<1>4. \A c \in Callers : call[c].pc \in {"idle", "arm", "done"}
  <2> SUFFICES ASSUME NEW c \in Callers PROVE call[c].pc \in {"idle", "arm", "done"}
    OBVIOUS
  <2>1. call[c] \in Call /\ CallKnows(c)
    BY DEF TypeOK, HandOver
  <2> QED
    BY <1>1, <2>1 DEF CallKnows, Call
<1>5. \A d \in Deliveries : call[d].pc # "idle"
  BY <1>1 DEF HandOver, DeliveryFirst
<1>6. OneAtWork' /\ DeliveryFirst'
  BY <1>1, <1>5 DEF HandOver, OneAtWork, DeliveryFirst, AtWork, Rendering
<1>7. (\A c \in Callers : CallKnows(c)') /\ \A i \in RenderIds : RenderKnows(i)'
  BY <1>1, <1>2, <1>4 DEF CallKnows, RenderKnows
<1> QED
  BY <1>3, <1>6, <1>7 DEF HandOver

LEMMA NextHandOver == Plain /\ IInv /\ HandOver /\ [Next]_vars => HandOver'
<1> SUFFICES ASSUME Plain, TypeOK, HandOver, [Next]_vars PROVE HandOver'
  BY DEF IInv
<1>0. Deliveries \subseteq Callers /\ Sweep \in Callers
  BY DEF Callers
<1>1. CASE \E d \in Deliveries : PaymentRead(d) \/ PaymentStep(d)
  BY <1>0, <1>1, PaymentHandOver, EnqueueHandOver, ArmWindowHandOver DEF PaymentStep
<1>2. CASE SweepStep
  BY <1>0, <1>2, SweepHandOver, EnqueueHandOver DEF SweepStep
<1>3. CASE \E i \in RenderIds : RenderStep(i) \/ ReportStep(i)
  BY <1>3, RenderHandOver
<1>4. CASE \E s \in Shops : AcceptFind(s) \/ AcceptStep(s) \/ AcceptThrows(s)
  BY <1>4 DEF AcceptFind, AcceptStep, AcceptRead, AcceptCredit, AcceptSave, AcceptThrows,
     HandOver, NoMarket
<1>5. CASE WindowStep \/ WindowFails
  BY <1>5 DEF WindowStep, WindowFires, WindowAutoAccepts, WindowReverses, WindowReroutes,
     WindowRearms, WindowFails, HandOver, NoMarket
<1>6. CASE Release
  BY <1>6, ReleaseHandOver
<1>7. CASE UNCHANGED vars
  BY <1>7 DEF vars, HandOver, NoMarket, OneAtWork, DeliveryFirst, CallKnows, RenderKnows,
     AtWork, Rendering, RenderedWhenOffered
<1>8. CASE \/ \E d \in Deliveries : PaymentRollsBack(d)
           \/ \E c \in Callers : EnqueueRevert(c)
           \/ \E i \in RenderIds : RenderFault(i) \/ FailureLost(i)
  BY <1>8, PaymentHandOver, EnqueueHandOver, RenderHandOver
<1> QED
  BY <1>1, <1>2, <1>3, <1>4, <1>5, <1>6, <1>7, <1>8 DEF Next, Fault

\* Whoever writes the row, by a save or otherwise, is at work on a row that is PENDING,
\* RENDERING or READY.
LEMMA HandedOverStep ==
    Plain /\ IInv /\ HandOver /\ [Next]_vars
        => (row.status = "released" => row'.status = "released")
<1> SUFFICES ASSUME Plain, TypeOK, HandOver, [Next]_vars, row.status = "released"
             PROVE  UNCHANGED row
  BY DEF IInv
<1>1. \A c \in Callers : call[c].pc \notin {"tx", "commit", "flip", "add", "promote", "stuck", "fail"}
  BY DEF HandOver, CallKnows
<1>2. \A i \in RenderIds : renders[i].stage # "save" /\ reports[i].stage # "save"
  BY DEF HandOver, RenderKnows
<1>3. Deliveries \subseteq Callers /\ Sweep \in Callers
  BY DEF Callers
<1>4. CASE \/ \E d \in Deliveries :
                 \/ PaymentRead(d) \/ PaymentCredits(d) \/ PaymentCommit(d)
                 \/ PaymentRollsBack(d) \/ ArmWindow(d)
           \/ SweepFind \/ SweepDemote \/ SweepGiveUp \/ SweepFail
  BY <1>1, <1>3, <1>4 DEF PaymentRead, PaymentCredits, PaymentCommit, PaymentRollsBack,
     ArmWindow, SweepFind, SweepDemote, SweepGiveUp, SweepFail
<1>5. CASE \E c \in Callers : Enqueue(c) \/ EnqueueRevert(c)
  BY <1>1, <1>5 DEF Enqueue, EnqueueRead, EnqueueFlip, EnqueueAdd, FallbackRead, FallbackSave,
     EnqueueRevert
<1>6. CASE \E i \in RenderIds :
              RenderStep(i) \/ ReportStep(i) \/ RenderFault(i) \/ FailureLost(i)
  BY <1>2, <1>6 DEF RenderStep, ReportStep, RenderFault, RenderThrows,
     ResultRead, ResultSave, FailureRead, FailureSave, RenderFails, RenderDies, ResultUnacked,
     ResultLost, FailureLost, RenderAt, ReportAt
<1>7. CASE \/ \E s \in Shops : AcceptFind(s) \/ AcceptStep(s) \/ AcceptThrows(s)
           \/ WindowStep \/ WindowFails \/ Release \/ UNCHANGED vars
  BY <1>7 DEF AcceptFind, AcceptStep, AcceptRead, AcceptCredit, AcceptSave, AcceptThrows,
     WindowStep, WindowFires, WindowAutoAccepts, WindowReverses, WindowReroutes, WindowRearms,
     WindowFails, Release, vars, HandOver, NoMarket
<1> QED
  BY <1>3, <1>4, <1>5, <1>6, <1>7 DEF Next, PaymentStep, SweepStep, Fault

\* A job that renders run for is released only with its rendered file and final cost,
\* whatever renders, callbacks and queue calls fail, however often the sweep takes it up.
THEOREM RenderedWhenOfferedHolds ==
    ASSUME Plain
    PROVE  Spec => []RenderedWhenOffered
<1>1. IInv /\ HandOver /\ [Next]_vars => HandOver'
  BY NextHandOver
<1>2. HandOver => RenderedWhenOffered
  BY DEF HandOver
<1>3. QED
  BY <1>1, <1>2, InitHandOver, Invariance, PTL DEF Spec

\* Nor is a released job ever taken back.
THEOREM HandedOverStaysHolds ==
    ASSUME Plain
    PROVE  Spec => HandedOverStays
<1>1. IInv /\ HandOver /\ [Next]_vars => HandOver'
  BY NextHandOver
<1>2. IInv /\ HandOver /\ [Next]_vars
          => [row.status = "released" => row'.status = "released"]_vars
  BY HandedOverStep
<1>3. QED
  BY <1>1, <1>2, InitHandOver, Invariance, PTL DEF Spec, HandedOverStays
===============================================================================
