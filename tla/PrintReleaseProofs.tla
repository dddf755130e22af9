-------------------------- MODULE PrintReleaseProofs --------------------------
(***************************************************************************)
(* Proofs about PrintRelease, for any sets of jobs and kiosks, any number  *)
(* of documents, and any bounds.  The invariants need the shop to work     *)
(* from one console: with two, a requeue saved late undoes a claim.        *)
(***************************************************************************)
EXTENDS PrintRelease, TLAPS

\* One console at a time sends requeue requests.
OneConsoleAtATime == \A o1, o2 \in Operators : o1 = o2

(***************************************************************************)
(* The inductive invariant                                                 *)
(***************************************************************************)

\* An agent that prints a job is the one its row names, and has counted every
\* document as printed, failed or still to do.
AgentHolds ==
    \A k \in Kiosks :
        /\ agent[k].pc = "idle" => agent[k].job = {}
        /\ \A j \in agent[k].job :
              /\ agent[k].job = {j}
              /\ job[j].status = "printing"
              /\ job[j].kioskId = k
              /\ runs[j] > 0
              /\ unprinted[j] + agent[k].todo <= ItemCount
              /\ agent[k].proofs # {} => unprinted[j] + agent[k].todo < ItemCount

\* A report is the only one on its job, its kiosk is the one the row names and
\* has let go of the job, and the row it will save back is the row as it stands.
ReportHolds ==
    \A r \in reports :
        /\ job[r.job].status = "printing"
        /\ job[r.job].kioskId = r.kiosk
        /\ r.job \notin agent[r.kiosk].job
        /\ \A s \in reports : s.job = r.job => s = r
        /\ r.stage # "sent" => r.kind = "complete"
        /\ r.stage \in {"checked", "loaded"} => r.row = job[r.job]
        /\ runs[r.job] > 0
        /\ r.kind = "complete" => unprinted[r.job] < ItemCount

\* A job whose requeue is between its read and its save is still the row that was
\* read, FAILED, and nobody else is requeueing it.
RequeueHolds ==
    \A q \in requeues :
        /\ job[q.job].status = "failed"
        /\ q.row = job[q.job]
        /\ \A p \in requeues : p = q

IInv ==
    /\ TypeOK
    /\ AgentHolds
    /\ ReportHolds
    /\ RequeueHolds
    /\ RunsWithinGrants
    /\ DoneMeansPrinted

\* The jobs the payment and render pipeline hands over satisfy the invariant.
LEMMA InitIInv == Init => IInv
BY ConstantsOK DEF Init, IInv, TypeOK, Row, Status, Agent, IdleAgent, AgentHolds, ReportHolds,
     RequeueHolds, RunsWithinGrants, DoneMeansPrinted, Proof

\* A release, at a kiosk or by a console, keeps it: nobody holds a READY job.
LEMMA GrantStep ==
    ASSUME NEW j \in Jobs, NEW k \in Kiosks, IInv, Grant(j, k)
    PROVE  IInv'
<1> USE DEF IInv, Grant
<1>1. TypeOK'
  <2>1. job' \in [Jobs -> Row]
    BY DEF TypeOK, Row, Status
  <2>2. grants' \in [Jobs -> Nat]
    BY DEF TypeOK
  <2>3. QED
    BY <2>1, <2>2 DEF TypeOK
<1>2. AgentHolds'
  BY DEF TypeOK, Agent, AgentHolds
<1>3. ReportHolds'
  BY DEF TypeOK, Report, ReportHolds
<1>4. RequeueHolds'
  BY DEF TypeOK, Requeue, RequeueHolds
<1>5. RunsWithinGrants'
  BY DEF TypeOK, RunsWithinGrants
<1>6. DoneMeansPrinted'
  BY DEF TypeOK, DoneMeansPrinted
<1>7. QED
  BY <1>1, <1>2, <1>3, <1>4, <1>5, <1>6

\* A poll (GET /jobs/ready) only fills the agent's list.
LEMMA AgentPollStep ==
    ASSUME NEW k \in Kiosks, IInv, AgentPoll(k)
    PROVE  IInv'
<1> USE DEF IInv, AgentPoll, ReadyFor
<1>1. TypeOK'
  BY DEF TypeOK, Agent
<1>2. AgentHolds'
  BY DEF AgentHolds
<1>3. ReportHolds'
  BY DEF ReportHolds
<1>4. RequeueHolds'
  BY DEF RequeueHolds
<1>5. RunsWithinGrants'
  BY DEF RunsWithinGrants
<1>6. DoneMeansPrinted'
  BY DEF DoneMeansPrinted
<1>7. QED
  BY <1>1, <1>2, <1>3, <1>4, <1>5, <1>6

\* A claim keeps it: the row was RELEASING, so no agent, report or requeue holds
\* it.
LEMMA AgentClaimStep ==
    ASSUME NEW k \in Kiosks, NEW j \in Jobs, IInv, AgentClaim(k, j)
    PROVE  IInv'
<1> USE DEF IInv, AgentClaim, StartClaims, ClaimRow
<1>1. TypeOK'
  <2>1. job' \in [Jobs -> Row]
    BY DEF TypeOK, Row, Status
  <2>2. agent' \in [Kiosks -> Agent]
    BY ConstantsOK DEF TypeOK, Agent
  <2>3. runs' \in [Jobs -> Nat] /\ unprinted' \in [Jobs -> 0..ItemCount]
    BY ConstantsOK DEF TypeOK
  <2>4. QED
    BY <2>1, <2>2, <2>3 DEF TypeOK
<1>2. AgentHolds'
  BY ConstantsOK DEF TypeOK, Agent, AgentHolds
<1>3. ReportHolds'
  BY DEF TypeOK, Report, ReportHolds
<1>4. RequeueHolds'
  BY DEF TypeOK, Requeue, RequeueHolds
<1>5. RunsWithinGrants'
  BY DEF TypeOK, RunsWithinGrants
<1>6. DoneMeansPrinted'
  BY DEF TypeOK, DoneMeansPrinted
<1>7. QED
  BY <1>1, <1>2, <1>3, <1>4, <1>5, <1>6

\* A 409 only shortens the agent's list.
LEMMA AgentConflictStep ==
    ASSUME NEW k \in Kiosks, NEW j \in Jobs, IInv, AgentConflict(k, j)
    PROVE  IInv'
<1> USE DEF IInv, AgentConflict
<1>1. TypeOK'
  BY DEF TypeOK, Agent
<1>2. AgentHolds'
  BY DEF AgentHolds
<1>3. ReportHolds'
  BY DEF ReportHolds
<1>4. RequeueHolds'
  BY DEF RequeueHolds
<1>5. RunsWithinGrants'
  BY DEF RunsWithinGrants
<1>6. DoneMeansPrinted'
  BY DEF DoneMeansPrinted
<1>7. QED
  BY <1>1, <1>2, <1>3, <1>4, <1>5, <1>6

\* A claim that timed out leaves the row alone for now.
LEMMA AgentClaimTimeoutStep ==
    ASSUME NEW k \in Kiosks, NEW j \in Jobs, IInv, AgentClaimTimeout(k, j)
    PROVE  IInv'
<1> USE DEF IInv, AgentClaimTimeout
<1>1. TypeOK'
  <2>1. agent' \in [Kiosks -> Agent]
    BY DEF TypeOK, Agent
  <2>2. stray' \subseteq Kiosks \X Jobs /\ faults' \in Nat
    BY DEF TypeOK
  <2>3. QED
    BY <2>1, <2>2 DEF TypeOK
<1>2. AgentHolds'
  BY DEF AgentHolds
<1>3. ReportHolds'
  BY DEF ReportHolds
<1>4. RequeueHolds'
  BY DEF RequeueHolds
<1>5. RunsWithinGrants'
  BY DEF RunsWithinGrants
<1>6. DoneMeansPrinted'
  BY DEF DoneMeansPrinted
<1>7. QED
  BY <1>1, <1>2, <1>3, <1>4, <1>5, <1>6

\* A claim whose answer nobody awaits leaves the job PRINTING with no holder.
LEMMA StrayClaimStep ==
    ASSUME NEW k \in Kiosks, NEW j \in Jobs, IInv, StrayClaim(k, j)
    PROVE  IInv'
<1> USE DEF IInv, StrayClaim, StartClaims, ClaimRow
<1>1. TypeOK'
  BY DEF TypeOK, Row, Status
<1>2. AgentHolds'
  BY DEF TypeOK, Agent, AgentHolds
<1>3. ReportHolds'
  BY DEF TypeOK, Report, ReportHolds
<1>4. RequeueHolds'
  BY DEF TypeOK, Requeue, RequeueHolds
<1>5. RunsWithinGrants'
  BY DEF TypeOK, RunsWithinGrants
<1>6. DoneMeansPrinted'
  BY DEF TypeOK, Row, Status, Agent, Requeue, Proof, ReportHolds, DoneMeansPrinted
<1>7. QED
  BY <1>1, <1>2, <1>3, <1>4, <1>5, <1>6

\* A document that printed leaves fewer to do than can still fail.
LEMMA AgentPrintItemStep ==
    ASSUME NEW k \in Kiosks, NEW p \in Proof, IInv, AgentPrintItem(k, p)
    PROVE  IInv'
<1> USE DEF IInv, AgentPrintItem
<1>1. TypeOK'
  <2>1. agent[k] \in Agent
    BY DEF TypeOK
  <2>2. agent[k].todo - 1 \in 0..ItemCount
    BY <2>1, ConstantsOK DEF Agent
  <2>3. agent' \in [Kiosks -> Agent]
    BY <2>1, <2>2 DEF TypeOK, Agent
  <2>4. QED
    BY <2>3 DEF TypeOK
<1>2. AgentHolds'
  BY ConstantsOK DEF TypeOK, Agent, AgentHolds
<1>3. ReportHolds'
  BY DEF TypeOK, Report, ReportHolds
<1>4. RequeueHolds'
  BY DEF RequeueHolds
<1>5. RunsWithinGrants'
  BY DEF RunsWithinGrants
<1>6. DoneMeansPrinted'
  BY DEF DoneMeansPrinted
<1>7. QED
  BY <1>1, <1>2, <1>3, <1>4, <1>5, <1>6

\* A document that failed is counted, and is one less to do.
LEMMA AgentItemFailsStep ==
    ASSUME NEW k \in Kiosks, IInv, AgentItemFails(k)
    PROVE  IInv'
<1> USE DEF IInv, AgentItemFails
<1>1. TypeOK'
  <2>1. agent[k] \in Agent
    BY DEF TypeOK
  <2>2. agent[k].todo - 1 \in 0..ItemCount
    BY <2>1, ConstantsOK DEF Agent
  <2>3. agent' \in [Kiosks -> Agent]
    BY <2>1, <2>2 DEF TypeOK, Agent
  <2>4. unprinted' \in [Jobs -> 0..ItemCount]
    BY <2>1, ConstantsOK DEF TypeOK, Agent, AgentHolds
  <2>5. QED
    BY <2>3, <2>4 DEF TypeOK
<1>2. AgentHolds'
  BY ConstantsOK DEF TypeOK, Agent, AgentHolds
<1>3. ReportHolds'
  BY DEF AgentHolds, ReportHolds
<1>4. RequeueHolds'
  BY DEF RequeueHolds
<1>5. RunsWithinGrants'
  BY DEF RunsWithinGrants
<1>6. DoneMeansPrinted'
  BY DEF AgentHolds, DoneMeansPrinted
<1>7. QED
  BY <1>1, <1>2, <1>3, <1>4, <1>5, <1>6

\* The report takes over the job from the agent; it says complete only if a
\* document printed.
LEMMA AgentReportStep ==
    ASSUME NEW k \in Kiosks, IInv, AgentReport(k)
    PROVE  IInv'
<1> USE DEF IInv, AgentReport, IdleAgent, OutcomeKind, OutcomeProof
<1>1. TypeOK'
  BY DEF TypeOK, Agent, Report, Proof
<1>2. AgentHolds'
  BY DEF AgentHolds
<1>3. ReportHolds'
  BY DEF TypeOK, Agent, AgentHolds, ReportHolds
<1>4. RequeueHolds'
  BY DEF RequeueHolds
<1>5. RunsWithinGrants'
  BY DEF RunsWithinGrants
<1>6. DoneMeansPrinted'
  BY DEF DoneMeansPrinted
<1>7. QED
  BY <1>1, <1>2, <1>3, <1>4, <1>5, <1>6

\* A crash drops what the agent held, and no row changes.
LEMMA AgentCrashStep ==
    ASSUME NEW k \in Kiosks, IInv, AgentCrash(k)
    PROVE  IInv'
<1> USE DEF IInv, AgentCrash, IdleAgent
<1>1. TypeOK'
  BY ConstantsOK DEF TypeOK, Agent
<1>2. AgentHolds'
  BY DEF AgentHolds
<1>3. ReportHolds'
  BY DEF ReportHolds
<1>4. RequeueHolds'
  BY DEF RequeueHolds
<1>5. RunsWithinGrants'
  BY DEF RunsWithinGrants
<1>6. DoneMeansPrinted'
  BY DEF DoneMeansPrinted
<1>7. QED
  BY <1>1, <1>2, <1>3, <1>4, <1>5, <1>6

\* A lost report leaves the job without a holder.
LEMMA ReportLostStep ==
    ASSUME NEW r \in reports, IInv, ReportLost(r)
    PROVE  IInv'
<1> USE DEF IInv, ReportLost
<1>1. TypeOK'
  BY DEF TypeOK
<1>2. AgentHolds'
  BY DEF AgentHolds
<1>3. ReportHolds'
  BY DEF ReportHolds
<1>4. RequeueHolds'
  BY DEF RequeueHolds
<1>5. RunsWithinGrants'
  BY DEF RunsWithinGrants
<1>6. DoneMeansPrinted'
  BY DEF DoneMeansPrinted
<1>7. QED
  BY <1>1, <1>2, <1>3, <1>4, <1>5, <1>6

\* POST /failed fails the job of the one report there is on it.
LEMMA FailedReportStep ==
    ASSUME NEW r \in reports, IInv, FailedReport(r)
    PROVE  IInv'
<1> USE DEF IInv, FailedReport, OwnedBy
<1>1. TypeOK'
  BY DEF TypeOK, Row, Status
<1>2. AgentHolds'
  BY DEF TypeOK, Agent, AgentHolds, ReportHolds
<1>3. ReportHolds'
  BY DEF TypeOK, Report, ReportHolds
<1>4. RequeueHolds'
  BY DEF TypeOK, Requeue, ReportHolds, RequeueHolds
<1>5. RunsWithinGrants'
  BY DEF TypeOK, Row, Report, RunsWithinGrants
<1>6. DoneMeansPrinted'
  BY DEF TypeOK, Row, DoneMeansPrinted
<1>7. QED
  BY <1>1, <1>2, <1>3, <1>4, <1>5, <1>6

\* /complete reads the row as it stands.
LEMMA CompleteReadStep ==
    ASSUME NEW r \in reports, IInv, CompleteRead(r)
    PROVE  IInv'
<1> USE DEF IInv, CompleteRead, Advance, OwnedBy
<1>1. TypeOK'
  <2>1. job[r.job] \in Row /\ r \in Report
    BY DEF TypeOK, Report
  <2>2. [r EXCEPT !.stage = "checked", !.row = job[r.job]] \in Report
    BY <2>1 DEF Report
  <2>3. reports' \subseteq Report
    BY <2>2 DEF TypeOK
  <2>4. QED
    BY <2>3 DEF TypeOK
<1>2. AgentHolds'
  BY DEF AgentHolds
<1>3. ReportHolds'
  <2> DEFINE new == [r EXCEPT !.stage = "checked", !.row = job[r.job]]
  <2>1. /\ r \in Report /\ r.job \in Jobs /\ r.kiosk \in Kiosks
        /\ job[r.job] \in Row /\ r.row \in Row
    BY DEF TypeOK, Report
  <2>2. /\ new.job = r.job /\ new.kiosk = r.kiosk /\ new.kind = r.kind
        /\ new.stage = "checked" /\ new.row = job[r.job]
    BY <2>1 DEF Report
  <2>3. \A s \in reports \ {r} :
          s.job # r.job /\ job'[s.job] = job[s.job]
    BY <2>1 DEF TypeOK, Report, ReportHolds
  <2>4. /\ job'[r.job].status = "printing" /\ job'[r.job].kioskId = r.kiosk
        /\ "checked" \in {"checked", "loaded"} => new.row = job'[r.job]
    BY <2>1, <2>2 DEF TypeOK, Row, Status, Proof, ReportHolds
  <2>5. reports' = reports \ {r} \/ reports' = (reports \ {r}) \cup {new}
    OBVIOUS
  <2>6. /\ \A s \in reports : s.job = r.job => s = r
        /\ r.kind = "complete" /\ runs[r.job] > 0 /\ unprinted[r.job] < ItemCount
        /\ r.job \notin agent[r.kiosk].job
    BY DEF ReportHolds
  <2>7. UNCHANGED <<agent, runs, unprinted>>
    OBVIOUS
  <2>8. SUFFICES ASSUME NEW s \in reports'
                 PROVE  /\ job'[s.job].status = "printing"
                        /\ job'[s.job].kioskId = s.kiosk
                        /\ s.job \notin agent[s.kiosk].job
                        /\ \A t \in reports' : t.job = s.job => t = s
                        /\ s.stage # "sent" => s.kind = "complete"
                        /\ s.stage \in {"checked", "loaded"} => s.row = job'[s.job]
                        /\ runs[s.job] > 0
                        /\ s.kind = "complete" => unprinted[s.job] < ItemCount
    BY <2>7 DEF ReportHolds
  <2> HIDE DEF new, CompleteRead, Advance
  <2>9. CASE s \in reports \ {r}
    BY <2>9, <2>2, <2>3, <2>5 DEF ReportHolds
  <2>10. CASE s = new
    BY <2>10, <2>2, <2>3, <2>4, <2>5, <2>6 DEF ReportHolds
  <2>11. QED
    BY <2>5, <2>9, <2>10
<1>4. RequeueHolds'
  BY DEF RequeueHolds
<1>5. RunsWithinGrants'
  BY DEF RunsWithinGrants
<1>6. DoneMeansPrinted'
  BY DEF DoneMeansPrinted
<1>7. QED
  BY <1>1, <1>2, <1>3, <1>4, <1>5, <1>6

\* /complete saves the row it read, which nobody has changed since, with the
\* confirmation.
LEMMA CompleteRecordStep ==
    ASSUME NEW r \in reports, IInv, CompleteRecord(r)
    PROVE  IInv'
<1> USE DEF IInv, CompleteRecord, Advance
<1>1. TypeOK'
  BY DEF TypeOK, Row, Report
<1>2. AgentHolds'
  BY DEF AgentHolds, ReportHolds
<1>3. ReportHolds'
  <2> DEFINE new == [r EXCEPT !.stage = "recorded", !.row = r.row]
  <2>1. /\ r \in Report /\ r.job \in Jobs /\ r.kiosk \in Kiosks
        /\ job[r.job] \in Row /\ r.row \in Row
    BY DEF TypeOK, Report
  <2>2. /\ new.job = r.job /\ new.kiosk = r.kiosk /\ new.kind = r.kind
        /\ new.stage = "recorded" /\ new.row = r.row
    BY <2>1 DEF Report
  <2>3. \A s \in reports \ {r} :
          s.job # r.job /\ job'[s.job] = job[s.job]
    BY <2>1 DEF TypeOK, Report, ReportHolds
  <2>4. /\ job'[r.job].status = "printing" /\ job'[r.job].kioskId = r.kiosk
        /\ "recorded" \in {"checked", "loaded"} => new.row = job'[r.job]
    BY <2>1, <2>2 DEF TypeOK, Row, Status, Proof, ReportHolds
  <2>5. reports' = reports \ {r} \/ reports' = (reports \ {r}) \cup {new}
    OBVIOUS
  <2>6. /\ \A s \in reports : s.job = r.job => s = r
        /\ r.kind = "complete" /\ runs[r.job] > 0 /\ unprinted[r.job] < ItemCount
        /\ r.job \notin agent[r.kiosk].job
    BY DEF ReportHolds
  <2>7. UNCHANGED <<agent, runs, unprinted>>
    OBVIOUS
  <2>8. SUFFICES ASSUME NEW s \in reports'
                 PROVE  /\ job'[s.job].status = "printing"
                        /\ job'[s.job].kioskId = s.kiosk
                        /\ s.job \notin agent[s.kiosk].job
                        /\ \A t \in reports' : t.job = s.job => t = s
                        /\ s.stage # "sent" => s.kind = "complete"
                        /\ s.stage \in {"checked", "loaded"} => s.row = job'[s.job]
                        /\ runs[s.job] > 0
                        /\ s.kind = "complete" => unprinted[s.job] < ItemCount
    BY <2>7 DEF ReportHolds
  <2> HIDE DEF new, CompleteRecord, Advance
  <2>9. CASE s \in reports \ {r}
    BY <2>9, <2>2, <2>3, <2>5 DEF ReportHolds
  <2>10. CASE s = new
    BY <2>10, <2>2, <2>3, <2>4, <2>5, <2>6 DEF ReportHolds
  <2>11. QED
    BY <2>5, <2>9, <2>10
<1>4. RequeueHolds'
  BY DEF ReportHolds, RequeueHolds
<1>5. RunsWithinGrants'
  BY DEF ReportHolds, RunsWithinGrants
<1>6. DoneMeansPrinted'
  BY DEF ReportHolds, DoneMeansPrinted
<1>7. QED
  BY <1>1, <1>2, <1>3, <1>4, <1>5, <1>6

\* completePrintJob reads the row as it stands.
LEMMA CompleteLoadStep ==
    ASSUME NEW r \in reports, IInv, CompleteLoad(r)
    PROVE  IInv'
<1> USE DEF IInv, CompleteLoad, Advance
<1>1. TypeOK'
  BY DEF TypeOK, Report
<1>2. AgentHolds'
  BY DEF AgentHolds
<1>3. ReportHolds'
  <2> DEFINE new == [r EXCEPT !.stage = "loaded", !.row = job[r.job]]
  <2>1. /\ r \in Report /\ r.job \in Jobs /\ r.kiosk \in Kiosks
        /\ job[r.job] \in Row /\ r.row \in Row
    BY DEF TypeOK, Report
  <2>2. /\ new.job = r.job /\ new.kiosk = r.kiosk /\ new.kind = r.kind
        /\ new.stage = "loaded" /\ new.row = job[r.job]
    BY <2>1 DEF Report
  <2>3. \A s \in reports \ {r} :
          s.job # r.job /\ job'[s.job] = job[s.job]
    BY <2>1 DEF TypeOK, Report, ReportHolds
  <2>4. /\ job'[r.job].status = "printing" /\ job'[r.job].kioskId = r.kiosk
        /\ "loaded" \in {"checked", "loaded"} => new.row = job'[r.job]
    BY <2>1, <2>2 DEF TypeOK, Row, Status, Proof, ReportHolds
  <2>5. reports' = reports \ {r} \/ reports' = (reports \ {r}) \cup {new}
    OBVIOUS
  <2>6. /\ \A s \in reports : s.job = r.job => s = r
        /\ r.kind = "complete" /\ runs[r.job] > 0 /\ unprinted[r.job] < ItemCount
        /\ r.job \notin agent[r.kiosk].job
    BY DEF ReportHolds
  <2>7. UNCHANGED <<agent, runs, unprinted>>
    OBVIOUS
  <2>8. SUFFICES ASSUME NEW s \in reports'
                 PROVE  /\ job'[s.job].status = "printing"
                        /\ job'[s.job].kioskId = s.kiosk
                        /\ s.job \notin agent[s.kiosk].job
                        /\ \A t \in reports' : t.job = s.job => t = s
                        /\ s.stage # "sent" => s.kind = "complete"
                        /\ s.stage \in {"checked", "loaded"} => s.row = job'[s.job]
                        /\ runs[s.job] > 0
                        /\ s.kind = "complete" => unprinted[s.job] < ItemCount
    BY <2>7 DEF ReportHolds
  <2> HIDE DEF new, CompleteLoad, Advance
  <2>9. CASE s \in reports \ {r}
    BY <2>9, <2>2, <2>3, <2>5 DEF ReportHolds
  <2>10. CASE s = new
    BY <2>10, <2>2, <2>3, <2>4, <2>5, <2>6 DEF ReportHolds
  <2>11. QED
    BY <2>5, <2>9, <2>10
<1>4. RequeueHolds'
  BY DEF RequeueHolds
<1>5. RunsWithinGrants'
  BY DEF RunsWithinGrants
<1>6. DoneMeansPrinted'
  BY DEF DoneMeansPrinted
<1>7. QED
  BY <1>1, <1>2, <1>3, <1>4, <1>5, <1>6

\* completePrintJob saves DONE over a job that was PRINTING and of which a document
\* printed.
LEMMA CompleteDoneStep ==
    ASSUME NEW r \in reports, IInv, CompleteDone(r)
    PROVE  IInv'
<1> USE DEF IInv, CompleteDone
<1>1. TypeOK'
  BY DEF TypeOK, Row, Status, Report
<1>2. AgentHolds'
  BY DEF AgentHolds, ReportHolds
<1>3. ReportHolds'
  BY DEF ReportHolds
<1>4. RequeueHolds'
  BY DEF ReportHolds, RequeueHolds
<1>5. RunsWithinGrants'
  BY DEF ReportHolds, RunsWithinGrants
<1>6. DoneMeansPrinted'
  BY DEF ReportHolds, DoneMeansPrinted
<1>7. QED
  BY <1>1, <1>2, <1>3, <1>4, <1>5, <1>6

\* The one console starts a requeue of a FAILED job only when none is under way.
LEMMA RequeueReadStep ==
    ASSUME NEW o \in Operators, NEW j \in Jobs, OneConsoleAtATime, IInv, RequeueRead(o, j)
    PROVE  IInv'
<1> USE DEF IInv, RequeueRead, OneConsoleAtATime
<1>1. TypeOK'
  BY DEF TypeOK, Requeue
<1>2. AgentHolds'
  BY DEF AgentHolds
<1>3. ReportHolds'
  BY DEF ReportHolds
<1>4. RequeueHolds'
  BY DEF TypeOK, Requeue, RequeueHolds
<1>5. RunsWithinGrants'
  BY DEF RunsWithinGrants
<1>6. DoneMeansPrinted'
  BY DEF DoneMeansPrinted
<1>7. QED
  BY <1>1, <1>2, <1>3, <1>4, <1>5, <1>6

\* The requeue saves READY over the FAILED row it read.
LEMMA RequeueSaveStep ==
    ASSUME NEW q \in requeues, IInv, RequeueSave(q)
    PROVE  IInv'
<1> USE DEF IInv, RequeueSave
<1>1. TypeOK'
  BY DEF TypeOK, Row, Status, Requeue
<1>2. AgentHolds'
  BY DEF AgentHolds, RequeueHolds
<1>3. ReportHolds'
  BY DEF ReportHolds, RequeueHolds
<1>4. RequeueHolds'
  BY DEF RequeueHolds
<1>5. RunsWithinGrants'
  BY DEF RequeueHolds, RunsWithinGrants
<1>6. DoneMeansPrinted'
  BY DEF DoneMeansPrinted
<1>7. QED
  BY <1>1, <1>2, <1>3, <1>4, <1>5, <1>6

\* A step that changes nothing keeps the invariant.
LEMMA StutterStep ==
    ASSUME IInv, UNCHANGED vars
    PROVE  IInv'
BY DEF vars, IInv, TypeOK, AgentHolds, ReportHolds, RequeueHolds, RunsWithinGrants, DoneMeansPrinted

\* Every step keeps the invariant.
LEMMA NextIInv ==
    ASSUME OneConsoleAtATime, IInv, [Next]_vars
    PROVE  IInv'
<1>1. CASE UNCHANGED vars
  BY <1>1, StutterStep
<1>2. CASE \E j \in Jobs : Release(j)
  BY <1>2, GrantStep DEF Release, OperatorRelease, KioskRelease
<1>3. CASE \E k \in Kiosks : AgentStep(k)
  BY <1>3, AgentPollStep, AgentClaimStep, AgentConflictStep, AgentPrintItemStep,
     AgentItemFailsStep, AgentReportStep DEF AgentStep
<1>4. CASE HandleReport
  BY <1>4, FailedReportStep, CompleteReadStep, CompleteRecordStep, CompleteLoadStep,
     CompleteDoneStep DEF HandleReport
<1>5. CASE HandleStray
  BY <1>5, StrayClaimStep DEF HandleStray
<1>6. CASE HandleRequeue
  BY <1>6, RequeueReadStep, RequeueSaveStep DEF HandleRequeue
<1>7. CASE Fault
  BY <1>7, AgentClaimTimeoutStep, AgentCrashStep, ReportLostStep DEF Fault
<1>8. QED
  BY <1>1, <1>2, <1>3, <1>4, <1>5, <1>6, <1>7 DEF Next

\* The invariant holds in every reachable state.
LEMMA Invariance == ASSUME OneConsoleAtATime PROVE Spec => []IInv
<1>1. IInv /\ [Next]_vars => IInv'
  BY NextIInv
<1>2. QED
  BY InitIInv, <1>1, PTL DEF Spec

(***************************************************************************)
(* What follows from the invariant                                         *)
(***************************************************************************)

\* Every variable keeps to its type.
THEOREM TypeCorrect == ASSUME OneConsoleAtATime PROVE Spec => []TypeOK
<1>1. IInv => TypeOK
  BY DEF IInv
<1>2. QED
  BY <1>1, Invariance, PTL

\* Whatever agents poll, crash, time out and report, no two of them ever hold one
\* job: the conditional UPDATE of POST /jobs/:id/start is enough, although
\* /complete and /failed check no status.
THEOREM OneHolderHolds == ASSUME OneConsoleAtATime PROVE Spec => []OneHolder
<1>1. IInv => OneHolder
  <2> SUFFICES ASSUME IInv, NEW j \in Jobs, NEW k \in Holders(j)
               PROVE  job[j].status = "printing" /\ job[j].kioskId = k
    BY DEF OneHolder
  <2>1. CASE k \in Kiosks /\ agent[k].job = {j}
    BY <2>1 DEF IInv, AgentHolds
  <2>2. CASE \E r \in reports : r.job = j /\ r.kiosk = k
    BY <2>2 DEF IInv, ReportHolds
  <2>3. QED
    BY <2>1, <2>2 DEF Holders
<1>2. QED
  BY <1>1, Invariance, PTL

\* No job is printed more often than it was released, by a customer at a kiosk or
\* by an operator.
THEOREM RunsWithinGrantsHolds == ASSUME OneConsoleAtATime PROVE Spec => []RunsWithinGrants
<1>1. IInv => RunsWithinGrants
  BY DEF IInv
<1>2. QED
  BY <1>1, Invariance, PTL

\* completePrintJob never marks a job DONE of which the latest run printed nothing.
THEOREM DoneMeansPrintedHolds == ASSUME OneConsoleAtATime PROVE Spec => []DoneMeansPrinted
<1>1. IInv => DoneMeansPrinted
  BY DEF IInv
<1>2. QED
  BY <1>1, Invariance, PTL

(***************************************************************************)
(* The refinement                                                          *)
(***************************************************************************)

Phases == [j \in Jobs |-> job[j].status]
KioskHolding == [j \in Jobs |-> HolderOf(job[j])]

\* The initial states of the release are initial states of PrintGrants.
LEMMA GrantsInit == Init => Grants!Init
BY DEF Init, Grants!Init, HolderOf

\* A step that leaves rows and print runs alone, or changes of a row only what
\* the abstraction does not show, is a stutter.
LEMMA Invisible ==
    ASSUME TypeOK, runs' = runs,
           \A j \in Jobs : job'[j].status = job[j].status /\ job'[j].kioskId = job[j].kioskId
    PROVE  UNCHANGED Grants!gvars
BY DEF TypeOK, Grants!gvars, HolderOf

\* A release is a Give of PrintGrants.
LEMMA GrantGives ==
    ASSUME NEW j \in Jobs, NEW k \in Kiosks, TypeOK, Grant(j, k)
    PROVE  Grants!Give(j)
BY DEF Grant, TypeOK, Row, Status, Grants!Give, Grants!Move, HolderOf

\* A claim, awaited or not, is a Take.
LEMMA ClaimTakes ==
    ASSUME NEW j \in Jobs, NEW k \in Kiosks, TypeOK, StartClaims(j), ClaimRow(j, k),
           runs' = runs \/ runs' = [runs EXCEPT ![j] = @ + 1]
    PROVE  Grants!Take(j, k)
BY DEF StartClaims, ClaimRow, TypeOK, Row, Status, Grants!Take, Grants!Move, HolderOf

\* A report settles the job it holds.
LEMMA ReportSettles ==
    ASSUME NEW r \in reports, IInv, runs' = runs,
           NEW s \in {"done", "failed"}, job' = [job EXCEPT ![r.job].status = s]
    PROVE  Grants!Settle(r.job)
<1>1. r.job \in Jobs /\ job[r.job].status = "printing" /\ job \in [Jobs -> Row]
  BY DEF IInv, TypeOK, Report, ReportHolds
<1>2. QED
  BY <1>1 DEF Row, Status, Grants!Settle, Grants!Move, HolderOf

\* Every step moves a job as PrintGrants allows, or moves none.
LEMMA GrantsStep ==
    ASSUME IInv, [Next]_vars
    PROVE  Grants!Next \/ UNCHANGED Grants!gvars
<1>0. TypeOK
  BY DEF IInv
<1>1. CASE UNCHANGED <<job, runs>>
  BY <1>0, <1>1, Invisible
<1>2. ASSUME NEW j \in Jobs, Release(j) PROVE Grants!Next
  BY <1>0, <1>2, GrantGives DEF Release, OperatorRelease, KioskRelease, Grants!Next
<1>3. ASSUME NEW k \in Kiosks, NEW j \in Jobs, AgentClaim(k, j) \/ StrayClaim(k, j)
      PROVE  Grants!Next \/ UNCHANGED <<job, runs>>
  BY <1>0, <1>3, ClaimTakes DEF AgentClaim, StrayClaim, Grants!Next
<1>4. ASSUME NEW r \in reports, FailedReport(r) PROVE Grants!Next \/ UNCHANGED <<job, runs>>
  BY <1>4, ReportSettles DEF FailedReport, Grants!Next, IInv, TypeOK, Report
<1>5. ASSUME NEW r \in reports, CompleteRecord(r) PROVE UNCHANGED Grants!gvars
  <2>1. r.row = job[r.job] /\ job \in [Jobs -> Row] /\ r.job \in Jobs
    BY <1>5 DEF CompleteRecord, IInv, TypeOK, Report, ReportHolds
  <2>2. \A j \in Jobs : job'[j].status = job[j].status /\ job'[j].kioskId = job[j].kioskId
    BY <1>5, <2>1 DEF CompleteRecord, Row
  <2>3. runs' = runs
    BY <1>5 DEF CompleteRecord
  <2>4. QED
    BY <1>0, <2>2, <2>3, Invisible
<1>6. ASSUME NEW r \in reports, CompleteDone(r) PROVE Grants!Next
  <2>1. r.row = job[r.job] /\ r.job \in Jobs
    BY <1>6 DEF CompleteDone, IInv, TypeOK, Report, ReportHolds
  <2>2. job' = [job EXCEPT ![r.job].status = "done"] /\ runs' = runs
    BY <1>6, <2>1, <1>0 DEF CompleteDone, TypeOK, Row
  <2>3. QED
    BY <2>1, <2>2, ReportSettles DEF Grants!Next
<1>7. ASSUME NEW q \in requeues, RequeueSave(q) PROVE Grants!Next
  <2>1. /\ q.job \in Jobs /\ q.row \in Row /\ job \in [Jobs -> Row]
        /\ job[q.job].status = "failed"
        /\ q.row = job[q.job]
    BY DEF IInv, TypeOK, Requeue, RequeueHolds
  <2>2. job' = [job EXCEPT ![q.job].status = "ready"] /\ runs' = runs
    BY <1>7, <2>1 DEF RequeueSave, Row
  <2>3. Grants!Retry(q.job)
    BY <2>1, <2>2 DEF Row, Status, Grants!Retry, Grants!Move, HolderOf
  <2>4. QED
    BY <2>1, <2>3 DEF Grants!Next
<1>8. CASE Next
  <2>1. CASE \E j \in Jobs : Release(j)
    BY <2>1, <1>2
  <2>2. CASE \E k \in Kiosks : AgentStep(k)
    BY <2>2, <1>1, <1>3 DEF AgentStep, AgentPoll, AgentConflict, AgentPrintItem, AgentItemFails,
       AgentReport
  <2>3. CASE HandleReport
    BY <2>3, <1>1, <1>4, <1>5, <1>6 DEF HandleReport, CompleteRead, CompleteLoad
  <2>4. CASE HandleStray
    BY <2>4, <1>1, <1>3 DEF HandleStray
  <2>5. CASE HandleRequeue
    BY <2>5, <1>1, <1>7 DEF HandleRequeue, RequeueRead
  <2>6. CASE Fault
    BY <2>6, <1>1 DEF Fault, AgentClaimTimeout, AgentCrash, ReportLost
  <2>7. QED
    BY <1>8, <2>1, <2>2, <2>3, <2>4, <2>5, <2>6 DEF Next
<1>9. QED
  BY <1>1, <1>8 DEF vars

\* The release, with its agents, reports, faults and stale saves, implements
\* PrintGrants: printed only under a grant, by one kiosk, until it is settled.
THEOREM Refinement == ASSUME OneConsoleAtATime PROVE Spec => GrantsKept
<1>1. IInv /\ [Next]_vars => [Grants!Next]_(Grants!gvars)
  BY GrantsStep
<1>2. QED
  BY GrantsInit, Invariance, <1>1, PTL DEF Spec, GrantsKept, Grants!Spec

\* A delivered job never leaves DONE, although requeue and completePrintJob save
\* entities they read before.
THEOREM DoneIsFinalHolds == ASSUME OneConsoleAtATime PROVE Spec => DoneIsFinal
<1>1. ASSUME IInv, [Next]_vars, NEW j \in Jobs, job[j].status = "done"
      PROVE  job'[j].status = "done"
  <2>1. Phases[j] = "done" => Phases'[j] = "done"
    BY <1>1, GrantsStep DEF Phases, Grants!Next, Grants!Give, Grants!Take, Grants!Settle,
       Grants!Retry, Grants!Move, Grants!gvars
  <2>2. QED
    BY <1>1, <2>1 DEF Phases
<1>2. IInv /\ [Next]_vars =>
         [\A j \in Jobs : job[j].status = "done" => job'[j].status = "done"]_vars
  BY <1>1
<1>3. QED
  BY Invariance, <1>2, PTL DEF Spec, DoneIsFinal
===============================================================================
