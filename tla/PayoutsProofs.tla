---------------------------- MODULE PayoutsProofs ----------------------------
(***************************************************************************)
(* Proofs about Payouts, for any number of overlapping payers, webhooks    *)
(* repeated any number of times, and any fee and minimum: what the rows    *)
(* say of the bank, what the rollup says of the earnings, and that one     *)
(* payer at a time implements PayoutLedger, which never sends more than    *)
(* was earned.                                                             *)
(***************************************************************************)
EXTENDS Payouts, FiniteSetTheorems, WellFoundedInduction, TLAPS

(***************************************************************************)
(* The inductive invariant of the rows                                     *)
(***************************************************************************)

IsRecord(r, fields) == DOMAIN r = fields /\ r = [f \in fields |-> r[f]]

IsRow(r) == IsRecord(r, {"status", "amount", "ref"}) /\ r.ref \in BOOLEAN

IsPayer(c) == IsRecord(c, {"pc", "amount", "id", "entity"}) /\ IsRow(c.entity)

IsHook(h) ==
    /\ IsRecord(h, {"type", "id", "copy", "stage", "entity"})
    /\ h.type \in {"success", "failed"} /\ h.id \in Ids /\ h.stage \in {"sent", "found"}
    /\ IsRow(h.entity)

Shape ==
    /\ payouts = [i \in Ids |-> payouts[i]] /\ \A i \in Ids : IsRow(payouts[i])
    /\ bank = [i \in Ids |-> bank[i]]
    /\ payer = [p \in Payers |-> payer[p]] /\ \A p \in Payers : IsPayer(payer[p])
    /\ \A h \in hooks : IsHook(h)

\* A status says what the bank did, unless an answer of the bank was lost.
Truthful(status, i) ==
    "timeout" \notin Errors =>
        /\ status = "paid" => bank[i] \in {"sent", "returned"}
        /\ status = "failed" => bank[i] \in {"none", "returned"}

RowOK(i) ==
    /\ payouts[i].status = "none" => bank[i] = "none"
    /\ Truthful(payouts[i].status, i)

Asking(p) == payer[p].pc \in {"created", "accepted", "refused"}
Told(p) == payer[p].pc \in {"rollup", "backfill"}
Busy(p) == Asking(p) \/ Told(p)

\* A call's row is as the call wrote it until it has the bank's answer; then the entity it
\* goes on to save has a reference and says what the bank did.
Owns(p) ==
    /\ Busy(p) => payer[p].id \in Ids /\ payouts[payer[p].id].status # "none"
    /\ Asking(p) =>
          /\ payouts[payer[p].id].status = "pending"
          /\ ~payouts[payer[p].id].ref /\ ~payer[p].entity.ref
          /\ payer[p].pc = "created" => bank[payer[p].id] = "none"
          /\ payer[p].pc = "accepted" => bank[payer[p].id] # "none"
          /\ payer[p].pc = "refused" => bank[payer[p].id] = "none" \/ "timeout" \in Errors
    /\ Told(p) =>
          /\ payer[p].entity.status # "none"
          /\ payer[p].entity.ref \/ (payer[p].entity.status = "failed" /\ payer[p].pc = "rollup")
          /\ payer[p].entity.ref => bank[payer[p].id] # "none"
          /\ Truthful(payer[p].entity.status, payer[p].id)

\* No two calls have one row.
OneEach == \A p, q \in Payers : Busy(p) /\ Busy(q) /\ payer[p].id = payer[q].id => p = q

\* A webhook is about a transfer that was made; one whose handler has found the row found
\* it by its reference, and will save an entity that says what the bank did.
HookOK(h) ==
    /\ bank[h.id] # "none"
    /\ "timeout" \notin Errors =>
          /\ h.type = "success" => bank[h.id] \in {"sent", "returned"}
          /\ h.type = "failed" => bank[h.id] = "returned"
    /\ h.stage = "found" =>
          /\ payouts[h.id].ref /\ h.entity.ref /\ h.entity.status # "none"
          /\ Truthful(h.entity.status, h.id)

IInv ==
    /\ Shape
    /\ \A i \in Ids : RowOK(i)
    /\ \A p \in Payers : Owns(p)
    /\ OneEach
    /\ \A h \in hooks : HookOK(h)

LEMMA InitIInv == Init => IInv
<1> SUFFICES ASSUME Init PROVE IInv
  OBVIOUS
<1>1. IsRow(NoPayout) /\ IsPayer(IdlePayer)
  BY DEF IsRow, NoPayout, IsPayer, IdlePayer, IsRecord
<1>2. Shape
  BY <1>1 DEF Init, Shape
<1>3. \A p \in Payers : ~Busy(p) /\ ~Asking(p) /\ ~Told(p)
  BY DEF Init, IdlePayer, Busy, Asking, Told
<1>4. \A i \in Ids : payouts[i].status = "none" /\ bank[i] = "none"
  BY DEF Init, NoPayout
<1> QED
  BY <1>2, <1>3, <1>4 DEF Init, IInv, RowOK, Owns, OneEach, Truthful

\* Steps of the rollup alone.
LEMMA Apart ==
    ASSUME IInv, UNCHANGED <<payouts, bank, payer, hooks>>
    PROVE  IInv'
BY DEF IInv, Shape, RowOK, Owns, OneEach, HookOK, Truthful, Asking, Told, Busy

(***************************************************************************)
(* The payers                                                              *)
(***************************************************************************)

\* A call goes to a state in which it has no row.
LEMMA PayerRests ==
    ASSUME IInv, NEW p \in Payers, NEW to, IsPayer(to), to.pc \in {"idle", "read"},
           payer' = [payer EXCEPT ![p] = to], UNCHANGED <<payouts, bank, hooks>>
    PROVE  IInv'
<1>1. payer'[p] = to /\ \A q \in Payers \ {p} : payer'[q] = payer[q]
  BY DEF IInv, Shape
<1>2. ~Busy(p)' /\ ~Asking(p)' /\ ~Told(p)'
  BY <1>1 DEF Busy, Asking, Told
<1>3. \A q \in Payers \ {p} :
          (Busy(q)' <=> Busy(q)) /\ (Asking(q)' <=> Asking(q)) /\ (Told(q)' <=> Told(q))
  BY <1>1 DEF Busy, Asking, Told
<1>4. Shape'
  BY <1>1 DEF IInv, Shape
<1>5. \A q \in Payers : Owns(q)'
  BY <1>1, <1>2, <1>3 DEF IInv, Owns, Truthful
<1>6. OneEach'
  BY <1>1, <1>2, <1>3 DEF IInv, OneEach
<1>7. (\A i \in Ids : RowOK(i)') /\ \A h \in hooks : HookOK(h)'
  BY DEF IInv, RowOK, HookOK, Truthful
<1> QED
  BY <1>4, <1>5, <1>6, <1>7 DEF IInv

\* A call goes on with row i, which no other call has: what is left to see is about that
\* call, that row and the webhooks that will save it.
LEMMA PayerMoves ==
    ASSUME IInv, NEW p \in Payers, NEW i \in Ids, NEW to, NEW row, NEW money,
           IsPayer(to), IsRow(row), to.id = i \/ to.pc = "idle",
           payer' = [payer EXCEPT ![p] = to],
           payouts' = [payouts EXCEPT ![i] = row],
           bank' = [bank EXCEPT ![i] = money],
           UNCHANGED hooks,
           \A q \in Payers \ {p} : Busy(q) => payer[q].id # i,
           RowOK(i)', Owns(p)', \A h \in hooks : h.id = i => HookOK(h)'
    PROVE  IInv'
<1>1. /\ payer'[p] = to /\ \A q \in Payers \ {p} : payer'[q] = payer[q]
      /\ payouts'[i] = row /\ \A j \in Ids \ {i} : payouts'[j] = payouts[j]
      /\ bank'[i] = money /\ \A j \in Ids \ {i} : bank'[j] = bank[j]
  BY DEF IInv, Shape
<1>2. \A q \in Payers \ {p} :
          (Busy(q)' <=> Busy(q)) /\ (Asking(q)' <=> Asking(q)) /\ (Told(q)' <=> Told(q))
  BY <1>1 DEF Busy, Asking, Told
<1>3. Shape'
  BY <1>1 DEF IInv, Shape
<1>4. \A q \in Payers \ {p} : Owns(q)'
  <2> SUFFICES ASSUME NEW q \in Payers \ {p} PROVE Owns(q)'
    OBVIOUS
  <2>1. CASE ~Busy(q)
    BY <2>1, <1>2 DEF Owns, Busy
  <2>2. CASE Busy(q)
    <3>1. payer[q].id \in Ids \ {i}
      BY <2>2 DEF IInv, Owns
    <3> QED
      BY <3>1, <1>1, <1>2 DEF IInv, Owns, Truthful
  <2> QED
    BY <2>1, <2>2
<1>5. OneEach'
  <2>1. Busy(p)' => payer'[p].id = i
    BY <1>1 DEF Busy, Asking, Told
  <2> SUFFICES ASSUME NEW q \in Payers, NEW r \in Payers,
                      Busy(q)', Busy(r)', payer'[q].id = payer'[r].id
               PROVE  q = r
    BY DEF OneEach
  <2> QED
    BY <2>1, <1>1, <1>2 DEF IInv, OneEach
<1>6. \A j \in Ids \ {i} : RowOK(j)'
  BY <1>1 DEF IInv, RowOK, Truthful
<1>7. \A h \in hooks : HookOK(h)'
  <2> SUFFICES ASSUME NEW h \in hooks, h.id # i PROVE HookOK(h)'
    OBVIOUS
  <2>1. h.id \in Ids \ {i}
    BY DEF IInv, Shape, IsHook
  <2> QED
    BY <2>1, <1>1 DEF IInv, HookOK, Truthful
<1> QED
  BY <1>3, <1>4, <1>5, <1>6, <1>7 DEF IInv

LEMMA PayerReadsStep == ASSUME IInv, NEW p \in Payers, PayerReads(p) PROVE IInv'
<1> DEFINE to == [payer[p] EXCEPT !.pc = "read", !.amount = Available - FeeOf(p)]
<1>1. IsPayer(payer[p])
  BY DEF IInv, Shape
<1>2. IsPayer(to) /\ to.pc = "read"
  BY <1>1 DEF IsPayer, IsRecord
<1>3. payer' = [payer EXCEPT ![p] = to] /\ UNCHANGED <<payouts, bank, hooks>>
  BY DEF PayerReads
<1> QED
  BY <1>2, <1>3, PayerRests

LEMMA PayerCreatesStep == ASSUME IInv, NEW p \in Payers, PayerCreates(p) PROVE IInv'
<1> DEFINE new == [status |-> "pending", amount |-> payer[p].amount, ref |-> FALSE]
<1>1. PICK i \in Ids :
        /\ payouts[i].status = "none"
        /\ payouts' = [payouts EXCEPT ![i] = new]
        /\ payer' = [payer EXCEPT ![p] = [@ EXCEPT !.pc = "created", !.id = i, !.entity = new]]
  BY DEF PayerCreates
<1> DEFINE to == [payer[p] EXCEPT !.pc = "created", !.id = i, !.entity = new]
<1>2. UNCHANGED <<bank, hooks>>
  BY DEF PayerCreates
<1>3. IsRow(new) /\ new.status = "pending" /\ new.ref = FALSE
  BY DEF IsRow, IsRecord
<1>4. payer' = [payer EXCEPT ![p] = to]
  BY <1>1
<1>5. IsPayer(payer[p])
  BY DEF IInv, Shape
<1>6. IsPayer(to) /\ to.pc = "created" /\ to.id = i /\ to.entity = new
  BY <1>3, <1>5 DEF IsPayer, IsRecord
<1>7. payer'[p] = to /\ payouts'[i] = new /\ bank' = [bank EXCEPT ![i] = bank[i]]
  BY <1>1, <1>2, <1>4 DEF IInv, Shape
<1> HIDE DEF to, new
<1>8. bank[i] = "none" /\ \A q \in Payers \ {p} : Busy(q) => payer[q].id # i
  BY <1>1 DEF IInv, RowOK, Owns
<1>9. RowOK(i)' /\ Owns(p)'
  BY <1>2, <1>3, <1>6, <1>7, <1>8 DEF RowOK, Truthful, Owns, Asking, Told, Busy
<1>10. \A h \in hooks : h.id # i
  BY <1>8 DEF IInv, HookOK
<1>11. UNCHANGED hooks /\ \A h \in hooks : h.id = i => HookOK(h)'
  BY <1>2, <1>10
<1> QED
  BY <1>1, <1>3, <1>4, <1>6, <1>7, <1>8, <1>9, <1>11, PayerMoves

\* The state a call that has a row is in.
LEMMA AtWork ==
    ASSUME IInv, NEW p \in Payers, Busy(p)
    PROVE  /\ IsPayer(payer[p]) /\ IsRow(payer[p].entity)
           /\ payer[p].id \in Ids /\ IsRow(payouts[payer[p].id])
           /\ Owns(p) /\ RowOK(payer[p].id)
           /\ \A q \in Payers \ {p} : Busy(q) => payer[q].id # payer[p].id
BY DEF IInv, Shape, Owns, OneEach, IsPayer

LEMMA TransferStep ==
    ASSUME IInv, NEW p \in Payers, TransferAccepted(p) \/ TransferFails(p)
    PROVE  IInv'
<1>1. payer[p].pc = "created" /\ UNCHANGED <<payouts, hooks>>
  BY DEF TransferAccepted, TransferFails
<1>2. Busy(p) /\ Asking(p)
  BY <1>1 DEF Busy, Asking
<1>3. PICK i \in Ids :
      /\ i = payer[p].id /\ IsPayer(payer[p]) /\ IsRow(payouts[i])
      /\ \A q \in Payers \ {p} : Busy(q) => payer[q].id # i
      /\ payouts[i].status = "pending" /\ ~payouts[i].ref /\ bank[i] = "none"
      /\ ~payer[p].entity.ref
  BY <1>1, <1>2, AtWork DEF Owns
<1>4. PICK end \in {"accepted", "refused"}, money \in {"none", "accepted"} :
          /\ payer' = [payer EXCEPT ![p].pc = end]
          /\ bank' = [bank EXCEPT ![i] = money]
          /\ end = "accepted" => money = "accepted"
          /\ end = "refused" => money = "none" \/ "timeout" \in Errors
  <2>1. CASE TransferAccepted(p)
    BY <2>1, <1>3 DEF TransferAccepted
  <2>2. CASE TransferFails(p) /\ UNCHANGED bank
    <3>1. bank' = [bank EXCEPT ![i] = "none"]
      BY <2>2, <1>3 DEF IInv, Shape
    <3> QED
      BY <2>2, <3>1 DEF TransferFails
  <2>3. CASE TransferFails(p) /\ "timeout" \in Errors /\ bank' = [bank EXCEPT ![i] = "accepted"]
    BY <2>3, <1>3 DEF TransferFails
  <2> QED
    BY <2>1, <2>2, <2>3, <1>3 DEF TransferFails
<1> DEFINE to == [payer[p] EXCEPT !.pc = end]
<1>5. payer' = [payer EXCEPT ![p] = to]
  BY <1>4
<1>6. IsPayer(to) /\ to.pc = end /\ to.id = i /\ ~to.entity.ref
  BY <1>3 DEF IsPayer, IsRecord
<1> HIDE DEF to
<1>7. /\ payer'[p] = to /\ bank'[i] = money /\ payouts'[i] = payouts[i]
      /\ payouts' = [payouts EXCEPT ![i] = payouts[i]]
  BY <1>1, <1>3, <1>4, <1>5 DEF IInv, Shape
<1>8. RowOK(i)' /\ Owns(p)'
  BY <1>3, <1>4, <1>6, <1>7 DEF RowOK, Truthful, Owns, Asking, Told, Busy
<1>9. \A h \in hooks : h.id # i
  BY <1>3 DEF IInv, HookOK
<1> QED
  BY <1>1, <1>3, <1>4, <1>5, <1>6, <1>7, <1>8, <1>9, PayerMoves

LEMMA PayerSavesStep == ASSUME IInv, NEW p \in Payers, PayerSaves(p) PROVE IInv'
<1>1. payer[p].pc \in {"accepted", "refused"} /\ UNCHANGED <<bank, hooks>>
  BY DEF PayerSaves
<1>2. Busy(p) /\ Asking(p)
  BY <1>1 DEF Busy, Asking
<1>3. PICK i \in Ids :
      /\ i = payer[p].id /\ IsPayer(payer[p]) /\ IsRow(payer[p].entity)
      /\ \A q \in Payers \ {p} : Busy(q) => payer[q].id # i
      /\ ~payouts[i].ref /\ ~payer[p].entity.ref
      /\ payer[p].pc = "accepted" => bank[i] # "none"
      /\ payer[p].pc = "refused" => bank[i] = "none" \/ "timeout" \in Errors
  BY <1>1, <1>2, AtWork DEF Owns
<1>4. PICK e \in Outcomes(p) :
          /\ payouts' = [payouts EXCEPT ![i] = e]
          /\ payer' = [payer EXCEPT ![p].pc = "rollup", ![p].entity = e]
  BY <1>3 DEF PayerSaves
<1>5. /\ IsRow(e) /\ e.status \in {"processing", "paid", "failed"}
      /\ e.ref \/ e.status = "failed"
      /\ payer[p].pc = "refused" => e.status = "failed" /\ ~e.ref
      /\ payer[p].pc = "accepted" => e.ref /\ e.status # "failed"
      /\ e.status = "paid" => bank[i] = "sent"
  <2>1. CASE payer[p].pc = "accepted"
    <3>1. PICK s \in {"processing", "paid"} :
              e = [payer[p].entity EXCEPT !.ref = TRUE,
              !.status = s] /\ (s = "paid" => bank[i] = "sent")
      BY <2>1, <1>3, <1>4 DEF Outcomes
    <3> QED
      BY <2>1, <3>1, <1>3 DEF IsRow, IsRecord
  <2>2. CASE payer[p].pc = "refused"
    <3>1. e = [payer[p].entity EXCEPT !.status = "failed"]
      BY <2>2, <1>3, <1>4 DEF Outcomes
    <3> QED
      BY <2>2, <3>1, <1>3 DEF IsRow, IsRecord
  <2> QED
    BY <2>1, <2>2, <1>1
<1> DEFINE to == [payer[p] EXCEPT !.pc = "rollup", !.entity = e]
<1>6. payer' = [payer EXCEPT ![p] = to]
  BY <1>4, <1>3 DEF IInv, Shape
<1>7. IsPayer(to) /\ to.pc = "rollup" /\ to.id = i /\ to.entity = e
  BY <1>3, <1>5 DEF IsPayer, IsRecord
<1> HIDE DEF to
<1>8. /\ payer'[p] = to /\ payouts'[i] = e /\ bank' = [bank EXCEPT ![i] = bank[i]]
  BY <1>1, <1>3, <1>4, <1>6 DEF IInv, Shape
<1>9. /\ e.ref => bank[i] # "none"
      /\ "timeout" \notin Errors => (e.status = "failed" => bank[i] = "none")
  BY <1>1, <1>3, <1>5
<1>10. RowOK(i)' /\ Owns(p)'
  BY <1>1, <1>3, <1>5, <1>7, <1>8, <1>9 DEF RowOK, Truthful, Owns, Asking, Told, Busy
<1>11. \A h \in hooks : h.id = i => HookOK(h)'
  BY <1>1, <1>3 DEF IInv, HookOK
<1> QED
  BY <1>1, <1>3, <1>4, <1>5, <1>6, <1>7, <1>8, <1>10, <1>11, PayerMoves

LEMMA PayerReturnsStep == ASSUME IInv, NEW p \in Payers, PayerReturns(p) PROVE IInv'
<1>1. payer[p].pc = "rollup" /\ UNCHANGED <<payouts, bank, hooks>>
  BY DEF PayerReturns
<1>2. Busy(p) /\ Told(p) /\ ~Asking(p)
  BY <1>1 DEF Busy, Told, Asking
<1>3. CASE p \in Instant /\ payer[p].entity.status # "failed"
  <2> DEFINE to == [payer[p] EXCEPT !.pc = "backfill"]
  <2>1. payer' = [payer EXCEPT ![p] = to]
    BY <1>3 DEF PayerReturns
  <2>2. PICK i \in Ids :
        /\ i = payer[p].id /\ IsPayer(payer[p]) /\ IsRow(payouts[i])
        /\ \A q \in Payers \ {p} : Busy(q) => payer[q].id # i
        /\ Owns(p) /\ RowOK(i)
    BY <1>2, AtWork
  <2>3. IsPayer(to) /\ to.pc = "backfill" /\ to.id = i /\ to.entity = payer[p].entity
    BY <2>2 DEF IsPayer, IsRecord
  <2> HIDE DEF to
  <2>4. /\ payer'[p] = to
        /\ payouts' = [payouts EXCEPT ![i] = payouts[i]] /\ bank' = [bank EXCEPT ![i] = bank[i]]
    BY <1>1, <2>1 DEF IInv, Shape
  <2>5. RowOK(i)' /\ \A h \in hooks : h.id = i => HookOK(h)'
    BY <1>1, <2>2 DEF IInv, RowOK, HookOK, Truthful
  <2>6. Owns(p)'
    BY <1>1, <1>2, <1>3, <2>2, <2>3, <2>4 DEF Owns, Asking, Told, Busy, Truthful
  <2> QED
    BY <1>1, <2>1, <2>2, <2>3, <2>4, <2>5, <2>6, PayerMoves
<1>4. CASE ~(p \in Instant /\ payer[p].entity.status # "failed")
  <2>1. payer' = [payer EXCEPT ![p] = IdlePayer]
    BY <1>4 DEF PayerReturns
  <2>2. IsPayer(IdlePayer) /\ IdlePayer.pc = "idle"
    BY DEF IsPayer, IsRow, IsRecord, IdlePayer, NoPayout
  <2> QED
    BY <1>1, <2>1, <2>2, PayerRests
<1> QED
  BY <1>3, <1>4

LEMMA PayerBackfillsStep == ASSUME IInv, NEW p \in Payers, PayerBackfills(p) PROVE IInv'
<1>1. /\ payer[p].pc = "backfill" /\ UNCHANGED <<bank, hooks>>
      /\ payer' = [payer EXCEPT ![p] = IdlePayer]
  BY DEF PayerBackfills
<1>2. Busy(p) /\ Told(p)
  BY <1>1 DEF Busy, Told
<1>3. PICK i \in Ids :
      /\ i = payer[p].id /\ IsRow(payer[p].entity)
      /\ \A q \in Payers \ {p} : Busy(q) => payer[q].id # i
      /\ Owns(p)
  BY <1>2, AtWork
<1> DEFINE row == payer[p].entity
<1>4. payouts' = [payouts EXCEPT ![i] = row]
  BY <1>3 DEF PayerBackfills
<1>5. IsPayer(IdlePayer) /\ IdlePayer.pc = "idle"
  BY DEF IsPayer, IsRow, IsRecord, IdlePayer, NoPayout
<1>6. row.ref /\ row.status # "none" /\ Truthful(row.status, i)
  BY <1>1, <1>2, <1>3 DEF Owns
<1>7. /\ payer'[p] = IdlePayer /\ payouts'[i] = row
      /\ bank' = [bank EXCEPT ![i] = bank[i]] /\ bank'[i] = bank[i]
  BY <1>1, <1>4 DEF IInv, Shape
<1>8. RowOK(i)'
  BY <1>6, <1>7 DEF RowOK, Truthful
<1>9. Owns(p)'
  BY <1>5, <1>7 DEF Owns, Asking, Told, Busy
<1>10. \A h \in hooks : h.id = i => HookOK(h)'
  BY <1>1, <1>6, <1>7 DEF IInv, HookOK, Truthful
<1>11. IsRow(row)
  BY <1>3
<1> HIDE DEF row
<1> QED
  BY <1>1, <1>3, <1>4, <1>5, <1>7, <1>8, <1>9, <1>10, <1>11, PayerMoves

(***************************************************************************)
(* The bank and its webhooks                                               *)
(***************************************************************************)

LEMMA HooksMove ==
    ASSUME IInv, UNCHANGED <<payouts, bank, payer>>,
           \A g \in hooks' : g \in hooks \/ (IsHook(g) /\ HookOK(g))
    PROVE  IInv'
<1>1. Shape'
  BY DEF IInv, Shape
<1>2. (\A i \in Ids : RowOK(i)') /\ (\A p \in Payers : Owns(p)') /\ OneEach'
  BY DEF IInv, RowOK, Owns, OneEach, Truthful, Asking, Told, Busy
<1>3. \A h \in hooks' : HookOK(h)'
  BY DEF IInv, HookOK, Truthful
<1> QED
  BY <1>1, <1>2, <1>3 DEF IInv

\* The bank settles a transfer that it accepted, and sends a webhook about it.
LEMMA BankMoves ==
    ASSUME IInv, NEW i \in Ids, NEW money, NEW h0, UNCHANGED <<payouts, payer>>,
           bank' = [bank EXCEPT ![i] = money], hooks' = hooks \cup {h0},
           bank[i] \in {"accepted", "sent"},
           \/ bank[i] = "accepted" /\ money = "sent" /\ h0.type = "success"
           \/ money = "returned" /\ h0.type = "failed",
           IsHook(h0), h0.id = i, h0.stage = "sent"
    PROVE  IInv'
<1>1. bank'[i] = money /\ \A j \in Ids \ {i} : bank'[j] = bank[j]
  BY DEF IInv, Shape
<1>2. \A p \in Payers :
          (Busy(p)' <=> Busy(p)) /\ (Asking(p)' <=> Asking(p)) /\ (Told(p)' <=> Told(p))
  BY DEF Busy, Asking, Told
<1>3. \A status : \A j \in Ids : Truthful(status, j) => Truthful(status, j)'
  BY <1>1 DEF Truthful
<1>4. Shape'
  BY DEF IInv, Shape
<1>5. \A j \in Ids : RowOK(j)'
  BY <1>1, <1>3 DEF IInv, RowOK
<1>6. \A p \in Payers : Owns(p)'
  <2> SUFFICES ASSUME NEW p \in Payers PROVE Owns(p)'
    OBVIOUS
  <2>1. CASE ~Busy(p)
    BY <2>1, <1>2 DEF Owns, Busy
  <2>2. CASE Busy(p)
    <3>1. payer[p].id \in Ids
      BY <2>2 DEF IInv, Owns
    <3>2. Told(p) => Truthful(payer[p].entity.status, payer[p].id)'
      BY <3>1, <1>3 DEF IInv, Owns
    <3>3. Owns(p)
      BY DEF IInv
    <3> QED
      BY <3>1, <3>2, <3>3, <1>1, <1>2 DEF Owns
  <2> QED
    BY <2>1, <2>2
<1>7. OneEach'
  BY <1>2 DEF IInv, OneEach
<1>8. \A h \in hooks' : HookOK(h)'
  <2> SUFFICES ASSUME NEW h \in hooks' PROVE HookOK(h)'
    OBVIOUS
  <2>1. CASE h = h0
    BY <2>1, <1>1 DEF HookOK
  <2>2. CASE h \in hooks
    <3>1. h.id \in Ids /\ HookOK(h)
      BY <2>2 DEF IInv, Shape, IsHook
    <3>2. Truthful(h.entity.status, h.id) => Truthful(h.entity.status, h.id)'
      BY <3>1, <1>3
    <3> QED
      BY <3>1, <3>2, <1>1 DEF HookOK
  <2> QED
    BY <2>1, <2>2
<1> QED
  BY <1>4, <1>5, <1>6, <1>7, <1>8 DEF IInv

LEMMA BankStep == ASSUME IInv, NEW i \in Ids, BankSends(i) \/ BankReturns(i) PROVE IInv'
<1>1. \A type \in {"success", "failed"} :
          /\ IsHook(Hook0(type, i)) /\ Hook0(type, i).id = i
          /\ Hook0(type, i).stage = "sent" /\ Hook0(type, i).type = type
  BY DEF IsHook, IsRow, IsRecord, Hook0, NoPayout
<1>2. CASE BankSends(i)
  BY <1>1, <1>2, BankMoves DEF BankSends
<1>3. CASE BankReturns(i)
  BY <1>1, <1>3, BankMoves DEF BankReturns
<1> QED
  BY <1>2, <1>3

LEMMA HookRepeatedStep == ASSUME IInv, NEW h \in hooks, HookRepeated(h) PROVE IInv'
<1> DEFINE again == [Hook0(h.type, h.id) EXCEPT !.copy = repeats + 1]
<1>1. IsHook(h) /\ HookOK(h)
  BY DEF IInv, Shape
<1>2. IsHook(again) /\ again.id = h.id /\ again.type = h.type /\ again.stage = "sent"
  BY <1>1 DEF IsHook, IsRow, IsRecord, Hook0, NoPayout
<1>3. hooks' = hooks \cup {again} /\ UNCHANGED <<payouts, bank, payer>>
  BY DEF HookRepeated
<1> HIDE DEF again
<1>4. HookOK(again)
  BY <1>1, <1>2 DEF HookOK
<1> QED
  BY <1>2, <1>3, <1>4, HooksMove

LEMMA HookFindsStep == ASSUME IInv, NEW h \in hooks, HookFinds(h) PROVE IInv'
<1> DEFINE found == [h EXCEPT !.stage = "found", !.entity = payouts[h.id]]
<1>1. IsHook(h) /\ HookOK(h) /\ h.id \in Ids /\ IsRow(payouts[h.id]) /\ RowOK(h.id)
  BY DEF IInv, Shape, IsHook
<1>2. /\ IsHook(found) /\ found.id = h.id /\ found.type = h.type
      /\ found.entity = payouts[h.id]
  BY <1>1 DEF IsHook, IsRecord
<1>3. /\ hooks' = (hooks \ {h}) \cup (IF FoundBy(h) THEN {found} ELSE {})
      /\ UNCHANGED <<payouts, bank, payer>>
  BY DEF HookFinds
<1> HIDE DEF found
<1>4. FoundBy(h) => HookOK(found)
  BY <1>1, <1>2 DEF HookOK, FoundBy, RowOK
<1> QED
  BY <1>2, <1>3, <1>4, HooksMove

LEMMA HookSavesStep == ASSUME IInv, NEW h \in hooks, HookSaves(h) PROVE IInv'
<1>1. /\ h.stage = "found" /\ hooks' = hooks \ {h}
      /\ UNCHANGED <<bank, payer>>
  BY DEF HookSaves
<1>2. CASE h.entity.status = HookStatus(h)
  BY <1>1, <1>2, HooksMove DEF HookSaves
<1>3. CASE h.entity.status # HookStatus(h)
  <2> DEFINE row == [h.entity EXCEPT !.status = HookStatus(h)]
  <2>1. PICK i \in Ids :
        /\ i = h.id /\ IsHook(h) /\ HookOK(h)
        /\ payouts[i].ref /\ h.entity.ref
    BY <1>1 DEF IInv, Shape, IsHook, HookOK
  <2>2. payouts' = [payouts EXCEPT ![i] = row]
    BY <1>3, <2>1 DEF HookSaves
  <2>3. IsRow(row) /\ row.ref /\ row.status = HookStatus(h)
    BY <2>1 DEF IsHook, IsRow, IsRecord
  <2> HIDE DEF row
  <2>4. payouts'[i] = row /\ \A j \in Ids \ {i} : payouts'[j] = payouts[j]
    BY <2>2 DEF IInv, Shape
  <2>5. Shape'
    BY <1>1, <2>2, <2>3, <2>4 DEF IInv, Shape
  <2>6. HookStatus(h) # "none" /\ Truthful(HookStatus(h), i)
    BY <2>1 DEF HookStatus, HookOK, IsHook, Truthful
  <2>7. \A j \in Ids : RowOK(j)'
    BY <1>1, <2>3, <2>4, <2>6 DEF IInv, RowOK, Truthful
  <2>8. \A p \in Payers :
            (Busy(p)' <=> Busy(p)) /\ (Asking(p)' <=> Asking(p)) /\ (Told(p)' <=> Told(p))
    BY <1>1 DEF Busy, Asking, Told
  <2>9. \A p \in Payers : Owns(p)'
    <3> SUFFICES ASSUME NEW p \in Payers PROVE Owns(p)'
      OBVIOUS
    <3>1. Owns(p)
      BY DEF IInv
    <3>2. CASE ~Busy(p)
      BY <3>2, <2>8 DEF Owns, Busy
    <3>3. CASE Busy(p) /\ payer[p].id = i
      <4>1. ~Asking(p) /\ Told(p)
        BY <3>1, <3>3, <2>1 DEF Owns, Busy
      <4> QED
        BY <4>1, <3>1, <3>3, <1>1, <2>3, <2>4, <2>6, <2>8 DEF Owns, Truthful
    <3>4. CASE Busy(p) /\ payer[p].id # i
      BY <3>1, <3>4, <1>1, <2>4, <2>8 DEF Owns, Truthful
    <3> QED
      BY <3>2, <3>3, <3>4
  <2>10. OneEach'
    BY <1>1, <2>8 DEF IInv, OneEach
  <2>11. \A g \in hooks' : HookOK(g)'
    <3> SUFFICES ASSUME NEW g \in hooks PROVE HookOK(g)'
      BY <1>1
    <3>1. HookOK(g) /\ g.id \in Ids
      BY DEF IInv, Shape, IsHook
    <3> QED
      BY <3>1, <1>1, <2>3, <2>4 DEF HookOK, Truthful
  <2> QED
    BY <2>5, <2>7, <2>9, <2>10, <2>11 DEF IInv
<1> QED
  BY <1>2, <1>3

(***************************************************************************)
(* The rollup                                                              *)
(***************************************************************************)

\* The helper calls among S that are still to add n.
Adding(S, n) == {u \in S : u.delta.net = n}

IsUpdate(u) ==
    /\ IsRecord(u, {"by", "delta", "stage", "row"})
    /\ u.delta.net \in {-1, 0, 1} /\ "net" \in DOMAIN u.row /\ u.row.net \in Int

\* The net is made of calls that are not pending.
Made(net) ==
    /\ net + Cardinality(Adding(updates, 1)) <= called.credits
    /\ Cardinality(Adding(updates, -1)) - called.debits <= net

\* What is pending is neither in the row nor in any copy of it that has been read.
Booked ==
    /\ called \in [credits: Nat, debits: Nat]
    /\ "net" \in DOMAIN balance /\ balance.net \in Int
    /\ IsFiniteSet(updates)
    /\ \A u \in updates : IsUpdate(u)
    /\ Made(balance.net)
    /\ \A u \in updates : u.stage = "found" => Made(u.row.net)

One(b) == IF b THEN 1 ELSE 0

\* A finite set of calls, with one more or one less.
LEMMA AddingCounted ==
    ASSUME NEW S, IsFiniteSet(S), NEW n
    PROVE  IsFiniteSet(Adding(S, n)) /\ Cardinality(Adding(S, n)) \in Nat
<1>1. Adding(S, n) \subseteq S
  BY DEF Adding
<1>2. IsFiniteSet(Adding(S, n))
  BY <1>1, FS_Subset
<1> QED
  BY <1>2, FS_CardinalityType

LEMMA AddingOneMore ==
    ASSUME NEW S, IsFiniteSet(S), NEW n, NEW v
    PROVE  Cardinality(Adding(S \cup {v}, n))
              <= Cardinality(Adding(S, n)) + One(v.delta.net = n)
<1>1. IsFiniteSet(Adding(S, n)) /\ Cardinality(Adding(S, n)) \in Nat
  BY AddingCounted
<1>2. CASE v.delta.net = n
  <2>1. Adding(S \cup {v}, n) = Adding(S, n) \cup {v}
    BY <1>2 DEF Adding
  <2>2. Cardinality(Adding(S \cup {v}, n)) <= Cardinality(Adding(S, n)) + 1
    <3> DEFINE A == Adding(S, n)
    <3> HIDE DEF A
    <3>1. IsFiniteSet(A) /\ Cardinality(A) \in Nat
      BY <1>1 DEF A
    <3>2. Cardinality(A \cup {v}) = IF v \in A THEN Cardinality(A) ELSE Cardinality(A) + 1
      BY <3>1, FS_AddElement
    <3>3. Cardinality(A \cup {v}) <= Cardinality(A) + 1
      BY <3>1, <3>2
    <3> QED
      BY <2>1, <3>3 DEF A
  <2>3. One(v.delta.net = n) = 1
    BY <1>2 DEF One
  <2> QED
    BY <2>2, <2>3
<1>3. CASE v.delta.net # n
  <2>1. Adding(S \cup {v}, n) = Adding(S, n)
    BY <1>3 DEF Adding
  <2> QED
    BY <1>1, <1>3, <2>1 DEF One
<1> QED
  BY <1>2, <1>3

LEMMA AddingOneLess ==
    ASSUME NEW S, IsFiniteSet(S), NEW n, NEW u \in S
    PROVE  Cardinality(Adding(S \ {u}, n)) = Cardinality(Adding(S, n)) - One(u.delta.net = n)
<1>1. IsFiniteSet(Adding(S, n)) /\ Cardinality(Adding(S, n)) \in Nat
  BY AddingCounted
<1>2. CASE u.delta.net = n
  <2>1. Adding(S \ {u}, n) = Adding(S, n) \ {u} /\ u \in Adding(S, n)
    BY <1>2 DEF Adding
  <2> QED
    BY <1>1, <1>2, <2>1, FS_RemoveElement DEF One
<1>3. CASE u.delta.net # n
  <2>1. Adding(S \ {u}, n) = Adding(S, n)
    BY <1>3 DEF Adding
  <2> QED
    BY <1>1, <1>3, <2>1 DEF One
<1> QED
  BY <1>2, <1>3

LEMMA PlusNet ==
    ASSUME NEW b, NEW d, "net" \in DOMAIN b
    PROVE  "net" \in DOMAIN Plus(b, d) /\ Plus(b, d).net = b.net + d.net
BY DEF Plus

LEMMA InitBooked == Init => Booked
<1> SUFFICES ASSUME Init PROVE Booked
  OBVIOUS
<1>1. /\ updates = {} /\ balance = Zero
      /\ called.credits = 0 /\ called.debits = 0 /\ called \in [credits: Nat, debits: Nat]
      /\ Adding(updates, 1) = {} /\ Adding(updates, -1) = {}
  BY DEF Init, Adding
<1>2. "net" \in DOMAIN Zero /\ Zero.net = 0
  BY DEF Zero
<1>3. IsFiniteSet(updates) /\ Cardinality(Adding(updates, 1)) = 0
      /\ Cardinality(Adding(updates, -1)) = 0
  BY <1>1, FS_EmptySet
<1>4. Made(balance.net)
  BY <1>1, <1>2, <1>3 DEF Made
<1> QED
  BY <1>1, <1>2, <1>3, <1>4 DEF Booked

\* A helper is called for what is counted as called.
LEMMA PostKeeps ==
    ASSUME Booked, NEW by, NEW delta, delta.net \in {-1, 0, 1}, Post(by, delta),
           called' \in [credits: Nat, debits: Nat],
           called'.credits = called.credits + One(Rollup /\ delta.net = 1),
           called'.debits = called.debits + One(Rollup /\ delta.net = -1)
    PROVE  Booked'
<1>1. CASE ~Rollup
  <2>1. /\ UNCHANGED <<updates, balance>>
        /\ called'.credits = called.credits /\ called'.debits = called.debits
    BY <1>1 DEF Post, One, Booked
  <2> QED
    BY <2>1 DEF Booked, Made, IsUpdate
<1>2. CASE Rollup
  <2> DEFINE u0 == [by |-> by, delta |-> delta, stage |-> "call", row |-> Zero]
  <2>1. updates' = updates \cup {u0} /\ balance' = balance
    BY <1>2 DEF Post
  <2>2. IsUpdate(u0) /\ u0.delta = delta /\ u0.stage = "call"
    BY DEF IsUpdate, IsRecord, Zero
  <2> HIDE DEF u0
  <2>3. IsFiniteSet(updates) /\ IsFiniteSet(updates')
    BY <2>1, FS_AddElement DEF Booked
  <2>4. ASSUME NEW n
        PROVE  /\ Cardinality(Adding(updates, n)) \in Nat
               /\ Cardinality(Adding(updates', n)) \in Nat
               /\ Cardinality(Adding(updates', n))
                     <= Cardinality(Adding(updates, n)) + One(delta.net = n)
    BY <2>1, <2>2, <2>3, AddingCounted, AddingOneMore
  <2>5. /\ Cardinality(Adding(updates', 1)) - Cardinality(Adding(updates, 1))
              <= called'.credits - called.credits
        /\ Cardinality(Adding(updates', -1)) - Cardinality(Adding(updates, -1))
              <= called'.debits - called.debits
        /\ called'.credits \in Nat /\ called'.debits \in Nat
    BY <1>2, <2>4 DEF Booked, One
  <2>6. \A net \in Int : Made(net) => Made(net)'
    BY <2>4, <2>5 DEF Made, Booked
  <2> QED
    BY <2>1, <2>2, <2>3, <2>5, <2>6 DEF Booked, IsUpdate
<1> QED
  BY <1>1, <1>2

LEMMA TransitionNet == \A from, to, amount : Transition(from, to, amount).net = 0
BY DEF Transition, Zero

LEMMA BalanceReadKeeps == ASSUME Booked, NEW u \in updates, BalanceRead(u) PROVE Booked'
<1> DEFINE v == [u EXCEPT !.stage = "found", !.row = balance]
<1>1. updates' = (updates \ {u}) \cup {v} /\ UNCHANGED <<called, balance>>
  BY DEF BalanceRead
<1>2. IsUpdate(v) /\ v.delta = u.delta /\ v.row = balance
  BY DEF Booked, IsUpdate, IsRecord
<1> HIDE DEF v
<1>3. IsFiniteSet(updates) /\ IsFiniteSet(updates \ {u}) /\ IsFiniteSet(updates')
  BY <1>1, FS_AddElement, FS_RemoveElement DEF Booked
<1>4. ASSUME NEW n
      PROVE  /\ Cardinality(Adding(updates, n)) \in Nat
             /\ Cardinality(Adding(updates', n)) \in Nat
             /\ Cardinality(Adding(updates', n)) <= Cardinality(Adding(updates, n))
  <2>1. /\ Cardinality(Adding(updates, n)) \in Nat
        /\ Cardinality(Adding(updates \ {u}, n)) \in Nat
        /\ Cardinality(Adding(updates', n)) \in Nat
    BY <1>3, AddingCounted
  <2>2. Cardinality(Adding(updates', n))
          <= Cardinality(Adding(updates \ {u}, n)) + One(v.delta.net = n)
    BY <1>1, <1>3, AddingOneMore
  <2>3. Cardinality(Adding(updates \ {u}, n))
          = Cardinality(Adding(updates, n)) - One(u.delta.net = n)
    BY <1>3, AddingOneLess
  <2> QED
    BY <1>2, <2>1, <2>2, <2>3 DEF One
<1>5. \A net \in Int : Made(net) => Made(net)'
  BY <1>1, <1>4 DEF Made, Booked
<1> QED
  BY <1>1, <1>2, <1>3, <1>5 DEF Booked, IsUpdate

LEMMA BalanceSaveKeeps == ASSUME Booked, NEW u \in updates, BalanceSave(u) PROVE Booked'
<1>1. /\ u.stage = "found" /\ updates' = updates \ {u}
      /\ balance' = Plus(u.row, u.delta) /\ UNCHANGED called
  BY DEF BalanceSave
<1>2. "net" \in DOMAIN balance' /\ balance'.net = u.row.net + u.delta.net
  BY <1>1, PlusNet DEF Booked, IsUpdate
<1>3. IsFiniteSet(updates) /\ IsFiniteSet(updates')
  BY <1>1, FS_RemoveElement DEF Booked
<1>4. ASSUME NEW n
      PROVE  /\ Cardinality(Adding(updates, n)) \in Nat
             /\ Cardinality(Adding(updates', n)) \in Nat
             /\ Cardinality(Adding(updates', n))
                   = Cardinality(Adding(updates, n)) - One(u.delta.net = n)
  BY <1>1, <1>3, AddingCounted, AddingOneLess
<1>5. u.row.net \in Int /\ u.delta.net \in {-1, 0, 1} /\ balance'.net \in Int /\ Made(u.row.net)
  BY <1>1, <1>2 DEF Booked, IsUpdate
<1>6. Made(balance.net)'
  <2>1. balance'.net + Cardinality(Adding(updates', 1)) <= called.credits
    BY <1>2, <1>4, <1>5 DEF Made, One, Booked
  <2>2. Cardinality(Adding(updates', -1)) - called.debits <= balance'.net
    BY <1>2, <1>4, <1>5 DEF Made, One, Booked
  <2> QED
    BY <1>1, <2>1, <2>2 DEF Made
<1>7. \A net \in Int : Made(net) => Made(net)'
  <2>1. /\ Cardinality(Adding(updates', 1)) <= Cardinality(Adding(updates, 1))
        /\ Cardinality(Adding(updates', -1)) <= Cardinality(Adding(updates, -1))
    BY <1>4 DEF One
  <2>2. /\ Cardinality(Adding(updates, 1)) \in Nat /\ Cardinality(Adding(updates', 1)) \in Nat
        /\ Cardinality(Adding(updates, -1)) \in Nat /\ Cardinality(Adding(updates', -1)) \in Nat
    BY <1>4
  <2>3. called.credits \in Nat /\ called.debits \in Nat /\ called' = called
    BY <1>1 DEF Booked
  <2> QED
    BY <2>1, <2>2, <2>3 DEF Made
<1> QED
  BY <1>1, <1>2, <1>3, <1>5, <1>6, <1>7 DEF Booked, IsUpdate

LEMMA BookedApart == ASSUME Booked, UNCHANGED <<called, balance, updates>> PROVE Booked'
BY DEF Booked, Made, IsUpdate

(***************************************************************************)
(* Sums of amounts                                                         *)
(***************************************************************************)

\* Induction up to a bound, over a set: the least number that is left out has a predecessor
\* that is not.
LEMMA Climb ==
    ASSUME NEW k \in Nat, NEW S, 0 \in S, \A n \in 1..k : n - 1 \in S => n \in S
    PROVE  0..k \subseteq S
<1> DEFINE Left == {n \in 0..k : n \notin S}
           R == OpToRel(<, Nat)
<1> SUFFICES ASSUME Left # {} PROVE FALSE
  OBVIOUS
<1>1. IsWellFoundedOn(R, Nat)
  BY NatLessThanWellFounded
<1>2. Left \subseteq Nat
  OBVIOUS
<1>3. \A x, y \in Nat : x < y => <<x, y>> \in R
  BY DEF OpToRel
<1> HIDE DEF R
<1>4. PICK n \in Left : \A m \in Left : ~(<<m, n>> \in R)
  BY <1>1, <1>2, WFMin
<1>5. n \in 1..k
  OBVIOUS
<1>6. n - 1 \in 0..k /\ n - 1 < n
  BY <1>5
<1>7. n - 1 \notin Left
  BY <1>2, <1>3, <1>4, <1>6
<1> QED
  BY <1>5, <1>6, <1>7

Weights == [Ids -> Nat]

LEMMA MaxPayoutsNat == MaxPayouts \in Nat
BY ConstantsOK

\* The recursion of Sums defines a function.
LEMMA SumsDefined ==
    ASSUME NEW w \in Weights
    PROVE  /\ Sums(w) \in [0..MaxPayouts -> Nat]
           /\ Sums(w)[0] = 0
           /\ \A n \in Ids : Sums(w)[n] = Sums(w)[n - 1] + w[n]
<1> DEFINE IsSum(f, k) == f[0] = 0 /\ \A n \in 1..k : f[n] = f[n - 1] + w[n]
           S == {k \in 0..MaxPayouts : \E f \in [0..k -> Nat] : IsSum(f, k)}
<1>1. 0 \in S
  <2> DEFINE f == [n \in 0..0 |-> 0]
  <2>1. f \in [0..0 -> Nat] /\ IsSum(f, 0)
    OBVIOUS
  <2> HIDE DEF f
  <2>2. 0 \in 0..MaxPayouts
    BY MaxPayoutsNat
  <2> QED
    BY <2>1, <2>2
<1>2. ASSUME NEW k \in Ids, k - 1 \in S PROVE k \in S
  <2>1. PICK f \in [0..(k - 1) -> Nat] : IsSum(f, k - 1)
    BY <1>2
  <2> DEFINE g == [n \in 0..k |-> IF n = k THEN f[k - 1] + w[k] ELSE f[n]]
  <2>2. k \in Nat /\ k > 0 /\ k <= MaxPayouts /\ w[k] \in Nat
    BY MaxPayoutsNat DEF Ids, Weights
  <2>3. g \in [0..k -> Nat]
    BY <2>1, <2>2
  <2>4. g[0] = 0
    BY <2>1, <2>2
  <2>5. ASSUME NEW n \in 1..k PROVE g[n] = g[n - 1] + w[n]
    <3>1. CASE n = k
      BY <2>2, <3>1
    <3>2. CASE n # k
      <4>1. n \in 1..(k - 1) /\ n - 1 \in 0..(k - 1)
        BY <2>2, <2>5, <3>2
      <4> QED
        BY <2>1, <2>2, <3>2, <4>1
    <3> QED
      BY <3>1, <3>2
  <2>6. k \in 0..MaxPayouts
    BY <2>2, MaxPayoutsNat
  <2> QED
    BY <2>3, <2>4, <2>5, <2>6
<1> HIDE DEF S
<1>3. MaxPayouts \in S
  BY <1>1, <1>2, MaxPayoutsNat, Climb DEF Ids
<1> USE DEF S
<1>4. PICK f \in [0..MaxPayouts -> Nat] : IsSum(f, MaxPayouts)
  BY <1>3
<1> DEFINE Rec(g) == g = [n \in 0..MaxPayouts |-> IF n = 0 THEN 0 ELSE g[n - 1] + w[n]]
<1>5. Rec(f)
  <2>1. \A n \in 0..MaxPayouts : f[n] = IF n = 0 THEN 0 ELSE f[n - 1] + w[n]
    BY <1>4, MaxPayoutsNat
  <2> QED
    BY <1>4, <2>1
<1>6. Sums(w) = CHOOSE g : Rec(g)
  BY DEF Sums
<1>7. Rec(Sums(w))
  BY <1>5, <1>6
<1>8. \A n \in 0..MaxPayouts : Sums(w)[n] = IF n = 0 THEN 0 ELSE Sums(w)[n - 1] + w[n]
  BY <1>7
<1>9. Sums(w)[0] = 0 /\ \A n \in Ids : Sums(w)[n] = Sums(w)[n - 1] + w[n]
  BY <1>8, MaxPayoutsNat DEF Ids
<1> DEFINE T == {k \in 0..MaxPayouts : Sums(w)[k] \in Nat}
<1>10. 0 \in T /\ \A n \in Ids : n - 1 \in T => n \in T
  BY <1>9, MaxPayoutsNat DEF Ids, Weights
<1> HIDE DEF T
<1>11. 0..MaxPayouts \subseteq T
  BY <1>10, MaxPayoutsNat, Climb DEF Ids
<1>12. Sums(w) = [n \in 0..MaxPayouts |-> Sums(w)[n]]
  BY <1>7
<1> USE DEF T
<1>13. \A n \in 0..MaxPayouts : Sums(w)[n] \in Nat
  BY <1>11
<1> QED
  BY <1>9, <1>12, <1>13

\* Sums of larger weights are larger.
LEMMA SumsGrow ==
    ASSUME NEW w \in Weights, NEW v \in Weights, \A n \in Ids : w[n] <= v[n]
    PROVE  Sums(w)[MaxPayouts] <= Sums(v)[MaxPayouts]
<1> DEFINE S == {n \in 0..MaxPayouts : Sums(w)[n] <= Sums(v)[n]}
<1>1. 0 \in S
  BY SumsDefined, MaxPayoutsNat
<1>2. ASSUME NEW n \in Ids, n - 1 \in S PROVE n \in S
  <2>1. /\ n - 1 \in 0..MaxPayouts /\ n \in 0..MaxPayouts /\ w[n] \in Nat /\ v[n] \in Nat
    BY MaxPayoutsNat DEF Ids, Weights
  <2>2. /\ Sums(w)[n - 1] \in Nat /\ Sums(v)[n - 1] \in Nat
        /\ Sums(w)[n] = Sums(w)[n - 1] + w[n] /\ Sums(v)[n] = Sums(v)[n - 1] + v[n]
    BY <2>1, SumsDefined
  <2> QED
    BY <1>2, <2>1, <2>2
<1> HIDE DEF S
<1>3. MaxPayouts \in S
  BY <1>1, <1>2, MaxPayoutsNat, Climb DEF Ids
<1> QED
  BY <1>3 DEF S

\* One weight is raised.
LEMMA SumsAdd ==
    ASSUME NEW w \in Weights, NEW v \in Weights, NEW i \in Ids, NEW a \in Nat,
           v[i] = w[i] + a, \A n \in Ids \ {i} : v[n] = w[n]
    PROVE  Sums(v)[MaxPayouts] = Sums(w)[MaxPayouts] + a
<1> DEFINE S == {n \in 0..MaxPayouts : Sums(v)[n] = Sums(w)[n] + IF n < i THEN 0 ELSE a}
<1>1. 0 \in S
  BY SumsDefined, MaxPayoutsNat DEF Ids
<1>2. ASSUME NEW n \in Ids, n - 1 \in S PROVE n \in S
  <2>1. /\ n - 1 \in 0..MaxPayouts /\ n \in 0..MaxPayouts /\ w[n] \in Nat /\ v[n] \in Nat
        /\ i \in Nat /\ n \in Nat
    BY MaxPayoutsNat DEF Ids, Weights
  <2>2. /\ Sums(w)[n - 1] \in Nat /\ Sums(v)[n - 1] \in Nat
        /\ Sums(w)[n] = Sums(w)[n - 1] + w[n] /\ Sums(v)[n] = Sums(v)[n - 1] + v[n]
    BY <2>1, SumsDefined
  <2>3. CASE n = i
    BY <1>2, <2>1, <2>2, <2>3
  <2>4. CASE n # i
    <3>1. v[n] = w[n] /\ (n < i <=> n - 1 < i)
      BY <2>1, <2>4
    <3> QED
      BY <1>2, <2>1, <2>2, <3>1
  <2> QED
    BY <2>3, <2>4
<1> HIDE DEF S
<1>3. MaxPayouts \in S
  BY <1>1, <1>2, MaxPayoutsNat, Climb DEF Ids
<1>4. ~(MaxPayouts < i)
  BY MaxPayoutsNat DEF Ids
<1> QED
  BY <1>3, <1>4 DEF S

WeightOf(I) == [i \in Ids |-> IF i \in I THEN payouts[i].amount ELSE 0]

LEMMA TotalOfWeights ==
    ASSUME TypeOK, NEW I
    PROVE  WeightOf(I) \in Weights /\ Total(I) = Sums(WeightOf(I))[MaxPayouts] /\ Total(I) \in Nat
<1>1. WeightOf(I) \in Weights
  BY DEF WeightOf, Weights, TypeOK, Payout
<1>2. Total(I) = Sums(WeightOf(I))[MaxPayouts]
  BY DEF Total, WeightOf
<1> QED
  BY <1>1, <1>2, SumsDefined, MaxPayoutsNat

LEMMA TotalGrows ==
    ASSUME TypeOK, NEW I, NEW J, I \subseteq J
    PROVE  Total(I) <= Total(J)
<1>1. \A i \in Ids : WeightOf(I)[i] <= WeightOf(J)[i]
  BY DEF WeightOf, TypeOK, Payout
<1> QED
  BY <1>1, TotalOfWeights, SumsGrow

(***************************************************************************)
(* Types                                                                   *)
(***************************************************************************)

LEMMA InitTypeOK == Init => TypeOK
BY ConstantsOK DEF Init, TypeOK, NoPayout, Payout, IdlePayer, Payer, Zero, Balance, Ids

LEMMA PlusType == ASSUME NEW b \in Balance, NEW d \in Balance PROVE Plus(b, d) \in Balance
BY DEF Plus, Balance

LEMMA PostType ==
    ASSUME TypeOK, NEW by, NEW delta \in Balance, Post(by, delta),
           by \in Callers
    PROVE  balance' \in Balance /\ updates' \subseteq Update
<1>1. [by |-> by, delta |-> delta, stage |-> "call", row |-> Zero] \in Update
  BY DEF Update, Zero, Balance
<1> QED
  BY <1>1 DEF Post, TypeOK

LEMMA TransitionType ==
    ASSUME NEW from, NEW to, NEW amount \in Nat
    PROVE  Transition(from, to, amount) \in Balance
<1>1. /\ Zero \in Balance
      /\ \A n \in Int : [Zero EXCEPT !.pending = n] \in Balance
      /\ \A m, n \in Int : [Zero EXCEPT !.paid = m, !.pending = n] \in Balance
  <2>1. Zero \in Balance
    BY DEF Zero, Balance
  <2> QED
    BY <2>1 DEF Balance
<1>2. amount \in Int /\ -amount \in Int /\ (IF from = "processing" THEN -amount ELSE 0) \in Int
  OBVIOUS
<1>3. CASE to = "processing" /\ from # "processing"
  BY <1>1, <1>2, <1>3 DEF Transition
<1>4. CASE to = "paid" /\ from # "paid"
  BY <1>1, <1>2, <1>4 DEF Transition
<1>5. CASE to = "failed" /\ from = "processing"
  BY <1>1, <1>2, <1>5 DEF Transition
<1>6. CASE /\ ~(to = "processing" /\ from # "processing")
           /\ ~(to = "paid" /\ from # "paid")
           /\ ~(to = "failed" /\ from = "processing")
  BY <1>1, <1>6 DEF Transition
<1> QED
  BY <1>3, <1>4, <1>5, <1>6

LEMMA PayerType ==
    ASSUME TypeOK, NEW p \in Payers, PayerReads(p) \/ PayerStep(p)
    PROVE  TypeOK'
<1>1. payer[p] \in Payer
  BY DEF TypeOK
<1>2. CASE PayerReads(p)
  <2>1. FeeOf(p) \in Nat /\ MinPayout \in Nat /\ earned \in Nat
    BY ConstantsOK DEF FeeOf, TypeOK
  <2>2. Available \in Int
    BY <2>1, TotalOfWeights DEF Available
  <2>3. Available - FeeOf(p) \in Nat
    BY <1>2, <2>1, <2>2 DEF PayerReads
  <2> HIDE DEF Available
  <2>4. [payer[p] EXCEPT !.pc = "read", !.amount = Available - FeeOf(p)] \in Payer
    BY <1>1, <2>3 DEF Payer
  <2> QED
    BY <1>2, <2>4 DEF PayerReads, TypeOK
<1>3. CASE PayerCreates(p)
  <2> DEFINE new == [status |-> "pending", amount |-> payer[p].amount, ref |-> FALSE]
  <2>1. new \in Payout
    BY <1>1 DEF Payout, Payer
  <2>2. PICK i \in Ids :
            /\ payouts' = [payouts EXCEPT ![i] = new]
            /\ payer' = [payer EXCEPT ![p] = [@ EXCEPT !.pc = "created", !.id = i, !.entity = new]]
    BY <1>3 DEF PayerCreates
  <2> HIDE DEF new
  <2>3. i \in 0..MaxPayouts
    BY MaxPayoutsNat DEF Ids
  <2>4. [payer[p] EXCEPT !.pc = "created", !.id = i, !.entity = new] \in Payer
    BY <1>1, <2>1, <2>3 DEF Payer
  <2> QED
    BY <1>3, <2>1, <2>2, <2>4 DEF PayerCreates, TypeOK
<1>4. CASE TransferAccepted(p) \/ TransferFails(p)
  <2>1. \A pc \in {"accepted", "refused"} : [payer[p] EXCEPT !.pc = pc] \in Payer
    BY <1>1 DEF Payer
  <2>2. payer' \in [Payers -> Payer]
    BY <1>4, <2>1 DEF TransferAccepted, TransferFails, TypeOK
  <2>3. bank' \in [Ids -> {"none", "accepted", "sent", "returned"}]
    BY <1>4 DEF TransferAccepted, TransferFails, TypeOK
  <2> QED
    BY <1>4, <2>2, <2>3 DEF TransferAccepted, TransferFails, TypeOK
<1>5. CASE PayerSaves(p)
  <2>1. PICK e \in Outcomes(p) :
          /\ payouts' = [payouts EXCEPT ![payer[p].id] = e]
          /\ payer' = [payer EXCEPT ![p].pc = "rollup", ![p].entity = e]
          /\ Post(<<"payer", p>>, Transition("pending", e.status, e.amount))
    BY <1>5 DEF PayerSaves
  <2>2. e \in Payout
    <3>1. payer[p].entity \in Payout
      BY <1>1 DEF Payer
    <3>2. \A s \in {"processing", "paid"} :
             [payer[p].entity EXCEPT !.ref = TRUE, !.status = s] \in Payout
      BY <3>1 DEF Payout
    <3>3. [payer[p].entity EXCEPT !.status = "failed"] \in Payout
      BY <3>1 DEF Payout
    <3> QED
      BY <2>1, <3>2, <3>3 DEF Outcomes
  <2>3. [payer[p] EXCEPT !.pc = "rollup", !.entity = e] \in Payer
    BY <1>1, <2>2 DEF Payer
  <2>4. Transition("pending", e.status, e.amount) \in Balance
    BY <2>2, TransitionType DEF Payout
  <2>5. balance' \in Balance /\ updates' \subseteq Update
    BY <2>1, <2>4, PostType DEF Callers
  <2>6. payer' \in [Payers -> Payer] /\ payouts' \in [Ids -> Payout]
    BY <2>1, <2>2, <2>3 DEF TypeOK
  <2> QED
    BY <1>5, <2>5, <2>6 DEF PayerSaves, TypeOK
<1>6. CASE PayerReturns(p) \/ PayerBackfills(p)
  <2>1. IdlePayer \in Payer /\ [payer[p] EXCEPT !.pc = "backfill"] \in Payer
    BY <1>1, MaxPayoutsNat DEF IdlePayer, NoPayout, Payer, Payout
  <2>2. payer[p].entity \in Payout
    BY <1>1 DEF Payer
  <2> QED
    BY <1>6, <2>1, <2>2 DEF PayerReturns, PayerBackfills, TypeOK
<1> QED
  BY <1>2, <1>3, <1>4, <1>5, <1>6 DEF PayerStep

LEMMA HookType ==
    ASSUME TypeOK, NEW h \in hooks, HookRepeated(h) \/ HookFinds(h) \/ HookSaves(h)
    PROVE  TypeOK'
<1>1. h \in Hook
  BY DEF TypeOK
<1>2. CASE HookRepeated(h)
  <2>1. repeats + 1 \in 0..MaxRepeats
    BY <1>2, ConstantsOK DEF HookRepeated, TypeOK
  <2>2. [Hook0(h.type, h.id) EXCEPT !.copy = repeats + 1] \in Hook
    BY <1>1, <2>1 DEF Hook, Hook0, NoPayout, Payout
  <2> QED
    BY <1>2, <2>1, <2>2 DEF HookRepeated, TypeOK
<1>3. CASE HookFinds(h)
  <2>1. [h EXCEPT !.stage = "found", !.entity = payouts[h.id]] \in Hook
    BY <1>1 DEF Hook, TypeOK
  <2> QED
    BY <1>3, <2>1 DEF HookFinds, TypeOK
<1>4. CASE HookSaves(h) /\ h.entity.status # HookStatus(h)
  <2>1. [h.entity EXCEPT !.status = HookStatus(h)] \in Payout
    BY <1>1 DEF Hook, Payout, HookStatus
  <2>2. Transition(h.entity.status, HookStatus(h), h.entity.amount) \in Balance
    BY <1>1, TransitionType DEF Hook, Payout
  <2>3. <<"hook", h.type, h.id, h.copy>> \in Callers
    BY <1>1 DEF Hook, Callers
  <2>4. Post(<<"hook", h.type, h.id, h.copy>>,
             Transition(h.entity.status, HookStatus(h), h.entity.amount))
    BY <1>4 DEF HookSaves
  <2>5. balance' \in Balance /\ updates' \subseteq Update
    BY <2>2, <2>3, <2>4, PostType
  <2> QED
    BY <1>4, <2>1, <2>5 DEF HookSaves, TypeOK
<1>5. CASE HookSaves(h) /\ h.entity.status = HookStatus(h)
  BY <1>5 DEF HookSaves, TypeOK
<1> QED
  BY <1>2, <1>3, <1>4, <1>5

LEMMA NextTypeOK == TypeOK /\ [Next]_vars => TypeOK'
<1> SUFFICES ASSUME TypeOK, [Next]_vars PROVE TypeOK'
  OBVIOUS
<1>1. CASE Earn
  <2>1. earned' \in 0..MaxEarned
    BY <1>1, ConstantsOK DEF Earn, TypeOK
  <2>2. CASE UNCHANGED <<balance, updates, called>>
    BY <1>1, <2>1, <2>2 DEF Earn, TypeOK
  <2>3. CASE /\ called.credits < MaxEarned
             /\ called' = [called EXCEPT !.credits = @ + 1]
             /\ Post(<<"sale", called'.credits>>, [Zero EXCEPT !.net = 1])
    <3>1. /\ called' \in [credits: 0..MaxEarned, debits: 0..MaxReversals]
          /\ called'.credits \in 1..MaxEarned
      BY <2>3, ConstantsOK DEF TypeOK
    <3>2. [Zero EXCEPT !.net = 1] \in Balance
      BY DEF Zero, Balance
    <3>3. <<"sale", called'.credits>> \in Callers
      BY <3>1 DEF Callers
    <3>4. balance' \in Balance /\ updates' \subseteq Update
      BY <2>3, <3>2, <3>3, PostType
    <3> QED
      BY <1>1, <2>1, <3>1, <3>4 DEF Earn, TypeOK
  <2> QED
    BY <1>1, <2>2, <2>3 DEF Earn
<1>5. CASE Reverse
  <2>1. /\ called' \in [credits: 0..MaxEarned, debits: 0..MaxReversals]
        /\ called'.debits \in 1..MaxReversals
    BY <1>5, ConstantsOK DEF Reverse, TypeOK
  <2>2. [Zero EXCEPT !.net = -1] \in Balance
    BY DEF Zero, Balance
  <2>3. <<"reversal", called'.debits>> \in Callers
    BY <2>1 DEF Callers
  <2>4. balance' \in Balance /\ updates' \subseteq Update
    BY <1>5, <2>2, <2>3, PostType DEF Reverse
  <2> QED
    BY <1>5, <2>1, <2>4 DEF Reverse, TypeOK
<1>2. ASSUME NEW i \in Ids, BankSends(i) \/ BankReturns(i) PROVE TypeOK'
  <2>1. Hook0("success", i) \in Hook /\ Hook0("failed", i) \in Hook
    BY ConstantsOK DEF Hook, Hook0, NoPayout, Payout
  <2> QED
    BY <1>2, <2>1 DEF BankSends, BankReturns, TypeOK
<1>3. ASSUME NEW u \in updates, BalanceRead(u) \/ BalanceSave(u) PROVE TypeOK'
  <2>1. u \in Update
    BY DEF TypeOK
  <2>2. balance \in Balance /\ u.row \in Balance /\ u.delta \in Balance
    BY <2>1 DEF Update, TypeOK
  <2>3. [u EXCEPT !.stage = "found", !.row = balance] \in Update
    BY <2>1, <2>2 DEF Update
  <2>4. Plus(u.row, u.delta) \in Balance
    BY <2>2, PlusType
  <2> QED
    BY <1>3, <2>3, <2>4 DEF BalanceRead, BalanceSave, TypeOK
<1>4. CASE UNCHANGED vars
  BY <1>4 DEF vars, TypeOK
<1> QED
  BY <1>1, <1>2, <1>3, <1>4, <1>5, PayerType, HookType DEF Next, HookStep, BalanceStep

(***************************************************************************)
(* The money                                                               *)
(***************************************************************************)

\* Entities that will be saved, by a call or by a webhook, have the amount of their row.
AmountsKept ==
    /\ \A p \in Payers : Busy(p) => payer[p].entity.amount = payouts[payer[p].id].amount
    /\ \A h \in hooks : h.stage = "found" => h.entity.amount = payouts[h.id].amount

\* What is committed was earned, and so is what a call has read as available beside it.
Covered ==
    /\ Total(Committed) <= earned
    /\ \A p \in Payers : payer[p].pc = "read" =>
          payer[p].amount > 0 /\ Total(Committed) + payer[p].amount <= earned

\* One call of initiatePayout at a time, and no answer of the bank is lost.
OneAtATime ==
    /\ \A p, q \in Payers : p = q
    /\ "timeout" \notin Errors

Money == TypeOK /\ IInv /\ AmountsKept /\ Covered

\* What is committed is reserved: a row is FAILED only when the money is back.
LEMMA CommittedReserved ==
    ASSUME TypeOK, IInv, OneAtATime
    PROVE  Committed \subseteq Reserved
<1> SUFFICES ASSUME NEW i \in Committed PROVE i \in Reserved
  OBVIOUS
<1>1. i \in Ids /\ payouts[i].status \in {"none", "pending", "processing", "paid", "failed"}
  BY DEF Committed, Asks, TypeOK, Payout
<1>2. CASE bank[i] \in {"accepted", "sent"}
  <2>1. RowOK(i)
    BY <1>1 DEF IInv
  <2> QED
    BY <1>1, <1>2, <2>1 DEF RowOK, Truthful, OneAtATime, Reserved
<1>3. CASE Asks(i)
  BY <1>1, <1>3 DEF IInv, Owns, Asking, Asks, Reserved
<1> QED
  BY <1>2, <1>3 DEF Committed, Asks

\* No row's amount changes, and nothing more is committed.
LEMMA CommittedShrinks ==
    ASSUME TypeOK, TypeOK', \A i \in Ids : payouts'[i].amount = payouts[i].amount,
           Committed' \subseteq Committed
    PROVE  /\ Total(Committed)' \in Nat /\ Total(Committed) \in Nat
           /\ Total(Committed)' <= Total(Committed)
<1> DEFINE w == WeightOf(Committed)
<1>1. w \in Weights /\ Total(Committed) = Sums(w)[MaxPayouts] /\ Total(Committed) \in Nat
  BY TotalOfWeights
<1>2. w' \in Weights /\ Total(Committed)' = Sums(w')[MaxPayouts] /\ Total(Committed)' \in Nat
  <2>1. WeightOf(Committed)' \in Weights
    BY DEF WeightOf, Weights, TypeOK, Payout
  <2>2. Total(Committed)' = Sums(WeightOf(Committed)')[MaxPayouts]
    BY DEF Total, WeightOf, Sums
  <2> QED
    BY <2>1, <2>2, SumsDefined, MaxPayoutsNat
<1>3. \A i \in Ids : w'[i] <= w[i]
  BY DEF WeightOf, TypeOK, Payout
<1> HIDE DEF w
<1> QED
  BY <1>1, <1>2, <1>3, SumsGrow

\* How the sum changes with a row more, and with a row less.
LEMMA WeightsNext ==
    TypeOK' => /\ WeightOf(Committed)' \in Weights
               /\ Total(Committed)' = Sums(WeightOf(Committed)')[MaxPayouts]
<1>1. TypeOK' => WeightOf(Committed)' \in Weights
  BY DEF WeightOf, Weights, TypeOK, Payout
<1>2. Total(Committed)' = Sums(WeightOf(Committed)')[MaxPayouts]
  BY DEF Total, WeightOf, Sums
<1> QED
  BY <1>1, <1>2

LEMMA TotalJoins ==
    ASSUME TypeOK, TypeOK', NEW i \in Ids, NEW a \in Nat,
           i \notin Committed, Committed' = Committed \cup {i}, payouts'[i].amount = a,
           \A j \in Ids \ {i} : payouts'[j].amount = payouts[j].amount
    PROVE  Total(Committed)' = Total(Committed) + a
<1> DEFINE w == WeightOf(Committed)
<1>1. /\ w \in Weights /\ Total(Committed) = Sums(w)[MaxPayouts]
      /\ w' \in Weights /\ Total(Committed)' = Sums(w')[MaxPayouts]
  BY TotalOfWeights, WeightsNext
<1>2. w'[i] = w[i] + a /\ \A j \in Ids \ {i} : w'[j] = w[j]
  BY DEF WeightOf
<1> HIDE DEF w
<1> QED
  BY <1>1, <1>2, SumsAdd

LEMMA TotalLeaves ==
    ASSUME TypeOK, TypeOK', NEW i \in Committed, Committed' = Committed \ {i},
           \A j \in Ids : payouts'[j].amount = payouts[j].amount
    PROVE  Total(Committed) = Total(Committed)' + payouts[i].amount
<1> DEFINE w == WeightOf(Committed)
<1>1. /\ w \in Weights /\ Total(Committed) = Sums(w)[MaxPayouts]
      /\ w' \in Weights /\ Total(Committed)' = Sums(w')[MaxPayouts]
  BY TotalOfWeights, WeightsNext
<1>2. i \in Ids /\ payouts[i].amount \in Nat
  BY DEF Committed, TypeOK, Payout
<1>3. w[i] = w'[i] + payouts[i].amount /\ \A j \in Ids \ {i} : w[j] = w'[j]
  BY <1>2 DEF WeightOf
<1> HIDE DEF w
<1> QED
  BY <1>1, <1>2, <1>3, SumsAdd

LEMMA InitMoney == Init => Money
<1> SUFFICES ASSUME Init PROVE Money
  OBVIOUS
<1>1. TypeOK /\ IInv
  BY InitTypeOK, InitIInv
<1>2. Committed = {} /\ earned = 0 /\ hooks = {}
  BY DEF Init, Committed, Asks, IdlePayer
<1>3. \A p \in Payers : ~Busy(p) /\ payer[p].pc # "read"
  BY DEF Init, IdlePayer, Busy, Asking, Told
<1>4. Total(Committed) <= 0
  <2>1. \A i \in Ids : WeightOf({})[i] = 0
    BY DEF WeightOf
  <2> DEFINE S == {n \in 0..MaxPayouts : Sums(WeightOf({}))[n] = 0}
  <2>2. WeightOf({}) \in Weights /\ Total({}) = Sums(WeightOf({}))[MaxPayouts]
    BY <1>1, TotalOfWeights
  <2>3. 0 \in S /\ \A n \in Ids : n - 1 \in S => n \in S
    BY <2>1, <2>2, SumsDefined, MaxPayoutsNat DEF Ids
  <2> HIDE DEF S
  <2>4. MaxPayouts \in S
    BY <2>3, MaxPayoutsNat, Climb DEF Ids
  <2> QED
    BY <1>2, <2>2, <2>4 DEF S
<1> QED
  BY <1>1, <1>2, <1>3, <1>4 DEF Money, AmountsKept, Covered

\* A step that commits nothing and reads no balance.
LEMMA NothingCommitted ==
    ASSUME Money, TypeOK', IInv', AmountsKept',
           \A i \in Ids : payouts'[i].amount = payouts[i].amount,
           Committed' \subseteq Committed, earned' >= earned,
           \A p \in Payers : payer'[p].pc = "read" =>
               payer[p].pc = "read" /\ payer'[p].amount = payer[p].amount
    PROVE  Money'
<1>1. /\ Total(Committed)' \in Nat /\ Total(Committed) \in Nat
      /\ Total(Committed)' <= Total(Committed)
  BY CommittedShrinks DEF Money
<1>2. earned \in Int /\ earned' \in Int /\ \A p \in Payers : payer[p].amount \in Int
  BY DEF Money, TypeOK, Payer
<1>3. Covered'
  BY <1>1, <1>2 DEF Money, Covered
<1> QED
  BY <1>3 DEF Money

\* A step that does not touch the calls, nor the rows.
LEMMA CallsStay ==
    ASSUME Money, TypeOK', IInv', UNCHANGED <<payouts, payer>>,
           \A i \in Ids : bank'[i] \in {"accepted", "sent"} => bank[i] \in {"accepted", "sent"},
           \A h \in hooks' : h.stage = "found" =>
               h \in hooks \/ h.entity.amount = payouts[h.id].amount,
           earned' >= earned
    PROVE  Money'
<1>1. Committed' \subseteq Committed
  BY DEF Committed, Asks
<1>2. AmountsKept'
  BY DEF Money, AmountsKept, Busy, Asking, Told
<1> QED
  BY <1>1, <1>2, NothingCommitted

LEMMA ReadsMoney ==
    ASSUME Money, TypeOK', IInv', OneAtATime, NEW p \in Payers, PayerReads(p)
    PROVE  Money'
<1>1. /\ payer[p].pc = "idle"
      /\ payer' = [payer EXCEPT ![p].pc = "read", ![p].amount = Available - FeeOf(p)]
      /\ UNCHANGED <<payouts, bank, hooks, earned>>
  BY DEF PayerReads
<1>2. payer[p] \in Payer /\ payer'[p].pc = "read" /\ payer'[p].amount = Available - FeeOf(p)
  BY <1>1 DEF Money, TypeOK, Payer
<1>3. \A q \in Payers : q = p
  BY DEF OneAtATime
<1>4. Committed' = Committed
  BY <1>1, <1>2, <1>3 DEF Committed, Asks
<1>5. \A q \in Payers : ~Busy(q)'
  BY <1>2, <1>3 DEF Busy, Asking, Told
<1>6. AmountsKept'
  BY <1>1, <1>5 DEF Money, AmountsKept
<1>7. /\ Total(Committed)' \in Nat /\ Total(Committed) \in Nat
      /\ Total(Committed)' <= Total(Committed)
  BY <1>1, <1>4, CommittedShrinks DEF Money
<1>8. Total(Committed) <= Total(Reserved) /\ Total(Reserved) \in Nat
  BY CommittedReserved, TotalGrows, TotalOfWeights DEF Money
<1>9. FeeOf(p) \in Nat /\ earned \in Nat
  BY ConstantsOK DEF FeeOf, Money, TypeOK
<1>10. Total(Committed)' + payer'[p].amount <= earned' /\ Total(Committed)' <= earned'
  BY <1>1, <1>2, <1>7, <1>8, <1>9 DEF Available, Money, Covered
<1>11. payer'[p].amount > 0
  <2>1. Available \in Int /\ MinPayout \in Nat /\ MinPayout > 0
    BY <1>8, <1>9, ConstantsOK DEF Available
  <2> QED
    BY <1>2, <1>9, <2>1 DEF PayerReads
<1> QED
  BY <1>3, <1>6, <1>10, <1>11 DEF Money, Covered

LEMMA CreatesMoney ==
    ASSUME Money, TypeOK', IInv', OneAtATime, NEW p \in Payers, PayerCreates(p)
    PROVE  Money'
<1> DEFINE new == [status |-> "pending", amount |-> payer[p].amount, ref |-> FALSE]
<1>1. PICK i \in Ids :
        /\ payouts[i].status = "none"
        /\ payouts' = [payouts EXCEPT ![i] = new]
        /\ payer' = [payer EXCEPT ![p] = [@ EXCEPT !.pc = "created", !.id = i, !.entity = new]]
  BY DEF PayerCreates
<1>2. payer[p].pc = "read" /\ UNCHANGED <<bank, hooks, earned>>
  BY DEF PayerCreates
<1>3. /\ payer[p] \in Payer /\ payer[p].amount \in Nat
      /\ payer'[p].pc = "created" /\ payer'[p].id = i /\ payer'[p].entity = new
      /\ payouts'[i] = new /\ \A j \in Ids \ {i} : payouts'[j] = payouts[j]
  BY <1>1 DEF Money, TypeOK, Payer
<1>4. new.amount = payer[p].amount
  OBVIOUS
<1> HIDE DEF new
<1>5. \A q \in Payers : q = p
  BY DEF OneAtATime
<1>6. bank[i] = "none"
  BY <1>1 DEF Money, IInv, RowOK
<1>7. i \notin Committed /\ Committed' = Committed \cup {i}
  BY <1>2, <1>3, <1>5, <1>6 DEF Committed, Asks
<1>8. AmountsKept'
  <2>1. \A h \in hooks : h.id \in Ids \ {i}
    BY <1>6 DEF Money, IInv, HookOK, Shape, IsHook
  <2> QED
    BY <1>2, <1>3, <1>5, <2>1 DEF Money, AmountsKept
<1>9. Total(Committed)' = Total(Committed) + payer[p].amount
  BY <1>3, <1>4, <1>7, TotalJoins DEF Money
<1>10. Total(Committed) \in Nat
  BY TotalOfWeights DEF Money
<1>11. Covered'
  BY <1>2, <1>3, <1>5, <1>9, <1>10 DEF Money, Covered
<1> QED
  BY <1>8, <1>11 DEF Money

\* The other steps of a call: the transfer is answered, the entity is saved.
LEMMA CallMoney ==
    ASSUME Money, TypeOK', IInv', OneAtATime, NEW p \in Payers,
           \/ TransferAccepted(p) \/ TransferFails(p) \/ PayerSaves(p)
           \/ PayerReturns(p) \/ PayerBackfills(p)
    PROVE  Money'
<1>1. UNCHANGED <<hooks, earned>>
  BY DEF TransferAccepted, TransferFails, PayerSaves, PayerReturns, PayerBackfills
<1>2. \A q \in Payers : q = p
  BY DEF OneAtATime
<1>3. payer[p] \in Payer /\ Busy(p) /\ payer[p].id \in Ids
      /\ payer[p].entity \in Payout /\ payouts[payer[p].id] \in Payout
      /\ payer[p].entity.amount = payouts[payer[p].id].amount
  <2>1. Busy(p)
    BY DEF TransferAccepted, TransferFails, PayerSaves, PayerReturns, PayerBackfills,
       Busy, Asking, Told
  <2>2. payer[p].id \in Ids
    BY <2>1, AtWork DEF Money
  <2> QED
    BY <2>1, <2>2 DEF Money, TypeOK, Payer, AmountsKept
<1>4. PICK i \in Ids : i = payer[p].id
  BY <1>3
<1>5. CASE TransferAccepted(p) \/ TransferFails(p)
  <2>1. /\ payer[p].pc = "created" /\ UNCHANGED payouts
        /\ payer'[p].id = i /\ payer'[p].pc \in {"accepted", "refused"}
        /\ payer'[p].entity = payer[p].entity
        /\ \A j \in Ids \ {i} : bank'[j] = bank[j]
    BY <1>3, <1>4, <1>5 DEF TransferAccepted, TransferFails, Money, TypeOK, Payer
  <2>2. Committed' \subseteq Committed
    BY <1>2, <1>4, <2>1 DEF Committed, Asks
  <2>3. AmountsKept'
    BY <1>1, <1>2, <1>3, <1>4, <2>1 DEF Money, AmountsKept
  <2> QED
    BY <1>1, <1>2, <2>1, <2>2, <2>3, NothingCommitted DEF Money, TypeOK
<1>6. CASE PayerSaves(p)
  <2>1. PICK e \in Outcomes(p) :
          /\ payouts' = [payouts EXCEPT ![i] = e]
          /\ payer' = [payer EXCEPT ![p].pc = "rollup", ![p].entity = e]
    BY <1>4, <1>6 DEF PayerSaves
  <2>2. e.amount = payer[p].entity.amount
    BY <1>3, <2>1 DEF Outcomes, Payout
  <2>3. /\ payer'[p].pc = "rollup" /\ payer'[p].id = i /\ payer'[p].entity = e
        /\ UNCHANGED bank
        /\ payouts'[i] = e /\ \A j \in Ids \ {i} : payouts'[j] = payouts[j]
    BY <1>3, <1>4, <1>6, <2>1 DEF PayerSaves, Money, TypeOK, Payer
  <2>4. \A j \in Ids : payouts'[j].amount = payouts[j].amount
    BY <1>3, <1>4, <2>2, <2>3
  <2>5. Committed' \subseteq Committed
    BY <1>2, <2>3 DEF Committed, Asks
  <2>6. AmountsKept'
    BY <1>1, <1>2, <2>3, <2>4 DEF Money, AmountsKept, IInv, Shape, IsHook
  <2> QED
    BY <1>1, <1>2, <2>3, <2>4, <2>5, <2>6, NothingCommitted DEF Money, TypeOK
<1>7. CASE PayerReturns(p) \/ PayerBackfills(p)
  <2>1. /\ UNCHANGED bank /\ payer'[p].pc \in {"backfill", "idle"}
        /\ payer'[p].pc = "backfill" => payer'[p].id = i /\ payer'[p].entity = payer[p].entity
    BY <1>3, <1>4, <1>7 DEF PayerReturns, PayerBackfills, Money, TypeOK, Payer, IdlePayer
  <2>2. \A j \in Ids : payouts'[j].amount = payouts[j].amount
    BY <1>3, <1>4, <1>7 DEF PayerReturns, PayerBackfills, Money, TypeOK
  <2>3. Committed' \subseteq Committed
    BY <1>2, <2>1 DEF Committed, Asks
  <2>4. Busy(p)' => payer'[p].pc = "backfill"
    BY <2>1 DEF Busy, Asking, Told
  <2>5. AmountsKept'
    BY <1>1, <1>2, <1>3, <1>4, <2>1, <2>2, <2>4 DEF Money, AmountsKept, IInv, Shape, IsHook
  <2> QED
    BY <1>1, <1>2, <2>1, <2>2, <2>3, <2>5, NothingCommitted DEF Money, TypeOK
<1> QED
  BY <1>5, <1>6, <1>7

LEMMA HookMoney ==
    ASSUME Money, TypeOK', IInv', NEW h \in hooks, HookSaves(h)
    PROVE  Money'
<1>1. h.stage = "found" /\ hooks' = hooks \ {h} /\ UNCHANGED <<earned, bank, payer>>
  BY DEF HookSaves
<1>2. h.id \in Ids /\ h.entity \in Payout /\ h.entity.amount = payouts[h.id].amount
  BY <1>1 DEF Money, TypeOK, Hook, AmountsKept
<1>3. \A j \in Ids : payouts'[j].amount = payouts[j].amount
  BY <1>2 DEF HookSaves, Money, TypeOK, Payout
<1>4. Committed' \subseteq Committed
  BY <1>1 DEF Committed, Asks
<1>5. \A p \in Payers : Busy(p) => payer[p].id \in Ids
  BY AtWork DEF Money
<1>6. AmountsKept'
  BY <1>1, <1>3, <1>5 DEF Money, AmountsKept, Busy, Asking, Told, IInv, Shape, IsHook
<1> QED
  BY <1>1, <1>3, <1>4, <1>6, NothingCommitted DEF Money, TypeOK

(***************************************************************************)
(* The ledger: every step maps to a step of PayoutLedger, or to none       *)
(***************************************************************************)

\* What the mapping rests on, before and after a step.
LedgerFacts == Money /\ TypeOK' /\ IInv' /\ OneAtATime

LEMMA AsksUnsent == ASSUME IInv, NEW i \in Ids, Asks(i)
                    PROVE  bank[i] = "none" /\ payouts[i].status = "pending"
BY DEF IInv, Owns, Asking, Asks

ByPhase == {i \in Ids : PhaseOf(i) \in {"claimed", "asked", "sent"}}

LEMMA CommittedPhases == TypeOK /\ IInv => Committed = ByPhase
<1> SUFFICES ASSUME TypeOK, IInv PROVE Committed = ByPhase
  OBVIOUS
<1>1. ASSUME NEW i \in Ids PROVE i \in Committed <=> PhaseOf(i) \in {"claimed", "asked", "sent"}
  <2>1. bank[i] \in {"none", "accepted", "sent", "returned"}
    BY DEF TypeOK
  <2> QED
    BY <2>1, AsksUnsent DEF Committed, PhaseOf
<1> QED
  BY <1>1 DEF Committed, ByPhase

LEMMA CommittedPhasesNext == TypeOK' /\ IInv' => Committed' = ByPhase'
<1>1. (TypeOK /\ IInv => Committed = ByPhase)'
  BY CommittedPhases, PTL
<1> QED
  BY <1>1

LEMMA PhaseStays ==
    ASSUME NEW i \in Ids, bank'[i] = bank[i], Asks(i)' <=> Asks(i),
           payouts'[i].status = "none" <=> payouts[i].status = "none"
    PROVE  PhaseOf(i)' = PhaseOf(i)
BY DEF PhaseOf

LEMMA CommittedStays ==
    ASSUME Committed' = Committed, \A i \in Ids : payouts'[i].amount = payouts[i].amount
    PROVE  Total(Committed)' = Total(Committed)
<1>1. WeightOf(Committed)' = WeightOf(Committed)
  BY DEF WeightOf
<1>2. Total(Committed) = Sums(WeightOf(Committed))[MaxPayouts]
  BY DEF Total, WeightOf
<1>3. Total(Committed)' = Sums(WeightOf(Committed)')[MaxPayouts]
  BY DEF Total, WeightOf, Sums
<1> QED
  BY <1>1, <1>2, <1>3

\* A step that the ledger does not see.
LEMMA LedgerRests ==
    ASSUME LedgerFacts, earned' = earned, UNCHANGED <<bank, payouts>>,
           \A i \in Ids : Asks(i)' <=> Asks(i)
    PROVE  UNCHANGED Ledger!lvars
<1>1. Phases' = Phases
  BY PhaseStays DEF Phases
<1>2. Amounts' = Amounts /\ Tellings' = Tellings
  BY DEF Amounts, Tellings, ToldOf
<1>3. Total(Committed)' = Total(Committed)
  BY CommittedStays DEF Committed
<1> QED
  BY <1>1, <1>2, <1>3 DEF Ledger!lvars

\* A save of a row: whoever saves it, what it says is true.
LEMMA LedgerTells ==
    ASSUME LedgerFacts, NEW i \in Ids, earned' = earned, UNCHANGED bank,
           \A j \in Ids : Asks(j)' <=> Asks(j),
           \A j \in Ids \ {i} : payouts'[j] = payouts[j],
           payouts'[i].amount = payouts[i].amount,
           payouts'[i].status # "none", payouts[i].status # "none"
    PROVE  Ledger!Tell(i)
<1>1. Phases' = Phases
  BY PhaseStays DEF Phases
<1>2. Amounts' = Amounts
  BY DEF Amounts
<1>3. Total(Committed)' = Total(Committed)
  BY CommittedStays DEF Committed
<1>4. Tellings' = [Tellings EXCEPT ![i] = ToldOf(i)']
  BY DEF Tellings, ToldOf
<1>5. ToldOf(i)' \in Ledger!Truths(i)
  <2>1. bank[i] \in {"none", "accepted", "sent", "returned"}
    BY DEF LedgerFacts, Money, TypeOK
  <2>2. /\ payouts'[i].status = "paid" => bank[i] \in {"sent", "returned"}
        /\ payouts'[i].status = "failed" => bank[i] \in {"none", "returned"} /\ ~Asks(i)
    <3>1. Asks(i)' => payouts'[i].status = "pending"
      BY DEF LedgerFacts, IInv, Owns, Asking, Asks
    <3> QED
      BY <3>1 DEF LedgerFacts, OneAtATime, IInv, RowOK, Truthful
  <2>3. Phases[i] = PhaseOf(i)
    BY DEF Phases
  <2> QED
    BY <2>1, <2>2, <2>3 DEF ToldOf, PhaseOf, Ledger!Truths
<1> QED
  BY <1>1, <1>2, <1>3, <1>4, <1>5 DEF Ledger!Tell

\* A step that moves one payout's money and changes no row.
LEMMA LedgerMoves ==
    ASSUME LedgerFacts, NEW i \in Ids, earned' = earned, UNCHANGED payouts,
           \A j \in Ids \ {i} : bank'[j] = bank[j] /\ (Asks(j)' <=> Asks(j))
    PROVE  /\ Phases' = [Phases EXCEPT ![i] = PhaseOf(i)']
           /\ Phases[i] = PhaseOf(i)
           /\ Amounts' = Amounts /\ Tellings' = Tellings
           /\ earned - Total(Committed) \in Int
           /\ PhaseOf(i) \in {"claimed", "asked"} /\ PhaseOf(i)' \in {"asked", "sent"}
                  => Total(Committed)' = Total(Committed)
           /\ PhaseOf(i) \in {"claimed", "asked", "sent"} /\ PhaseOf(i)' \in {"refused", "returned"}
                  => earned' - Total(Committed)' = earned - Total(Committed) + Amounts[i]
<1>1. \A j \in Ids \ {i} : PhaseOf(j)' = PhaseOf(j)
  BY PhaseStays
<1>2. Phases' = [Phases EXCEPT ![i] = PhaseOf(i)'] /\ Phases[i] = PhaseOf(i)
  BY <1>1 DEF Phases
<1>3. Amounts' = Amounts /\ Tellings' = Tellings /\ Amounts[i] = payouts[i].amount
  BY DEF Amounts, Tellings, ToldOf
<1>4. /\ Committed = {j \in Ids : PhaseOf(j) \in {"claimed", "asked", "sent"}}
      /\ Committed' = {j \in Ids : PhaseOf(j)' \in {"claimed", "asked", "sent"}}
  BY CommittedPhases, CommittedPhasesNext DEF LedgerFacts, Money, ByPhase
<1>5. /\ Total(Committed) \in Nat /\ Total(Committed)' \in Nat
      /\ earned \in Int /\ payouts[i].amount \in Int
  <2>1. Total(Committed) \in Nat
    BY TotalOfWeights DEF LedgerFacts, Money
  <2>2. Total(Committed)' \in Nat
    BY WeightsNext, SumsDefined, MaxPayoutsNat DEF LedgerFacts
  <2> QED
    BY <2>1, <2>2 DEF LedgerFacts, Money, TypeOK, Payout
<1>6. ASSUME PhaseOf(i) \in {"claimed", "asked"}, PhaseOf(i)' \in {"asked", "sent"}
      PROVE  Total(Committed)' = Total(Committed)
  <2>1. Committed' = Committed
    BY <1>1, <1>4, <1>6
  <2> QED
    BY <2>1, CommittedStays
<1>7. ASSUME PhaseOf(i) \in {"claimed", "asked", "sent"}, PhaseOf(i)' \in {"refused", "returned"}
      PROVE  earned' - Total(Committed)' = earned - Total(Committed) + Amounts[i]
  <2>1. i \in Committed /\ Committed' = Committed \ {i}
    BY <1>1, <1>4, <1>7
  <2>2. Total(Committed) = Total(Committed)' + payouts[i].amount
    BY <2>1, TotalLeaves DEF LedgerFacts, Money
  <2> QED
    BY <1>3, <1>5, <2>2
<1> QED
  BY <1>2, <1>3, <1>5, <1>6, <1>7

LEMMA LedgerClaims ==
    ASSUME LedgerFacts, NEW p \in Payers, PayerCreates(p)
    PROVE  \E i \in Ids : Ledger!Claim(i)
<1> DEFINE new == [status |-> "pending", amount |-> payer[p].amount, ref |-> FALSE]
<1>1. PICK i \in Ids :
        /\ payouts[i].status = "none"
        /\ payouts' = [payouts EXCEPT ![i] = new]
        /\ payer' = [payer EXCEPT ![p] = [@ EXCEPT !.pc = "created", !.id = i, !.entity = new]]
  BY DEF PayerCreates
<1>2. payer[p].pc = "read" /\ UNCHANGED <<bank, earned>>
  BY DEF PayerCreates
<1>3. /\ payer[p].amount \in Nat
      /\ payer'[p].pc = "created" /\ payer'[p].id = i
      /\ payouts'[i] = new /\ \A j \in Ids \ {i} : payouts'[j] = payouts[j]
  BY <1>1 DEF LedgerFacts, Money, TypeOK, Payer
<1>4. new.amount = payer[p].amount /\ new.status = "pending"
  OBVIOUS
<1> HIDE DEF new
<1>5. \A q \in Payers : q = p
  BY DEF LedgerFacts, OneAtATime
<1>6. bank[i] = "none"
  BY <1>1 DEF LedgerFacts, Money, IInv, RowOK
<1>7. (\A j \in Ids : ~Asks(j)) /\ Asks(i)' /\ \A j \in Ids \ {i} : ~Asks(j)'
  BY <1>2, <1>3, <1>5 DEF Asks
<1>8. i \notin Committed /\ Committed' = Committed \cup {i}
  BY <1>2, <1>6, <1>7 DEF Committed
<1>9. Total(Committed)' = Total(Committed) + payer[p].amount /\ Total(Committed) \in Nat
  BY <1>3, <1>4, <1>8, TotalJoins, TotalOfWeights DEF LedgerFacts, Money
<1>10. earned \in Nat /\ payer[p].amount > 0 /\ Total(Committed) + payer[p].amount <= earned
  BY <1>2 DEF LedgerFacts, Money, TypeOK, Covered
<1>11. PhaseOf(i) = "free" /\ PhaseOf(i)' = "claimed"
  BY <1>1, <1>2, <1>6, <1>7 DEF PhaseOf
<1>12. \A j \in Ids \ {i} : PhaseOf(j)' = PhaseOf(j)
  BY <1>2, <1>3, <1>7, PhaseStays
<1>13. Phases[i] = "free" /\ Phases' = [Phases EXCEPT ![i] = "claimed"]
  BY <1>11, <1>12 DEF Phases
<1>14. Amounts' = [Amounts EXCEPT ![i] = payer[p].amount]
  BY <1>3, <1>4 DEF Amounts
<1>15. Tellings' = Tellings
  BY <1>1, <1>3, <1>4 DEF Tellings, ToldOf
<1>16. /\ payer[p].amount \in 1..(earned - Total(Committed))
       /\ earned' - Total(Committed)' = (earned - Total(Committed)) - payer[p].amount
  BY <1>2, <1>3, <1>9, <1>10
<1> QED
  BY <1>13, <1>14, <1>15, <1>16 DEF Ledger!Claim, Ledger!Move

LEMMA LedgerAnswers ==
    ASSUME LedgerFacts, NEW p \in Payers, TransferAccepted(p) \/ TransferFails(p)
    PROVE  \E i \in Ids : Ledger!Ask(i) \/ Ledger!GiveBack(i)
<1>1. PICK i \in Ids : i = payer[p].id
  BY AtWork DEF LedgerFacts, Money, Busy, Asking, TransferAccepted, TransferFails
<1>2. /\ payer[p].pc = "created" /\ payer'[p].pc # "created" /\ UNCHANGED <<earned, payouts>>
      /\ \A j \in Ids \ {i} : bank'[j] = bank[j]
  BY <1>1 DEF TransferAccepted, TransferFails, LedgerFacts, Money, TypeOK, Payer
<1>3. \A q \in Payers : q = p
  BY DEF LedgerFacts, OneAtATime
<1>4. Asks(i) /\ bank[i] = "none" /\ payouts[i].status = "pending" /\ \A j \in Ids : ~Asks(j)'
  BY <1>1, <1>2, <1>3, AsksUnsent DEF Asks, LedgerFacts, Money
<1>5. \A j \in Ids \ {i} : ~Asks(j)
  BY <1>1, <1>3 DEF Asks
<1>6. PhaseOf(i) = "claimed"
  BY <1>4 DEF PhaseOf
<1>7. CASE TransferAccepted(p)
  <2>1. bank'[i] = "accepted"
    BY <1>1, <1>7 DEF TransferAccepted, LedgerFacts, Money, TypeOK
  <2>2. PhaseOf(i)' = "asked"
    BY <2>1 DEF PhaseOf
  <2> QED
    BY <1>2, <1>4, <1>5, <1>6, <2>2, LedgerMoves DEF Ledger!Ask, Ledger!Move
<1>8. CASE TransferFails(p)
  <2>1. UNCHANGED bank
    BY <1>8 DEF TransferFails, LedgerFacts, OneAtATime
  <2>2. PhaseOf(i)' = "refused"
    BY <1>2, <1>4, <2>1 DEF PhaseOf
  <2> QED
    BY <1>2, <1>4, <1>5, <1>6, <2>2, LedgerMoves DEF Ledger!GiveBack, Ledger!Move
<1> QED
  BY <1>7, <1>8

LEMMA LedgerBank ==
    ASSUME LedgerFacts, NEW i \in Ids, BankSends(i) \/ BankReturns(i)
    PROVE  Ledger!Land(i) \/ Ledger!GiveBack(i)
<1>1. UNCHANGED <<earned, payouts, payer>> /\ \A j \in Ids \ {i} : bank'[j] = bank[j]
  BY DEF BankSends, BankReturns, LedgerFacts, Money, TypeOK
<1>2. \A j \in Ids : Asks(j)' <=> Asks(j)
  BY <1>1 DEF Asks
<1>3. CASE BankSends(i)
  <2>1. bank[i] = "accepted" /\ bank'[i] = "sent"
    BY <1>3 DEF BankSends, LedgerFacts, Money, TypeOK
  <2>2. PhaseOf(i) = "asked" /\ PhaseOf(i)' = "sent"
    BY <2>1 DEF PhaseOf
  <2> QED
    BY <1>1, <1>2, <2>2, LedgerMoves DEF Ledger!Land, Ledger!Move
<1>4. CASE BankReturns(i)
  <2>1. bank[i] \in {"accepted", "sent"} /\ bank'[i] = "returned"
    BY <1>4 DEF BankReturns, LedgerFacts, Money, TypeOK
  <2>2. PhaseOf(i) \in {"asked", "sent"} /\ PhaseOf(i)' = "returned"
    BY <2>1 DEF PhaseOf
  <2> QED
    BY <1>1, <1>2, <2>2, LedgerMoves DEF Ledger!GiveBack, Ledger!Move
<1> QED
  BY <1>3, <1>4

\* The call saves its row, and the instant request saves it again.
LEMMA LedgerCall ==
    ASSUME LedgerFacts, NEW p \in Payers, PayerSaves(p) \/ PayerReturns(p) \/ PayerBackfills(p)
    PROVE  UNCHANGED Ledger!lvars \/ \E i \in Ids : Ledger!Tell(i)
<1>1. payer[p] \in Payer /\ payer[p].pc # "created"
  BY DEF LedgerFacts, Money, TypeOK, PayerSaves, PayerReturns, PayerBackfills
<1>2. payer'[p].pc # "created" /\ UNCHANGED <<bank, earned>>
  BY <1>1 DEF PayerSaves, PayerReturns, PayerBackfills, LedgerFacts, Money, TypeOK, Payer,
     IdlePayer
<1>3. \A j \in Ids : Asks(j)' <=> Asks(j)
  BY <1>1, <1>2 DEF Asks, LedgerFacts, OneAtATime
<1>4. CASE PayerReturns(p)
  BY <1>2, <1>3, <1>4, LedgerRests DEF PayerReturns
<1>5. CASE PayerSaves(p) \/ PayerBackfills(p)
  <2>1. Busy(p) /\ payer[p].id \in Ids /\ payer[p].entity.amount = payouts[payer[p].id].amount
    <3>1. Busy(p)
      BY <1>5 DEF PayerSaves, PayerBackfills, Busy, Asking, Told
    <3> QED
      BY <3>1, AtWork DEF LedgerFacts, Money, AmountsKept
  <2>2. PICK i \in Ids : i = payer[p].id
    BY <2>1
  <2>3. PICK e \in Outcomes(p) \cup {payer[p].entity} : payouts' = [payouts EXCEPT ![i] = e]
    BY <1>5, <2>2 DEF PayerSaves, PayerBackfills
  <2>4. e.amount = payouts[i].amount
    <3>1. payer[p].entity \in Payout
      BY <1>1 DEF Payer
    <3> QED
      BY <2>1, <2>2, <2>3, <3>1 DEF Outcomes, Payout
  <2>5. payouts'[i] = e /\ \A j \in Ids \ {i} : payouts'[j] = payouts[j]
    BY <2>3 DEF LedgerFacts, Money, TypeOK
  <2>6. payouts[i].status # "none" /\ payouts'[i].status # "none"
    <3>1. payouts[i].status # "none"
      BY <2>1, <2>2 DEF LedgerFacts, Money, IInv, Owns
    <3>2. CASE PayerBackfills(p)
      <4>1. Told(p) /\ payouts'[i] = payer[p].entity
        BY <2>2, <3>2 DEF PayerBackfills, Told, LedgerFacts, Money, TypeOK
      <4> QED
        BY <3>1, <4>1 DEF LedgerFacts, Money, IInv, Owns
    <3>3. CASE PayerSaves(p)
      <4>1. payer'[p].pc = "rollup" /\ payer'[p].id = i
        <5>1. PICK out \in Outcomes(p) :
                payer' = [payer EXCEPT ![p].pc = "rollup", ![p].entity = out]
          BY <3>3 DEF PayerSaves
        <5> QED
          BY <1>1, <2>2, <5>1 DEF LedgerFacts, Money, TypeOK, Payer
      <4> QED
        BY <3>1, <4>1 DEF LedgerFacts, IInv, Owns, Busy, Told
    <3> QED
      BY <1>5, <3>2, <3>3
  <2> QED
    BY <1>2, <1>3, <2>4, <2>5, <2>6, LedgerTells
<1> QED
  BY <1>4, <1>5

LEMMA LedgerHook ==
    ASSUME LedgerFacts, NEW h \in hooks, HookSaves(h)
    PROVE  UNCHANGED Ledger!lvars \/ \E i \in Ids : Ledger!Tell(i)
<1>1. h.stage = "found" /\ UNCHANGED <<earned, bank, payer>>
  BY DEF HookSaves
<1>2. \A j \in Ids : Asks(j)' <=> Asks(j)
  BY <1>1 DEF Asks
<1>3. h.id \in Ids /\ h.entity \in Payout /\ h.entity.amount = payouts[h.id].amount
  BY <1>1 DEF LedgerFacts, Money, TypeOK, Hook, AmountsKept
<1>4. payouts[h.id].status # "none"
  BY <1>3 DEF LedgerFacts, Money, IInv, HookOK, RowOK
<1>5. CASE h.entity.status = HookStatus(h)
  BY <1>1, <1>2, <1>5, LedgerRests DEF HookSaves
<1>6. CASE h.entity.status # HookStatus(h)
  <2> DEFINE e == [h.entity EXCEPT !.status = HookStatus(h)]
  <2>1. e.amount = h.entity.amount /\ e.status \in {"paid", "failed"}
    BY <1>3 DEF HookStatus, Payout
  <2>2. payouts' = [payouts EXCEPT ![h.id] = e]
    BY <1>6 DEF HookSaves
  <2> HIDE DEF e
  <2>3. payouts'[h.id] = e /\ \A j \in Ids \ {h.id} : payouts'[j] = payouts[j]
    BY <1>3, <2>2 DEF LedgerFacts, Money, TypeOK
  <2>4. Ledger!Tell(h.id)
    BY <1>1, <1>2, <1>3, <1>4, <2>1, <2>3, LedgerTells
  <2> QED
    BY <1>3, <2>4
<1> QED
  BY <1>5, <1>6

LEMMA LedgerInit == Init => Ledger!Init
<1> SUFFICES ASSUME Init PROVE Ledger!Init
  OBVIOUS
<1>1. \A i \in Ids : ~Asks(i) /\ bank[i] = "none" /\ payouts[i] = NoPayout
  BY DEF Init, Asks, IdlePayer
<1>2. Phases = [i \in Ids |-> "free"]
  BY <1>1 DEF Phases, PhaseOf, NoPayout
<1>3. Amounts = [i \in Ids |-> 0] /\ Tellings = [i \in Ids |-> "open"]
  BY <1>1 DEF Amounts, Tellings, ToldOf, NoPayout
<1>4. earned - Total(Committed) = 0
  <2>1. Money /\ TypeOK
    BY InitMoney, InitTypeOK
  <2>2. Total(Committed) \in Nat /\ Total(Committed) <= earned
    BY <2>1, TotalOfWeights DEF Money, Covered
  <2> QED
    BY <2>2 DEF Init
<1> QED
  BY <1>2, <1>3, <1>4 DEF Ledger!Init

LEMMA LedgerStep ==
    ASSUME LedgerFacts, [Next]_vars
    PROVE  [Ledger!Next]_(Ledger!lvars)
<1>1. CASE Earn /\ earned' # earned
  <2>1. UNCHANGED <<payouts, bank, payer>> /\ earned' = earned + 1
    BY <1>1 DEF Earn
  <2>2. \A i \in Ids : Asks(i)' <=> Asks(i)
    BY <2>1 DEF Asks
  <2>3. Phases' = Phases /\ Amounts' = Amounts /\ Tellings' = Tellings
    BY <2>1, <2>2, PhaseStays DEF Phases, Amounts, Tellings, ToldOf
  <2>4. Total(Committed)' = Total(Committed)
    BY <2>1, <2>2, CommittedStays DEF Committed
  <2>5. Total(Committed) \in Nat /\ earned \in Nat
    BY TotalOfWeights DEF LedgerFacts, Money, TypeOK
  <2>6. earned' - Total(Committed)' = (earned - Total(Committed)) + 1
    BY <2>1, <2>4, <2>5
  <2> QED
    BY <2>3, <2>6 DEF Ledger!Next, Ledger!Earn
<1>2. ASSUME NEW p \in Payers, PayerReads(p) PROVE UNCHANGED Ledger!lvars
  <2>1. payer[p].pc = "idle" /\ payer'[p].pc = "read" /\ UNCHANGED <<payouts, bank, earned>>
    BY <1>2 DEF PayerReads, LedgerFacts, Money, TypeOK, Payer
  <2>2. \A j \in Ids : Asks(j)' <=> Asks(j)
    BY <2>1 DEF Asks, LedgerFacts, OneAtATime
  <2> QED
    BY <2>1, <2>2, LedgerRests
<1>3. ASSUME NEW p \in Payers, PayerStep(p) PROVE [Ledger!Next]_(Ledger!lvars)
  BY <1>3, LedgerClaims, LedgerAnswers, LedgerCall DEF PayerStep, Ledger!Next
<1>4. ASSUME NEW i \in Ids, BankSends(i) \/ BankReturns(i) PROVE Ledger!Next
  BY <1>4, LedgerBank DEF Ledger!Next
<1>5. CASE \/ HookStep \/ (\E h \in hooks : HookRepeated(h)) \/ BalanceStep
           \/ (Earn /\ earned' = earned) \/ Reverse \/ UNCHANGED vars
  <2>1. ASSUME NEW h \in hooks, HookSaves(h) PROVE [Ledger!Next]_(Ledger!lvars)
    BY <2>1, LedgerHook DEF Ledger!Next
  <2>2. CASE UNCHANGED <<earned, payouts, bank, payer>>
    BY <2>2, LedgerRests DEF Asks
  <2> QED
    BY <1>5, <2>1, <2>2 DEF HookStep, HookFinds, HookRepeated, BalanceStep, BalanceRead,
       BalanceSave, Earn, Reverse, vars
<1> QED
  BY <1>1, <1>2, <1>3, <1>4, <1>5 DEF Next

(***************************************************************************)
(* The theorems                                                            *)
(***************************************************************************)

LEMMA NextIInv == IInv /\ [Next]_vars => IInv'
<1> SUFFICES ASSUME IInv, [Next]_vars PROVE IInv'
  OBVIOUS
<1>1. CASE Earn \/ Reverse \/ BalanceStep \/ UNCHANGED vars
  BY <1>1, Apart DEF Earn, Reverse, BalanceStep, BalanceRead, BalanceSave, vars
<1>2. ASSUME NEW p \in Payers, PayerReads(p) \/ PayerStep(p) PROVE IInv'
  BY <1>2, PayerReadsStep, PayerCreatesStep, TransferStep, PayerSavesStep, PayerReturnsStep,
     PayerBackfillsStep DEF PayerStep
<1>3. ASSUME NEW i \in Ids, BankSends(i) \/ BankReturns(i) PROVE IInv'
  BY <1>3, BankStep
<1>4. ASSUME NEW h \in hooks, HookRepeated(h) \/ HookFinds(h) \/ HookSaves(h) PROVE IInv'
  BY <1>4, HookRepeatedStep, HookFindsStep, HookSavesStep
<1> QED
  BY <1>1, <1>2, <1>3, <1>4 DEF Next, HookStep

LEMMA NextMoney == OneAtATime /\ Money /\ [Next]_vars => Money'
<1> SUFFICES ASSUME OneAtATime, Money, [Next]_vars PROVE Money'
  OBVIOUS
<1>1. TypeOK' /\ IInv'
  BY NextTypeOK, NextIInv DEF Money
<1>2. earned \in Int
  BY DEF Money, TypeOK
<1>3. ASSUME NEW p \in Payers, PayerReads(p) \/ PayerStep(p) PROVE Money'
  BY <1>1, <1>3, ReadsMoney, CreatesMoney, CallMoney DEF PayerStep
<1>4. CASE Earn \/ Reverse \/ BalanceStep \/ UNCHANGED vars
  <2>1. UNCHANGED <<payouts, payer, bank, hooks>> /\ earned' \in {earned, earned + 1}
    BY <1>4 DEF Earn, Reverse, BalanceStep, BalanceRead, BalanceSave, vars
  <2>2. earned' >= earned
    BY <1>2, <2>1
  <2> QED
    BY <1>1, <2>1, <2>2, CallsStay
<1>5. ASSUME NEW i \in Ids, BankSends(i) \/ BankReturns(i) PROVE Money'
  <2>1. Hook0("success", i).stage = "sent" /\ Hook0("failed", i).stage = "sent"
    BY DEF Hook0
  <2>2. UNCHANGED <<payouts, payer, earned>>
    BY <1>5 DEF BankSends, BankReturns
  <2>3. \A j \in Ids : bank'[j] \in {"accepted", "sent"} => bank[j] \in {"accepted", "sent"}
    BY <1>5 DEF BankSends, BankReturns, Money, TypeOK
  <2>4. \A h \in hooks' : h.stage = "found" => h \in hooks
    BY <1>5, <2>1 DEF BankSends, BankReturns
  <2> QED
    BY <1>1, <1>2, <2>2, <2>3, <2>4, CallsStay
<1>6. ASSUME NEW h \in hooks, HookRepeated(h) PROVE Money'
  <2> DEFINE again == [Hook0(h.type, h.id) EXCEPT !.copy = repeats + 1]
  <2>1. again.stage = "sent"
    BY DEF Hook0
  <2>2. hooks' = hooks \cup {again} /\ UNCHANGED <<payouts, payer, bank, earned>>
    BY <1>6 DEF HookRepeated
  <2> HIDE DEF again
  <2> QED
    BY <1>1, <1>2, <2>1, <2>2, CallsStay
<1>7. ASSUME NEW h \in hooks, HookFinds(h) PROVE Money'
  <2> DEFINE found == [h EXCEPT !.stage = "found", !.entity = payouts[h.id]]
  <2>1. found.entity = payouts[h.id] /\ found.id = h.id
    BY DEF Money, TypeOK, Hook
  <2>2. hooks' = (hooks \ {h}) \cup (IF FoundBy(h) THEN {found} ELSE {})
        /\ UNCHANGED <<payouts, payer, bank, earned>>
    BY <1>7 DEF HookFinds
  <2> HIDE DEF found
  <2> QED
    BY <1>1, <1>2, <2>1, <2>2, CallsStay
<1> QED
  BY <1>1, <1>3, <1>4, <1>5, <1>6, <1>7, HookMoney DEF Next, HookStep

LEMMA Invariance == Spec => []IInv
<1> QED
  BY InitIInv, NextIInv, PTL DEF Spec

LEMMA NextBooked == Booked /\ [Next]_vars => Booked'
<1> SUFFICES ASSUME Booked, [Next]_vars PROVE Booked'
  OBVIOUS
<1>1. CASE Earn
  <2>1. CASE UNCHANGED <<balance, updates, called>>
    BY <2>1, BookedApart
  <2>2. CASE /\ Rollup /\ called' = [called EXCEPT !.credits = @ + 1]
             /\ Post(<<"sale", called'.credits>>, [Zero EXCEPT !.net = 1])
    <3> DEFINE delta == [Zero EXCEPT !.net = 1]
    <3>1. delta.net = 1
      BY DEF Zero
    <3>2. /\ called'.credits = called.credits + One(Rollup /\ delta.net = 1)
          /\ called'.debits = called.debits + One(Rollup /\ delta.net = -1)
          /\ called' \in [credits: Nat, debits: Nat]
      BY <2>2, <3>1 DEF One, Booked
    <3>3. Post(<<"sale", called'.credits>>, delta)
      BY <2>2
    <3> HIDE DEF delta
    <3> QED
      BY <3>1, <3>2, <3>3, PostKeeps
  <2> QED
    BY <1>1, <2>1, <2>2 DEF Earn
<1>9. CASE Reverse
  <2> DEFINE delta == [Zero EXCEPT !.net = -1]
  <2>1. delta.net = -1
    BY DEF Zero
  <2>2. Rollup /\ called' = [called EXCEPT !.debits = @ + 1]
    BY <1>9 DEF Reverse
  <2>3. /\ called'.credits = called.credits + One(Rollup /\ delta.net = 1)
        /\ called'.debits = called.debits + One(Rollup /\ delta.net = -1)
        /\ called' \in [credits: Nat, debits: Nat]
    BY <2>1, <2>2 DEF One, Booked
  <2>4. Post(<<"reversal", called'.debits>>, delta)
    BY <1>9 DEF Reverse
  <2> HIDE DEF delta
  <2> QED
    BY <2>1, <2>3, <2>4, PostKeeps
<1>2. ASSUME NEW p \in Payers, PayerSaves(p) PROVE Booked'
  <2>1. PICK e \in Outcomes(p) : Post(<<"payer", p>>, Transition("pending", e.status, e.amount))
    BY <1>2 DEF PayerSaves
  <2> DEFINE delta == Transition("pending", e.status, e.amount)
  <2>2. delta.net = 0 /\ called' = called
    BY <1>2, TransitionNet DEF PayerSaves
  <2>3. /\ called'.credits = called.credits + One(Rollup /\ delta.net = 1)
        /\ called'.debits = called.debits + One(Rollup /\ delta.net = -1)
        /\ called' \in [credits: Nat, debits: Nat]
    BY <2>2 DEF One, Booked
  <2> HIDE DEF delta
  <2> QED
    BY <2>1, <2>2, <2>3, PostKeeps DEF delta
<1>3. ASSUME NEW h \in hooks, HookSaves(h) PROVE Booked'
  <2> DEFINE delta == Transition(h.entity.status, HookStatus(h), h.entity.amount)
  <2>1. delta.net = 0 /\ called' = called
    BY <1>3, TransitionNet DEF HookSaves
  <2>2. CASE h.entity.status # HookStatus(h)
    <3>1. Post(<<"hook", h.type, h.id, h.copy>>, delta)
      BY <1>3, <2>2 DEF HookSaves
    <3> HIDE DEF delta
    <3>2. /\ called'.credits = called.credits + One(Rollup /\ delta.net = 1)
          /\ called'.debits = called.debits + One(Rollup /\ delta.net = -1)
          /\ called' \in [credits: Nat, debits: Nat]
      BY <2>1 DEF One, Booked
    <3> QED
      BY <3>1, <2>1, <3>2, PostKeeps
  <2>3. CASE h.entity.status = HookStatus(h)
    BY <1>3, <2>3, BookedApart DEF HookSaves
  <2> QED
    BY <2>2, <2>3
<1>4. ASSUME NEW p \in Payers,
             \/ PayerReads(p) \/ PayerCreates(p) \/ TransferAccepted(p) \/ TransferFails(p)
             \/ PayerReturns(p) \/ PayerBackfills(p)
      PROVE  Booked'
  BY <1>4, BookedApart DEF PayerReads, PayerCreates, TransferAccepted, TransferFails,
     PayerReturns, PayerBackfills
<1>5. ASSUME NEW i \in Ids, BankSends(i) \/ BankReturns(i) PROVE Booked'
  BY <1>5, BookedApart DEF BankSends, BankReturns
<1>6. ASSUME NEW h \in hooks, HookRepeated(h) \/ HookFinds(h) PROVE Booked'
  BY <1>6, BookedApart DEF HookRepeated, HookFinds
<1>7. CASE BalanceStep
  BY <1>7, BalanceReadKeeps, BalanceSaveKeeps DEF BalanceStep
<1>8. CASE UNCHANGED vars
  BY <1>8, BookedApart DEF vars
<1> QED
  BY <1>1, <1>2, <1>3, <1>4, <1>5, <1>6, <1>7, <1>8, <1>9 DEF Next, PayerStep, HookStep

\* The rows, the calls, the webhooks and the rollup keep their shape; above all, an amount
\* that is read as available is never negative.
THEOREM TypeCorrect == Spec => []TypeOK
<1> QED
  BY InitTypeOK, NextTypeOK, PTL DEF Spec

\* While payouts do not overlap and every answer of the bank arrives, the shop is never sent
\* more than it earned, however the webhooks, the stale saves and the instant payout's
\* backfill interleave.
THEOREM NoOverdraftHolds ==
    ASSUME OneAtATime
    PROVE  Spec => []NoOverdraft
<1>1. Spec => []Money
  BY InitMoney, NextMoney, PTL DEF Spec
<1>2. Money => NoOverdraft
  <2> SUFFICES ASSUME Money PROVE NoOverdraft
    OBVIOUS
  <2>1. Sent \subseteq Committed
    BY DEF Sent, Committed
  <2>2. Total(Sent) <= Total(Committed) /\ Total(Sent) \in Nat /\ Total(Committed) \in Nat
    BY <2>1, TotalGrows, TotalOfWeights DEF Money
  <2>3. earned \in Int
    BY DEF Money, TypeOK
  <2> QED
    BY <2>2, <2>3 DEF Money, Covered, NoOverdraft
<1> QED
  BY <1>1, <1>2, PTL

\* The calls, with their stale saves, their repeated webhooks and their backfill, implement
\* PayoutLedger: they claim what is available, ask for it once, and give back what did not
\* arrive.
THEOREM LedgerKeptHolds ==
    ASSUME OneAtATime
    PROVE  Spec => LedgerKept
<1>1. Spec => []Money
  BY InitMoney, NextMoney, PTL DEF Spec
<1>2. Money /\ Money' /\ [Next]_vars => [Ledger!Next]_(Ledger!lvars)
  BY LedgerStep DEF LedgerFacts, Money
<1> QED
  BY LedgerInit, <1>1, <1>2, PTL DEF Spec, LedgerKept, Ledger!Spec

\* However many ticks and requests overlap, a transfer is asked for at most once for a
\* row: every call of initiatePayout writes a row of its own.
THEOREM AskedOncePerRowHolds == Spec => []AskedOncePerRow
<1>1. IInv => AskedOncePerRow
  BY DEF IInv, Owns, Asking, AskedOncePerRow
<1> QED
  BY <1>1, Invariance, PTL

\* While every answer of the bank arrives, a row says what the bank did, however many
\* calls and repeated webhooks save it over one another, in whatever order.
THEOREM RowTellsTruthHolds ==
    ASSUME "timeout" \notin Errors
    PROVE  Spec => []RowTellsTruth
<1>1. IInv => RowTellsTruth
  BY DEF IInv, RowOK, Truthful, RowTellsTruth
<1> QED
  BY <1>1, Invariance, PTL

\* However many saves of tenant_balances overlap and undo one another, whichever calls fail
\* and whether or not a Transaction stands behind them, no delta is counted twice.
THEOREM NothingCountedTwiceHolds == Spec => []NothingCountedTwice
<1>1. Spec => []Booked
  BY InitBooked, NextBooked, PTL DEF Spec
<1>2. Booked => NothingCountedTwice
  <2> SUFFICES ASSUME Booked PROVE NothingCountedTwice
    OBVIOUS
  <2>1. /\ Cardinality(Adding(updates, 1)) \in Nat
        /\ Cardinality(Adding(updates, -1)) \in Nat
    BY AddingCounted DEF Booked
  <2> QED
    BY <2>1 DEF Booked, Made, NothingCountedTwice
<1> QED
  BY <1>1, <1>2, PTL
===============================================================================
