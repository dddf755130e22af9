------------------------------- MODULE Payouts -------------------------------
(***************************************************************************)
(* Paying a shop out: the scheduled tick and the owner's instant request   *)
(* read the available balance, write a payout row and ask Paystack for a   *)
(* transfer; Paystack's webhooks settle the row; and sales, reversals and  *)
(* transitions are added to the denormalised tenant_balances row by a read *)
(* and a save, on a connection of its own.  One shop.                      *)
(***************************************************************************)
EXTENDS Integers

CONSTANTS
    Payers,       \* calls of initiatePayout that may overlap
    Instant,      \* those of them that are POST /payouts/instant
    Fee,          \* INSTANT_PAYOUT_FEE_NAIRA, in units of money
    MinPayout,    \* minPayoutAmount
    MaxPayouts,   \* bound: payout rows
    MaxEarned,    \* bound: money earned, in units
    MaxReversals, \* bound: money taken off the rollup, in units
    MaxRepeats,   \* bound: webhooks delivered once more
    Errors,       \* what a transfer call may end in: "rejected", "timeout"
    Rollup        \* FALSE: tenant_balances is not followed, in the runs whose properties
                  \* do not look at it; of these handlers none reads it back

ASSUME ConstantsOK ==
    /\ Instant \subseteq Payers
    /\ {Fee, MinPayout, MaxPayouts, MaxEarned, MaxReversals, MaxRepeats} \subseteq Nat
    /\ MinPayout > 0
    /\ Errors \subseteq {"rejected", "timeout"}
    /\ Rollup \in BOOLEAN

VARIABLES
    earned,    \* sum of the tenant's net over its Transaction rows
    payouts,   \* the payouts rows
    bank,      \* external: what Paystack did with each transfer
    payer,     \* calls in flight
    hooks,     \* transfer.* webhooks under way
    repeats,   \* webhooks repeated so far
    balance,   \* the tenant_balances row
    updates,   \* calls that are about to change it
    called     \* history: what applyTransactionDelta was called for, and did not fail

vars == <<earned, payouts, bank, payer, hooks, repeats, balance, updates, called>>

Ids == 1..MaxPayouts

\* ref: paystackTransferReference is set. "none": the row is not there yet.
Payout == [status: {"none", "pending", "processing", "paid", "failed"},
           amount: Nat, ref: BOOLEAN]
NoPayout == [status |-> "none", amount |-> 0, ref |-> FALSE]

Payer == [pc: {"idle", "read", "created", "accepted", "refused", "rollup", "backfill"},
          amount: Nat, id: 0..MaxPayouts, entity: Payout]
IdlePayer == [pc |-> "idle", amount |-> 0, id |-> 0, entity |-> NoPayout]

\* A webhook and, once its handler has found the row, the entity.
Hook == [type: {"success", "failed"}, id: Ids, copy: 0..MaxRepeats,
         stage: {"sent", "found"}, entity: Payout]

Balance == [net: Int, paid: Int, pending: Int]

\* Who changes the balance ...
Callers == {<<"sale", n>> : n \in 1..MaxEarned} \cup {<<"reversal", n>> : n \in 1..MaxReversals}
               \cup {<<"payer", p>> : p \in Payers}
               \cup {<<"hook", t, i, n>> :
                         t \in {"success", "failed"}, i \in Ids, n \in 0..MaxRepeats}

\* ... by how much, and the row once it is read.
Update == [by: Callers, delta: Balance, stage: {"call", "found"}, row: Balance]

TypeOK ==
    /\ earned \in 0..MaxEarned
    /\ payouts \in [Ids -> Payout]
    /\ bank \in [Ids -> {"none", "accepted", "sent", "returned"}]
    /\ payer \in [Payers -> Payer]
    /\ hooks \subseteq Hook
    /\ repeats \in 0..MaxRepeats
    /\ balance \in Balance
    /\ updates \subseteq Update
    /\ called \in [credits: 0..MaxEarned, debits: 0..MaxReversals]

Zero == [net |-> 0, paid |-> 0, pending |-> 0]

Init ==
    /\ earned = 0
    /\ payouts = [i \in Ids |-> NoPayout]
    /\ bank = [i \in Ids |-> "none"]
    /\ payer = [p \in Payers |-> IdlePayer]
    /\ hooks = {}
    /\ repeats = 0
    /\ balance = Zero
    /\ updates = {}
    /\ called = [credits |-> 0, debits |-> 0]

\* The sums of the first weights.
Sums(weight) ==
    LET sum[n \in 0..MaxPayouts] == IF n = 0 THEN 0 ELSE sum[n - 1] + weight[n]
    IN  sum

Total(I) == Sums([i \in Ids |-> IF i \in I THEN payouts[i].amount ELSE 0])[MaxPayouts]

(***************************************************************************)
(* The tenant_balances row                                                 *)
(***************************************************************************)

Plus(b, d) == [f \in DOMAIN b |-> b[f] + d[f]]

\* A helper is called: it will read the row and save it, changed by delta.
Post(by, delta) ==
    /\ updates' = IF Rollup
                    THEN updates \cup {[by |-> by, delta |-> delta, stage |-> "call", row |-> Zero]}
                    ELSE updates
    /\ UNCHANGED balance

\* applyPayoutTransition: what a payout that goes from one status to another adds.
Transition(from, to, amount) ==
    CASE to = "processing" /\ from # "processing" -> [Zero EXCEPT !.pending = amount]
      [] to = "paid" /\ from # "paid" ->
            [Zero EXCEPT !.paid = amount,
                         !.pending = IF from = "processing" THEN -amount ELSE 0]
      [] to = "failed" /\ from = "processing" -> [Zero EXCEPT !.pending = -amount]
      [] OTHER -> Zero

\* A job is paid, or accepted by another shop, or its difference charged.  A Transaction is
\* inserted if the customer has a wallet, and goes if the payment rolls back; and
\* applyTransactionDelta is called either way, on a connection of its own, and its failure
\* is logged and dropped.
Earn ==
    /\ \/ earned < MaxEarned /\ earned' = earned + 1
       \/ UNCHANGED earned
    /\ \/ /\ Rollup /\ called.credits < MaxEarned
          /\ called' = [called EXCEPT !.credits = @ + 1]
          /\ Post(<<"sale", called'.credits>>, [Zero EXCEPT !.net = 1])
       \/ UNCHANGED <<balance, updates, called>>
    /\ UNCHANGED <<payouts, bank, payer, hooks, repeats>>

\* An accept window that ran out, or a render cheaper than its price, takes a sale off the
\* rollup again: applyTransactionDelta of a negative amount, and no Transaction.
Reverse ==
    /\ Rollup /\ called.debits < MaxReversals
    /\ called' = [called EXCEPT !.debits = @ + 1]
    /\ Post(<<"reversal", called'.debits>>, [Zero EXCEPT !.net = -1])
    /\ UNCHANGED <<earned, payouts, bank, payer, hooks, repeats>>

\* upsertWithDelta: findOne, no lock ...
BalanceRead(u) ==
    /\ u.stage = "call"
    /\ updates' = (updates \ {u}) \cup {[u EXCEPT !.stage = "found", !.row = balance]}
    /\ UNCHANGED <<earned, called, payouts, bank, payer, hooks, repeats, balance>>

\* Mutant: the save is done twice, as a retry after a lost answer would.
BalanceSaveTwice(u) ==
    /\ u.stage = "found"
    /\ balance' = Plus(Plus(u.row, u.delta), u.delta)
    /\ updates' = updates \ {u}
    /\ UNCHANGED <<earned, called, payouts, bank, payer, hooks, repeats>>

\* ... and save.
BalanceSave(u) ==
    /\ u.stage = "found"
    /\ balance' = Plus(u.row, u.delta)
    /\ updates' = updates \ {u}
    /\ UNCHANGED <<earned, called, payouts, bank, payer, hooks, repeats>>

(***************************************************************************)
(* processDuePayouts and /payouts/instant, then initiatePayout             *)
(***************************************************************************)

\* Mutant: a transfer under way reserves nothing.
ReservedSettled == {i \in Ids : payouts[i].status \in {"pending", "paid"}}

Reserved == {i \in Ids : payouts[i].status \in {"pending", "processing", "paid"}}
Available == earned - Total(Reserved)

FeeOf(p) == IF p \in Instant THEN Fee ELSE 0

\* Mutant: the fee is forgotten in the minimum.
PayerReadsNoFee(p) ==
    /\ payer[p].pc = "idle"
    /\ Available >= MinPayout
    /\ payer' = [payer EXCEPT ![p].pc = "read", ![p].amount = Available - FeeOf(p)]
    /\ UNCHANGED <<earned, called, payouts, bank, hooks, repeats, balance, updates>>

PayerReads(p) ==
    /\ payer[p].pc = "idle"
    /\ Available >= MinPayout + FeeOf(p)
    /\ payer' = [payer EXCEPT ![p].pc = "read", ![p].amount = Available - FeeOf(p)]
    /\ UNCHANGED <<earned, called, payouts, bank, hooks, repeats, balance, updates>>

\* Mutant: a FAILED row is used again.
PayerCreatesOnFailed(p) ==
    /\ payer[p].pc = "read"
    /\ \E i \in Ids :
          LET new == [status |-> "pending", amount |-> payer[p].amount, ref |-> FALSE] IN
          /\ payouts[i].status \in {"none", "failed"}
          /\ payouts' = [payouts EXCEPT ![i] = new]
          /\ payer' = [payer EXCEPT ![p] = [@ EXCEPT !.pc = "created", !.id = i, !.entity = new]]
    /\ UNCHANGED <<earned, called, bank, hooks, repeats, balance, updates>>

PayerCreates(p) ==
    /\ payer[p].pc = "read"
    /\ \E i \in Ids :
          LET new == [status |-> "pending", amount |-> payer[p].amount, ref |-> FALSE] IN
          /\ payouts[i].status = "none"
          /\ \A n \in 1..(i - 1) : payouts[n].status # "none"
          /\ payouts' = [payouts EXCEPT ![i] = new]
          /\ payer' = [payer EXCEPT ![p] = [@ EXCEPT !.pc = "created", !.id = i, !.entity = new]]
    /\ UNCHANGED <<earned, called, bank, hooks, repeats, balance, updates>>

\* The transfer call: taken, with an answer; refused; or taken, and the answer lost.
TransferAccepted(p) ==
    /\ payer[p].pc = "created"
    /\ bank' = [bank EXCEPT ![payer[p].id] = "accepted"]
    /\ payer' = [payer EXCEPT ![p].pc = "accepted"]
    /\ UNCHANGED <<earned, called, payouts, hooks, repeats, balance, updates>>

TransferFails(p) ==
    /\ payer[p].pc = "created"
    /\ \/ "rejected" \in Errors /\ UNCHANGED bank
       \/ "timeout" \in Errors /\ bank' = [bank EXCEPT ![payer[p].id] = "accepted"]
    /\ payer' = [payer EXCEPT ![p].pc = "refused"]
    /\ UNCHANGED <<earned, called, payouts, hooks, repeats, balance, updates>>

\* Mutant: a transfer that was accepted is taken for paid.
OutcomesPaid(p) ==
    LET e == payer[p].entity IN
    IF payer[p].pc = "accepted" THEN {[e EXCEPT !.ref = TRUE, !.status = "paid"]}
                                ELSE {[e EXCEPT !.status = "failed"]}

\* What the entity becomes: PROCESSING, or PAID when the answer says success
\* already; FAILED, without a reference, when the call threw.
Outcomes(p) ==
    LET e == payer[p].entity IN
    IF payer[p].pc = "accepted"
      THEN {[e EXCEPT !.ref = TRUE, !.status = s] :
              s \in {"processing"} \cup (IF bank[payer[p].id] = "sent" THEN {"paid"} ELSE {})}
      ELSE {[e EXCEPT !.status = "failed"]}

PayerSaves(p) ==
    /\ payer[p].pc \in {"accepted", "refused"}
    /\ \E e \in Outcomes(p) :
          /\ payouts' = [payouts EXCEPT ![payer[p].id] = e]
          /\ payer' = [payer EXCEPT ![p].pc = "rollup", ![p].entity = e]
          /\ Post(<<"payer", p>>, Transition("pending", e.status, e.amount))
    /\ UNCHANGED <<earned, called, bank, hooks, repeats>>

\* The instant request goes on to record its fee; an error was thrown to it.
PayerReturns(p) ==
    /\ payer[p].pc = "rollup"
    /\ \A u \in updates : u.by # <<"payer", p>>
    /\ payer' = [payer EXCEPT ![p] =
          IF p \in Instant /\ @.entity.status # "failed" THEN [@ EXCEPT !.pc = "backfill"]
                                                         ELSE IdlePayer]
    /\ UNCHANGED <<earned, called, payouts, bank, hooks, repeats, balance, updates>>

\* It saves the entity it was given, status and all.
PayerBackfills(p) ==
    /\ payer[p].pc = "backfill"
    /\ payouts' = [payouts EXCEPT ![payer[p].id] = payer[p].entity]
    /\ payer' = [payer EXCEPT ![p] = IdlePayer]
    /\ UNCHANGED <<earned, called, bank, hooks, repeats, balance, updates>>

(***************************************************************************)
(* Paystack and its webhooks                                               *)
(***************************************************************************)

Hook0(type, i) == [type |-> type, id |-> i, copy |-> 0, stage |-> "sent", entity |-> NoPayout]

\* External. The transfer lands, or comes back at once or later.
BankSends(i) ==
    /\ bank[i] = "accepted"
    /\ bank' = [bank EXCEPT ![i] = "sent"]
    /\ hooks' = hooks \cup {Hook0("success", i)}
    /\ UNCHANGED <<earned, called, payouts, payer, repeats, balance, updates>>

BankReturns(i) ==
    /\ bank[i] \in {"accepted", "sent"}
    /\ bank' = [bank EXCEPT ![i] = "returned"]
    /\ hooks' = hooks \cup {Hook0("failed", i)}
    /\ UNCHANGED <<earned, called, payouts, payer, repeats, balance, updates>>

\* External. A webhook that is not answered in time is delivered again.
HookRepeated(h) ==
    /\ repeats < MaxRepeats
    /\ repeats' = repeats + 1
    /\ hooks' = hooks \cup {[Hook0(h.type, h.id) EXCEPT !.copy = repeats + 1]}
    /\ UNCHANGED <<earned, called, payouts, bank, payer, balance, updates>>

\* The row is looked up by its transfer reference; not found is answered 200 too.
FoundBy(h) == payouts[h.id].ref

HookFinds(h) ==
    /\ h.stage = "sent"
    /\ hooks' = (hooks \ {h}) \cup
          (IF FoundBy(h) THEN {[h EXCEPT !.stage = "found", !.entity = payouts[h.id]]} ELSE {})
    /\ UNCHANGED <<earned, called, payouts, bank, payer, repeats, balance, updates>>

HookStatus(h) == IF h.type = "success" THEN "paid" ELSE "failed"

HookSaves(h) ==
    /\ h.stage = "found"
    /\ hooks' = hooks \ {h}
    /\ IF h.entity.status # HookStatus(h)
         THEN /\ payouts' = [payouts EXCEPT ![h.id] = [h.entity EXCEPT !.status = HookStatus(h)]]
              /\ Post(<<"hook", h.type, h.id, h.copy>>,
                      Transition(h.entity.status, HookStatus(h), h.entity.amount))
         ELSE UNCHANGED <<payouts, balance, updates>>
    /\ UNCHANGED <<earned, called, bank, payer, repeats>>

(***************************************************************************)
(* The system                                                              *)
(***************************************************************************)

PayerStep(p) ==
    \/ PayerCreates(p) \/ TransferAccepted(p) \/ TransferFails(p)
    \/ PayerSaves(p) \/ PayerReturns(p) \/ PayerBackfills(p)

HookStep == \E h \in hooks : HookFinds(h) \/ HookSaves(h)

BalanceStep == \E u \in updates : BalanceRead(u) \/ BalanceSave(u)

Next ==
    \/ Earn \/ Reverse
    \/ \E p \in Payers : PayerReads(p) \/ PayerStep(p)
    \/ \E i \in Ids : BankSends(i) \/ BankReturns(i)
    \/ \E h \in hooks : HookRepeated(h)
    \/ HookStep
    \/ BalanceStep

Spec == Init /\ [][Next]_vars

\* A call that has started is carried through, and Paystack settles what it accepted
\* and delivers its webhooks.
Fairness ==
    /\ \A p \in Payers : WF_vars(PayerStep(p))
    /\ WF_vars(HookStep)
    /\ WF_vars(BalanceStep)
    /\ \A i \in Ids : WF_vars(BankSends(i) \/ BankReturns(i))

FairSpec == Spec /\ Fairness

(***************************************************************************)
(* Properties                                                              *)
(***************************************************************************)

Sent == {i \in Ids : bank[i] \in {"accepted", "sent"}}

\* The shop is never sent more than it earned: a payout that is created, asked for,
\* failed and paid out again keeps its money reserved until it surely came back.
\* payout.service.ts:146-147 says the row is written at once so that concurrent ticks
\* do not double-pay: with one payer it holds, with two it does not.
NoOverdraft == Total(Sent) <= earned

\* A row says what the bank did: PAID was sent, FAILED never was or came back, in
\* whatever order webhooks and the saves of stale entities arrive.
RowTellsTruth ==
    \A i \in Ids :
        /\ payouts[i].status = "paid" => bank[i] \in {"sent", "returned"}
        /\ payouts[i].status = "failed" => bank[i] \in {"none", "returned"}

\* Money that came back is paid out again under a row of its own: a transfer is
\* asked for at most once for a row, and never for one that is settled.
AskedOncePerRow ==
    \A p \in Payers : payer[p].pc = "created" => bank[payer[p].id] = "none"

\* The call that created the row has not had its answer.
Asks(i) == \E p \in Payers : payer[p].pc = "created" /\ payer[p].id = i

\* Rows whose transfer was made, or is about to be asked for.
Committed == {i \in Ids : bank[i] \in {"accepted", "sent"} \/ Asks(i)}

PhaseOf(i) ==
    CASE bank[i] = "accepted" -> "asked"
      [] bank[i] \in {"sent", "returned"} -> bank[i]
      [] OTHER -> IF Asks(i) THEN "claimed"
                  ELSE IF payouts[i].status = "none" THEN "free" ELSE "refused"

ToldOf(i) == IF payouts[i].status \in {"paid", "failed"} THEN payouts[i].status ELSE "open"

Phases == [i \in Ids |-> PhaseOf(i)]
Amounts == [i \in Ids |-> payouts[i].amount]
Tellings == [i \in Ids |-> ToldOf(i)]

Ledger == INSTANCE PayoutLedger WITH
    available <- earned - Total(Committed),
    phase <- Phases, amount <- Amounts, told <- Tellings

\* However the calls, the answers, the repeated webhooks and the saves of stale entities
\* interleave, with one payer and no lost answer the payouts keep the promise: they claim
\* what is available, ask for it once, and give back what was refused or returned.
LedgerKept == Ledger!Spec

\* Overlapping saves of the rollup lose updates, and a lost debit overstates what the shop
\* earned; but nothing is counted twice: the dashboard's lifetime net is made of some of the
\* credits and some of the debits that were called for.
NothingCountedTwice == balance.net \in -called.debits..called.credits

(***************************************************************************)
(* What comments say and the code does not do                              *)
(***************************************************************************)

\* payout.service.ts:160-162: if the API call fails the row stays PENDING; so a row
\* without a reference, which no webhook can have found, is not FAILED.
StaysPending == \A i \in Ids : payouts[i].status = "failed" => payouts[i].ref

\* payout.service.ts:148: the webhook flips the row to PAID or FAILED.
WebhookSettles ==
    \A i \in Ids : bank[i] \in {"sent", "returned"} ~> payouts[i].status \in {"paid", "failed"}

Quiet == hooks = {} /\ updates = {} /\ \A p \in Payers : payer[p].pc = "idle"

WithStatus(s) == {i \in Ids : payouts[i].status = s}

\* tenantBalance.service.ts:13-25: each helper is a read-modify-write under a row lock, and
\* is called after a Transaction is inserted, so the rollup adds up the Transactions.
RollupAddsUp == updates = {} => balance.net = earned

\* payout.service.ts:214-217: a webhook is idempotent on the reference, so a payout is
\* counted once.
CountedOnce ==
    Quiet /\ WithStatus("failed") = {} => balance.paid = Total(WithStatus("paid"))
===============================================================================
