---------------------------- MODULE CustomerProofs ----------------------------
(***************************************************************************)
(* Proofs about what customers ask for, alone and in a group.  Intake: for *)
(* any requests, prices and edits, a code is given no more often than its  *)
(* limit, and who pays pays for the whole.  GroupSession: for any          *)
(* participants, jobs, overlapping requests, closers and crashes, what the *)
(* close of a session settles.                                             *)
(***************************************************************************)
EXTENDS Intake, GroupSession, TLAPS

(***************************************************************************)
(* Intake: the inductive invariant                                         *)
(***************************************************************************)

\* What was given is what is counted and what the saves of edits took off the count, which
\* stays within its limit in the row and in the copy an edit has read.
Uses ==
    /\ promo.used + undone = redeemed
    /\ promo.used <= MaxUses /\ edit.row.used <= MaxUses

\* The price a request has in hand, by how far it has come.
Quoted(r) ==
    /\ call[r].pc = "idle" => job[r] = NoJob
    /\ call[r].pc = "items" => call[r].kind = "batch" /\ call[r].total = job[r].items * CostOf(1)
    /\ call[r].pc \in {"priced", "redeem", "costed", "quoted"} => call[r].total = FullPrice(r)
    /\ call[r].pc = "redeem" => call[r].cost = call[r].total /\ call[r].off <= call[r].total
    /\ call[r].pc = "costed" => call[r].cost = FullPrice(r) - call[r].off
    /\ call[r].pc # "idle" => call[r].size \in Sizes

\* A job that costs something costs the whole, less its discount; a batch that is still
\* being taken in costs nothing.
Priced(r) ==
    /\ job[r].cost > 0 => job[r].cost = FullPrice(r) - job[r].given
    /\ call[r].kind = "batch" /\ call[r].pc # "answered"
           => job[r].status = "pending" /\ job[r].cost = 0
    /\ call[r].kind = "batch" /\ (job[r].cost > 0 \/ call[r].pc \in {"priced", "redeem", "costed"})
           => job[r].items = call[r].size
    /\ call[r].kind = "quote" => job[r] = NoJob
    /\ call[r].pc = "quoted" => call[r].kind = "quote"

\* Nothing is charged but the cost of the job.
Charged(r) ==
    /\ \A amount \in checkout[r] : amount = job[r].cost /\ amount > 0
    /\ job[r].status = "none" => job[r] = NoJob
    /\ job[r].status = "paid" => charged[r] = job[r].cost /\ charged[r] > 0

IInv == TypeOK /\ Uses /\ \A r \in Requests : Quoted(r) /\ Priced(r) /\ Charged(r)

(***************************************************************************)
(* Intake: prices                                                          *)
(***************************************************************************)

LEMMA CostOfNat == ASSUME NEW pages \in Nat PROVE CostOf(pages) \in Nat
<1>1. PerPage * pages \in Nat
  BY ConstantsOK
<1> QED
  BY <1>1 DEF CostOf, Larger

LEMMA SizesPositive == \A size \in Sizes : size \in Nat /\ size > 0
<1>1. Sizes \subseteq Nat \ {0}
  BY ConstantsOK
<1> QED
  BY <1>1

LEMMA FullPriceNat ==
    ASSUME TypeOK, NEW r \in Requests
    PROVE  FullPrice(r) \in Nat /\ call[r].size \in Nat
<1>1. call[r].size \in Nat
  <2>1. call[r] \in Call
    BY DEF TypeOK
  <2>2. call[r].size \in Sizes \cup {0}
    BY <2>1 DEF Call
  <2> QED
    BY <2>2, SizesPositive
<1>2. CostOf(1) \in Nat /\ CostOf(call[r].size) \in Nat
  BY <1>1, CostOfNat
<1>3. call[r].size * CostOf(1) \in Nat
  BY <1>1, <1>2
<1> QED
  BY <1>1, <1>2, <1>3 DEF FullPrice

LEMMA DiscountBounds ==
    ASSUME NEW cost \in Nat, NEW pages \in Nat, worth \in Promotions
    PROVE  Discount(cost, pages) \in Nat /\ Discount(cost, pages) <= cost
<1> DEFINE amount == CASE worth.type = "percentage" -> (cost * worth.value) \div 100
                       [] worth.type = "fixed" -> worth.value
                       [] worth.type = "free_pages" -> Smaller(worth.value, pages) * 5
<1>1. worth.value \in Nat /\ worth.type \in {"percentage", "fixed", "free_pages"}
  BY ConstantsOK
<1>2. (cost * worth.value) \div 100 \in Nat
  <2>1. cost * worth.value \in Nat
    BY <1>1
  <2> QED
    BY <2>1
<1>3. Smaller(worth.value, pages) * 5 \in Nat
  BY <1>1 DEF Smaller
<1>4. amount \in Nat
  <2>1. CASE worth.type = "percentage"
    BY <1>2, <2>1
  <2>2. CASE worth.type = "fixed"
    BY <1>1, <2>2
  <2>3. CASE worth.type = "free_pages"
    BY <1>3, <2>3
  <2> QED
    BY <1>1, <2>1, <2>2, <2>3
<1>5. Discount(cost, pages) = Smaller(cost, amount)
  BY DEF Discount
<1> HIDE DEF amount
<1> QED
  BY <1>4, <1>5 DEF Smaller

(***************************************************************************)
(* Intake: the steps                                                       *)
(***************************************************************************)

LEMMA InitIInv == Init => IInv
<1> SUFFICES ASSUME Init PROVE IInv
  OBVIOUS
<1>1. Idle \in Call /\ NoJob \in Job /\ promo \in Promo
  BY DEF Init, Idle, Call, NoJob, Job, Promo, NoQuote
<1>2. TypeOK
  BY <1>1, ConstantsOK DEF Init, TypeOK
<1>3. Uses
  BY ConstantsOK DEF Init, Uses
<1>4. \A r \in Requests : Quoted(r) /\ Priced(r) /\ Charged(r)
  BY DEF Init, Quoted, Priced, Charged, Idle, NoJob
<1> QED
  BY <1>2, <1>3, <1>4 DEF IInv

\* A step of one request.
LEMMA OneMoves ==
    ASSUME IInv, NEW r \in Requests,
           \A q \in Requests \ {r} : /\ call'[q] = call[q] /\ job'[q] = job[q]
                                     /\ checkout'[q] = checkout[q] /\ charged'[q] = charged[q],
           TypeOK', Uses', Quoted(r)', Priced(r)', Charged(r)'
    PROVE  IInv'
<1>1. \A q \in Requests \ {r} : Quoted(q)' /\ Priced(q)' /\ Charged(q)'
  BY DEF IInv, Quoted, Priced, Charged, FullPrice
<1> QED
  BY <1>1 DEF IInv

\* Its handler goes on, and nothing else changes.
LEMMA HandlerMoves ==
    ASSUME IInv, NEW r \in Requests, NEW to \in Call, call' = [call EXCEPT ![r] = to],
           UNCHANGED <<worth, job, checkout, charged, edit, undone, edits>>,
           promo' \in Promo, redeemed' \in Nat, faults' \in 0..MaxFaults, Uses',
           Quoted(r)', Priced(r)'
    PROVE  IInv'
<1>1. TypeOK'
  BY DEF IInv, TypeOK
<1>2. Charged(r)' /\ \A q \in Requests \ {r} : call'[q] = call[q]
  BY DEF IInv, TypeOK, Charged
<1> QED
  BY <1>1, <1>2, OneMoves

\* The parts of the invariant that the handler of a request relies on.
LEMMA RequestFacts ==
    ASSUME IInv, NEW r \in Requests
    PROVE  /\ call[r] \in Call /\ job[r] \in Job /\ checkout[r] \subseteq Nat
           /\ Quoted(r) /\ Priced(r) /\ Charged(r)
           /\ promo \in Promo /\ redeemed \in Nat /\ faults \in 0..MaxFaults
           /\ FullPrice(r) \in Nat /\ call[r].size \in Nat
BY FullPriceNat DEF IInv, TypeOK

LEMMA PricesStep == ASSUME IInv, NEW r \in Requests, Prices(r) PROVE IInv'
<1>1. PICK kind \in {"quote", "single", "cups"}, size \in Sizes :
          call' = [call EXCEPT ![r] = [Idle EXCEPT !.pc = "priced", !.kind = kind, !.size = size,
                                                   !.total = CostOf(size)]]
  BY DEF Prices
<1> DEFINE to == [Idle EXCEPT !.pc = "priced", !.kind = kind, !.size = size,
                              !.total = CostOf(size)]
<1>2. CostOf(size) \in Nat
  BY ConstantsOK, CostOfNat
<1>3. /\ to \in Call /\ to.pc = "priced" /\ to.kind = kind /\ to.size = size
      /\ to.total = CostOf(size)
  BY <1>2 DEF Idle, Call, NoQuote
<1>4. call' = [call EXCEPT ![r] = to]
  BY <1>1
<1> HIDE DEF to
<1>5. call'[r] = to /\ job'[r] = NoJob /\ job[r] = NoJob
  BY <1>4, RequestFacts DEF Prices, Quoted, IInv, TypeOK
<1>6. Quoted(r)' /\ Priced(r)'
  BY <1>3, <1>5 DEF Quoted, Priced, FullPrice, NoJob
<1>7. Uses'
  BY DEF Prices, IInv, Uses
<1> QED
  BY <1>3, <1>4, <1>6, <1>7, RequestFacts, HandlerMoves DEF Prices

LEMMA QuoteSteps ==
    ASSUME IInv, NEW r \in Requests, PricesQuoted(r) \/ Quotes(r)
    PROVE  IInv'
<1>1. PICK pc \in {"priced", "quoted"}, kind \in {"quote", "single"}, quote \in Nat \cup {NoQuote} :
          /\ call' = [call EXCEPT ![r] = [@ EXCEPT !.pc = pc, !.kind = kind, !.quote = quote]]
          /\ pc = "quoted" => kind = "quote" /\ call[r].pc = "costed"
          /\ pc = "priced" => kind = "single" /\ call[r].pc = "quoted"
          /\ call[r].kind = "quote"
  <2>1. CASE PricesQuoted(r)
    <3>1. call[r].kind = "quote" /\ call[r].quote \in Nat \cup {NoQuote} /\ call[r] \in Call
      BY <2>1, RequestFacts DEF PricesQuoted, Priced, Call
    <3>2. call' = [call EXCEPT ![r] = [@ EXCEPT !.pc = "priced", !.kind = "single",
                                                !.quote = call[r].quote]]
      BY <2>1, <3>1 DEF PricesQuoted, IInv, TypeOK, Call
    <3> QED
      BY <2>1, <3>1, <3>2 DEF PricesQuoted
  <2>2. CASE Quotes(r)
    <3>1. call[r].kind = "quote" /\ call[r].cost \in Nat /\ call[r] \in Call
      BY <2>2, RequestFacts DEF Quotes, Call
    <3>2. call' = [call EXCEPT ![r] = [@ EXCEPT !.pc = "quoted", !.kind = "quote",
                                                !.quote = call[r].cost]]
      BY <2>2, <3>1 DEF Quotes, IInv, TypeOK, Call
    <3> QED
      BY <2>2, <3>1, <3>2 DEF Quotes
  <2> QED
    BY <2>1, <2>2
<1> DEFINE to == [call[r] EXCEPT !.pc = pc, !.kind = kind, !.quote = quote]
<1>2. /\ to \in Call /\ to.pc = pc /\ to.kind = kind /\ to.size = call[r].size
      /\ to.total = call[r].total
  BY RequestFacts DEF Call
<1>3. call' = [call EXCEPT ![r] = to]
  BY <1>1
<1> HIDE DEF to
<1>4. call'[r] = to /\ UNCHANGED job
  BY <1>3 DEF PricesQuoted, Quotes, IInv, TypeOK
<1>5. FullPrice(r)' = FullPrice(r)
  BY <1>1, <1>2, <1>4 DEF FullPrice
<1>6. Quoted(r)' /\ Priced(r)'
  BY <1>1, <1>2, <1>4, <1>5, RequestFacts DEF Quoted, Priced, NoJob
<1>7. Uses'
  BY DEF PricesQuoted, Quotes, IInv, Uses
<1> QED
  BY <1>2, <1>3, <1>6, <1>7, RequestFacts, HandlerMoves DEF PricesQuoted, Quotes

LEMMA BatchSteps ==
    ASSUME IInv, NEW r \in Requests, InsertsParent(r) \/ AddsItem(r) \/ Totals(r)
    PROVE  IInv'
<1> DEFINE c == CostOf(1)
<1>1. c \in Nat
  BY CostOfNat
<1>2. /\ UNCHANGED <<worth, promo, checkout, charged, edit, redeemed, undone, edits, faults>>
      /\ Uses'
  BY DEF InsertsParent, AddsItem, Totals, IInv, Uses
<1>3. CASE InsertsParent(r)
  <2>1. PICK size \in Sizes :
            call' = [call EXCEPT ![r] = [Idle EXCEPT !.pc = "items", !.kind = "batch",
                                                     !.size = size]]
    BY <1>3 DEF InsertsParent
  <2> DEFINE to == [Idle EXCEPT !.pc = "items", !.kind = "batch", !.size = size]
             new == [NoJob EXCEPT !.status = "pending"]
  <2>2. /\ to \in Call /\ to.pc = "items" /\ to.kind = "batch" /\ to.size = size /\ to.total = 0
        /\ new \in Job /\ new.status = "pending" /\ new.cost = 0 /\ new.items = 0
    BY DEF Idle, Call, NoQuote, NoJob, Job
  <2>3. call' = [call EXCEPT ![r] = to] /\ job' = [job EXCEPT ![r] = new]
    BY <1>3, <2>1 DEF InsertsParent
  <2> HIDE DEF to, new
  <2>4. call'[r] = to /\ job'[r] = new
    BY <2>3 DEF IInv, TypeOK
  <2>5. TypeOK'
    BY <1>2, <2>2, <2>3 DEF IInv, TypeOK
  <2>6. call[r].pc = "idle" /\ job[r] = NoJob
    BY <1>3, RequestFacts DEF InsertsParent, Quoted
  <2>7. checkout[r] = {}
    BY <2>6, RequestFacts DEF Charged, NoJob
  <2>8. 0 = 0 * c
    BY <1>1
  <2>9. Quoted(r)' /\ Priced(r)' /\ Charged(r)'
    BY <1>1, <1>2, <2>2, <2>4, <2>7, <2>8 DEF Quoted, Priced, Charged
  <2> QED
    BY <1>2, <2>3, <2>5, <2>9, OneMoves DEF IInv, TypeOK
<1>4. CASE AddsItem(r)
  <2> DEFINE to == [call[r] EXCEPT !.total = @ + c]
             new == [job[r] EXCEPT !.items = @ + 1]
  <2>1. call[r].pc = "items" /\ call[r] \in Call /\ job[r] \in Job
    BY <1>4, RequestFacts DEF AddsItem
  <2>2. /\ to \in Call /\ to.pc = "items" /\ to.kind = call[r].kind /\ to.size = call[r].size
        /\ to.total = call[r].total + c
        /\ new \in Job /\ new.status = job[r].status /\ new.cost = job[r].cost
        /\ new.items = job[r].items + 1
    BY <1>1, <2>1 DEF Call, Job
  <2>3. call' = [call EXCEPT ![r] = to] /\ job' = [job EXCEPT ![r] = new]
    BY <1>4, <2>1 DEF AddsItem, IInv, TypeOK, Call, Job
  <2> HIDE DEF to, new
  <2>4. call'[r] = to /\ job'[r] = new
    BY <2>3 DEF IInv, TypeOK
  <2>5. TypeOK'
    BY <1>2, <2>2, <2>3 DEF IInv, TypeOK
  <2>6. /\ call[r].kind = "batch" /\ call[r].total = job[r].items * c
        /\ job[r].status = "pending" /\ job[r].cost = 0 /\ job[r].items \in Nat
    BY <2>1, RequestFacts DEF Quoted, Priced, Job
  <2>7. job[r].items * c + c = (job[r].items + 1) * c
    BY <1>1, <2>6
  <2>8. to.total = new.items * c
    BY <2>2, <2>6, <2>7
  <2>9. checkout[r] = {}
    BY <2>6, RequestFacts DEF Charged
  <2>10. call[r].size \in Sizes
    BY <2>1, RequestFacts DEF Quoted
  <2>11. Quoted(r)' /\ Priced(r)' /\ Charged(r)'
    BY <1>2, <2>2, <2>4, <2>6, <2>8, <2>9, <2>10 DEF Quoted, Priced, Charged
  <2> QED
    BY <1>2, <2>3, <2>5, <2>11, OneMoves DEF IInv, TypeOK
<1>5. CASE Totals(r)
  <2> DEFINE to == [call[r] EXCEPT !.pc = "priced"]
  <2>1. call[r].pc = "items" /\ call[r] \in Call /\ job[r].items = call[r].size
    BY <1>5, RequestFacts DEF Totals
  <2>2. /\ to \in Call /\ to.pc = "priced" /\ to.kind = call[r].kind /\ to.size = call[r].size
        /\ to.total = call[r].total
    BY <2>1 DEF Call
  <2>3. call' = [call EXCEPT ![r] = to] /\ UNCHANGED job
    BY <1>5 DEF Totals
  <2> HIDE DEF to
  <2>4. call'[r] = to
    BY <2>3 DEF IInv, TypeOK
  <2>5. call[r].kind = "batch" /\ call[r].total = call[r].size * c /\ call[r].size \in Sizes
    BY <2>1, RequestFacts DEF Quoted
  <2>6. FullPrice(r)' = call[r].total
    BY <2>2, <2>4, <2>5 DEF FullPrice
  <2>7. Quoted(r)' /\ Priced(r)'
    BY <2>1, <2>2, <2>3, <2>4, <2>5, <2>6, RequestFacts DEF Quoted, Priced
  <2> QED
    BY <1>2, <2>2, <2>3, <2>7, RequestFacts, HandlerMoves
<1> QED
  BY <1>3, <1>4, <1>5

LEMMA ReadsPromoStep == ASSUME IInv, NEW r \in Requests, ReadsPromo(r) PROVE IInv'
<1> DEFINE off == Discount(call[r].total, call[r].size)
           redeem == [call[r] EXCEPT !.pc = "redeem", !.off = off, !.cost = call[r].total]
           costed == [call[r] EXCEPT !.pc = "costed", !.off = 0, !.cost = call[r].total]
<1>1. /\ call[r].pc = "priced" /\ call[r] \in Call /\ call[r].total = FullPrice(r)
      /\ call[r].total \in Nat /\ call[r].size \in Sizes
  BY RequestFacts DEF ReadsPromo, Quoted, Call
<1>2. off \in Nat /\ off <= call[r].total
  BY <1>1, RequestFacts, DiscountBounds DEF IInv, TypeOK
<1>3. UNCHANGED job
      /\ (call' = [call EXCEPT ![r] = redeem] \/ call' = [call EXCEPT ![r] = costed])
  BY DEF ReadsPromo
<1> HIDE DEF off
<1>4. /\ redeem \in Call /\ redeem.pc = "redeem" /\ redeem.off = off
      /\ costed \in Call /\ costed.pc = "costed" /\ costed.off = 0
      /\ \A to \in {redeem, costed} :
            /\ to.kind = call[r].kind /\ to.size = call[r].size /\ to.total = call[r].total
            /\ to.cost = call[r].total
  BY <1>1, <1>2 DEF Call
<1> HIDE DEF redeem, costed
<1>5. PICK to \in {redeem, costed} : call' = [call EXCEPT ![r] = to]
  BY <1>3
<1>6. to \in Call /\ call'[r] = to
  BY <1>4, <1>5 DEF IInv, TypeOK
<1>7. FullPrice(r)' = FullPrice(r) /\ FullPrice(r) \in Nat
  BY <1>4, <1>6, RequestFacts DEF FullPrice
<1>8. Quoted(r)' /\ Priced(r)'
  BY <1>1, <1>2, <1>3, <1>4, <1>6, <1>7, RequestFacts DEF Quoted, Priced
<1>9. Uses'
  BY DEF ReadsPromo, IInv, Uses
<1> QED
  BY <1>5, <1>6, <1>8, <1>9, RequestFacts, HandlerMoves DEF ReadsPromo

LEMMA RedeemsStep == ASSUME IInv, NEW r \in Requests, Redeems(r) PROVE IInv'
<1> DEFINE less == [call[r] EXCEPT !.pc = "costed", !.cost = @ - call[r].off]
           full == [call[r] EXCEPT !.pc = "costed", !.off = 0]
<1>1. /\ call[r].pc = "redeem" /\ call[r] \in Call /\ call[r].total = FullPrice(r)
      /\ call[r].cost = call[r].total /\ call[r].off <= call[r].total
      /\ call[r].total \in Nat /\ call[r].off \in Nat /\ call[r].size \in Sizes
  BY RequestFacts DEF Redeems, Quoted, Call
<1>2. promo.used \in Nat /\ redeemed \in Nat /\ undone \in Int /\ MaxUses \in Nat
  BY ConstantsOK DEF IInv, TypeOK, Promo
<1>3. /\ UseLeft => call' = [call EXCEPT ![r] = less]
      /\ ~UseLeft => call' = [call EXCEPT ![r] = full]
      /\ UNCHANGED job
  BY DEF Redeems
<1>4. /\ less \in Call /\ full \in Call
      /\ \A to \in {less, full} :
            /\ to.pc = "costed" /\ to.kind = call[r].kind /\ to.size = call[r].size
            /\ to.total = call[r].total /\ to.cost = call[r].total - to.off
  <2>1. /\ less \in Call /\ less.pc = "costed" /\ less.kind = call[r].kind
        /\ less.size = call[r].size /\ less.total = call[r].total
        /\ less.cost = call[r].total - less.off
    <3>1. call[r].cost - call[r].off \in Nat
      BY <1>1
    <3>2. less \in Call
      BY <1>1, <3>1 DEF Call
    <3> QED
      BY <1>1, <3>2 DEF Call
  <2>2. /\ full \in Call /\ full.pc = "costed" /\ full.kind = call[r].kind
        /\ full.size = call[r].size /\ full.total = call[r].total
        /\ full.cost = call[r].total - full.off
    <3>1. full \in Call
      BY <1>1 DEF Call
    <3>2. call[r].total - 0 = call[r].total
      BY <1>1
    <3> QED
      BY <1>1, <3>1, <3>2 DEF Call
  <2> HIDE DEF less, full
  <2> QED
    BY <2>1, <2>2
<1> HIDE DEF less, full
<1>5. PICK to \in {less, full} : call' = [call EXCEPT ![r] = to]
  BY <1>3
<1>6. call'[r] = to
  BY <1>5 DEF IInv, TypeOK
<1>7. FullPrice(r)' = FullPrice(r)
  BY <1>4, <1>6 DEF FullPrice
<1>8. Quoted(r)' /\ Priced(r)'
  BY <1>1, <1>3, <1>4, <1>6, <1>7, RequestFacts DEF Quoted, Priced
<1>9. promo' \in Promo /\ redeemed' \in Nat /\ Uses'
  <2>1. CASE UseLeft
    <3>1. /\ promo' = [promo EXCEPT !.used = @ + 1] /\ redeemed' = redeemed + 1
          /\ UNCHANGED <<edit, undone>>
      BY <2>1 DEF Redeems
    <3>2. promo' \in Promo /\ promo'.used = promo.used + 1
      BY <1>2, <3>1, RequestFacts DEF Promo
    <3> QED
      BY <1>2, <2>1, <3>1, <3>2 DEF IInv, Uses, UseLeft
  <2>2. CASE ~UseLeft
    BY <2>2 DEF Redeems, IInv, TypeOK, Uses
  <2> QED
    BY <2>1, <2>2
<1> QED
  BY <1>4, <1>5, <1>8, <1>9, RequestFacts, HandlerMoves DEF Redeems

\* The job gets the price in hand, or stays as an earlier submission left it.
LEMMA SavesSteps ==
    ASSUME IInv, NEW r \in Requests, InsertsJob(r) \/ SavesBatch(r)
    PROVE  IInv'
<1> DEFINE to == [call[r] EXCEPT !.pc = "answered"]
           new == [status |-> "pending", cost |-> call[r].cost,
                   given |-> call[r].off, items |-> IF SavesBatch(r) THEN job[r].items ELSE 0]
<1>1. /\ call[r].pc = "costed" /\ call[r] \in Call /\ job[r] \in Job
      /\ call[r].cost = FullPrice(r) - call[r].off /\ call[r].size \in Sizes
      /\ call[r].kind \in {"single", "cups", "batch"}
      /\ call[r].kind = "batch" <=> SavesBatch(r)
  BY RequestFacts DEF InsertsJob, SavesBatch, Quoted
<1>2. /\ to \in Call /\ to.pc = "answered" /\ to.kind = call[r].kind /\ to.size = call[r].size
  BY <1>1 DEF Call
<1>3. /\ new \in Job /\ new.status = "pending" /\ new.cost = call[r].cost
      /\ new.given = call[r].off
      /\ SavesBatch(r) => new.items = job[r].items
  BY <1>1 DEF Call, Job
<1>4. call' = [call EXCEPT ![r] = to]
  BY DEF InsertsJob, SavesBatch
<1>5. PICK saved \in {new, job[r]} :
          /\ job' = [job EXCEPT ![r] = saved]
          /\ saved = job[r] \/ job[r].status = "none" \/ SavesBatch(r)
          /\ SavesBatch(r) => saved = new
  <2>1. CASE SavesBatch(r)
    <3>1. job' = [job EXCEPT ![r] = new]
      BY <2>1 DEF SavesBatch
    <3> HIDE DEF new
    <3> QED
      BY <2>1, <3>1
  <2>2. CASE InsertsJob(r) /\ job[r].status = "none"
    <3>1. job' = [job EXCEPT ![r] = new]
      BY <1>1, <2>2 DEF InsertsJob
    <3> HIDE DEF new
    <3> QED
      BY <1>1, <2>2, <3>1 DEF InsertsJob
  <2>3. CASE InsertsJob(r) /\ job[r].status # "none"
    <3>1. job' = [job EXCEPT ![r] = job[r]]
      BY <2>3 DEF InsertsJob, IInv, TypeOK
    <3> QED
      BY <1>1, <2>3, <3>1 DEF InsertsJob
  <2> QED
    BY <2>1, <2>2, <2>3
<1> HIDE DEF to, new
<1>6. call'[r] = to /\ job'[r] = saved /\ saved \in Job
  BY <1>1, <1>3, <1>4, <1>5 DEF IInv, TypeOK
<1>7. TypeOK' /\ Uses' /\ UNCHANGED <<checkout, charged>>
  BY <1>2, <1>4, <1>5, <1>6 DEF InsertsJob, SavesBatch, IInv, TypeOK, Uses
<1>8. FullPrice(r)' = FullPrice(r)
  BY <1>2, <1>6 DEF FullPrice
<1>9. saved = new => checkout[r] = {} \/ saved = job[r]
  BY <1>1, <1>5, RequestFacts DEF Charged, Priced, NoJob
<1>10. Quoted(r)'
  BY <1>1, <1>2, <1>6 DEF Quoted
<1>11. Priced(r)'
  <2>1. CASE saved = new
    <3>1. call[r].kind = "batch" => job[r].items = call[r].size
      BY <1>1, RequestFacts DEF Priced
    <3> QED
      BY <1>1, <1>2, <1>3, <1>6, <1>8, <2>1, <3>1 DEF Priced
  <2>2. CASE saved = job[r]
    BY <1>1, <1>2, <1>3, <1>5, <1>6, <1>8, <2>2, RequestFacts DEF Priced
  <2> QED
    BY <1>5, <2>1, <2>2
<1>12. Charged(r)'
  <2>1. CASE saved = job[r]
    BY <1>6, <1>7, <2>1, RequestFacts DEF Charged
  <2>2. CASE saved = new /\ checkout[r] = {}
    BY <1>3, <1>6, <1>7, <2>2 DEF Charged
  <2> QED
    BY <1>5, <1>9, <2>1, <2>2
<1> QED
  BY <1>4, <1>5, <1>7, <1>10, <1>11, <1>12, OneMoves DEF IInv, TypeOK

LEMMA FaultSteps ==
    ASSUME IInv, NEW r \in Requests, Fails(r) \/ Resubmits(r)
    PROVE  IInv'
<1>1. faults' \in 0..MaxFaults
  BY ConstantsOK DEF Fails, Resubmits, IInv, TypeOK
<1>2. PICK pc \in {"answered", "priced"}, total \in Nat :
          /\ call' = [call EXCEPT ![r] = [@ EXCEPT !.pc = pc, !.total = total]]
          /\ pc = "priced" => call[r].kind = "cups" /\ total = CostOf(call[r].size)
          /\ call[r].pc # "idle"
          /\ call[r].kind = "quote" => pc = "answered" /\ call[r].pc # "quoted"
  <2>1. CASE Fails(r)
    <3>1. call[r] \in Call /\ call[r].total \in Nat
      BY RequestFacts DEF Call
    <3>2. call' = [call EXCEPT ![r] = [@ EXCEPT !.pc = "answered", !.total = call[r].total]]
      BY <2>1, <3>1 DEF Fails, IInv, TypeOK, Call
    <3> QED
      BY <2>1, <3>1, <3>2 DEF Fails
  <2>2. CASE Resubmits(r)
    <3>1. CostOf(call[r].size) \in Nat
      BY RequestFacts, CostOfNat
    <3>2. call' = [call EXCEPT ![r] = [@ EXCEPT !.pc = "priced", !.total = CostOf(call[r].size)]]
      BY <2>2 DEF Resubmits, IInv, TypeOK
    <3> QED
      BY <2>2, <3>1, <3>2 DEF Resubmits
  <2> QED
    BY <2>1, <2>2
<1> DEFINE to == [call[r] EXCEPT !.pc = pc, !.total = total]
<1>3. /\ to \in Call /\ to.pc = pc /\ to.kind = call[r].kind /\ to.size = call[r].size
      /\ to.total = total
  BY RequestFacts DEF Call
<1>4. call' = [call EXCEPT ![r] = to] /\ UNCHANGED job
  BY <1>2 DEF Fails, Resubmits
<1> HIDE DEF to
<1>5. call'[r] = to
  BY <1>4 DEF IInv, TypeOK
<1>6. /\ FullPrice(r)' = FullPrice(r) /\ call[r].size \in Sizes
      /\ pc = "priced" => FullPrice(r) = total
  BY <1>2, <1>3, <1>5, RequestFacts DEF FullPrice, Quoted
<1>7. Quoted(r)'
  BY <1>2, <1>3, <1>5, <1>6 DEF Quoted
<1>8. Priced(r)'
  BY <1>2, <1>3, <1>4, <1>5, <1>6, RequestFacts DEF Priced
<1>9. Uses'
  BY DEF Fails, Resubmits, IInv, Uses
<1> QED
  BY <1>1, <1>3, <1>4, <1>7, <1>8, <1>9, RequestFacts, HandlerMoves DEF Fails, Resubmits

LEMMA PaymentSteps ==
    ASSUME IInv, NEW r \in Requests, OpensCheckout(r) \/ Pays(r)
    PROVE  IInv'
<1>1. /\ job[r] \in Job /\ job[r].cost \in Nat /\ checkout[r] \subseteq Nat
      /\ UNCHANGED <<worth, promo, call, edit, redeemed, undone, edits, faults>>
  BY RequestFacts DEF OpensCheckout, Pays, Job
<1>2. Uses'
  BY <1>1 DEF IInv, Uses
<1>3. CASE OpensCheckout(r)
  <2>1. /\ checkout' = [checkout EXCEPT ![r] = @ \cup {job[r].cost}]
        /\ job[r].status = "pending" /\ job[r].cost > 0 /\ UNCHANGED <<job, charged>>
    BY <1>3 DEF OpensCheckout, Payable
  <2>2. checkout'[r] = checkout[r] \cup {job[r].cost}
    BY <2>1 DEF IInv, TypeOK
  <2>3. TypeOK'
    BY <1>1, <2>1 DEF IInv, TypeOK
  <2>4. Quoted(r)' /\ Priced(r)' /\ Charged(r)'
    BY <1>1, <2>1, <2>2, RequestFacts DEF Quoted, Priced, Charged, FullPrice
  <2> QED
    BY <1>1, <1>2, <2>1, <2>3, <2>4, OneMoves DEF IInv, TypeOK
<1>4. CASE Pays(r)
  <2> DEFINE new == [job[r] EXCEPT !.status = "paid"]
  <2>1. PICK amount \in checkout[r] : charged' = [charged EXCEPT ![r] = amount]
    BY <1>4 DEF Pays
  <2>2. /\ amount = job[r].cost /\ amount > 0 /\ job[r].status = "pending"
    BY <1>4, RequestFacts DEF Pays, Charged
  <2>3. /\ new \in Job /\ new.status = "paid" /\ new.cost = job[r].cost
        /\ new.given = job[r].given /\ new.items = job[r].items
    BY <1>1 DEF Job
  <2>4. job' = [job EXCEPT ![r] = new] /\ UNCHANGED checkout
    BY <1>4 DEF Pays
  <2> HIDE DEF new
  <2>5. job'[r] = new /\ charged'[r] = amount
    BY <2>1, <2>4 DEF IInv, TypeOK
  <2>6. TypeOK'
    BY <1>1, <2>1, <2>3, <2>4 DEF IInv, TypeOK
  <2>7. Quoted(r)' /\ Priced(r)' /\ Charged(r)'
    BY <1>1, <2>2, <2>3, <2>4, <2>5, RequestFacts DEF Quoted, Priced, Charged, FullPrice, NoJob
  <2> QED
    BY <1>1, <1>2, <2>1, <2>4, <2>6, <2>7, OneMoves DEF IInv, TypeOK
<1> QED
  BY <1>3, <1>4

LEMMA EditSteps == ASSUME IInv, EditReads \/ EditSaves PROVE IInv'
<1>1. UNCHANGED <<worth, call, job, checkout, charged, redeemed, faults>>
  BY DEF EditReads, EditSaves
<1>2. \A r \in Requests : Quoted(r)' /\ Priced(r)' /\ Charged(r)'
  BY <1>1 DEF IInv, Quoted, Priced, Charged, FullPrice
<1>3. /\ promo \in Promo /\ promo.used \in Nat /\ edit.row \in Promo /\ edit.row.used \in Nat
      /\ undone \in Int /\ redeemed \in Nat
  BY DEF IInv, TypeOK, Promo
<1>4. CASE EditReads
  <2>1. edits' \in 0..MaxEdits
    BY <1>4, ConstantsOK DEF EditReads, IInv, TypeOK
  <2>2. TypeOK' /\ Uses'
    BY <1>1, <1>3, <1>4, <2>1 DEF EditReads, IInv, TypeOK, Uses
  <2> QED
    BY <1>2, <2>2 DEF IInv
<1>5. CASE EditSaves
  <2>1. PICK status \in {"active", "inactive"} : promo' = [edit.row EXCEPT !.status = status]
    BY <1>5 DEF EditSaves
  <2>2. promo' \in Promo /\ promo'.used = edit.row.used
    BY <1>3, <2>1 DEF Promo
  <2>3. /\ undone' = undone + (promo.used - edit.row.used) /\ UNCHANGED edits
        /\ edit' = [edit EXCEPT !.pc = "idle"]
    BY <1>5 DEF EditSaves
  <2>4. edit' \in [pc: {"idle", "read"}, row: Promo] /\ edit'.row = edit.row
    BY <2>3 DEF IInv, TypeOK
  <2>5. TypeOK'
    BY <1>1, <1>3, <2>2, <2>3, <2>4 DEF IInv, TypeOK
  <2>6. Uses'
    BY <1>1, <1>3, <2>2, <2>3, <2>4 DEF IInv, Uses
  <2> QED
    BY <1>2, <2>5, <2>6 DEF IInv
<1> QED
  BY <1>4, <1>5

(***************************************************************************)
(* Intake: the theorems                                                    *)
(***************************************************************************)

LEMMA NextIInv == ASSUME IInv, [Next]_vars PROVE IInv'
<1>1. CASE UNCHANGED vars
  BY <1>1 DEF vars, IInv, TypeOK, Uses, Quoted, Priced, Charged, FullPrice
<1>2. ASSUME NEW r \in Requests,
             \/ Prices(r) \/ PricesQuoted(r)
             \/ InsertsParent(r) \/ AddsItem(r) \/ Totals(r)
             \/ ReadsPromo(r) \/ Redeems(r)
             \/ Quotes(r) \/ InsertsJob(r) \/ SavesBatch(r)
             \/ Fails(r) \/ Resubmits(r)
             \/ OpensCheckout(r) \/ Pays(r)
      PROVE  IInv'
  BY <1>2, PricesStep, QuoteSteps, BatchSteps, ReadsPromoStep, RedeemsStep, SavesSteps,
     FaultSteps, PaymentSteps
<1> QED
  BY <1>1, <1>2, EditSteps DEF Next

LEMMA Invariance == Spec => []IInv
BY InitIInv, NextIInv, PTL DEF Spec

\* However many requests race for the last use, and whatever an admin's edit saves over
\* them, the code is given no more often than its limit and the uses that edits took back.
THEOREM NeverOversoldHolds == Spec => []NeverOversold
<1>1. IInv => NeverOversold
  <2> SUFFICES ASSUME IInv PROVE NeverOversold
    OBVIOUS
  <2>1. promo.used \in Nat /\ undone \in Int /\ redeemed \in Nat /\ MaxUses \in Nat
    BY ConstantsOK DEF IInv, TypeOK, Promo
  <2> QED
    BY <2>1 DEF IInv, Uses, NeverOversold
<1> QED
  BY <1>1, Invariance, PTL

\* Whatever its size, price and discount, a job that is paid was charged in full: a batch
\* that is found before it is priced costs nothing yet, and nothing is not charged.
THEOREM PaidInFullHolds == Spec => []PaidInFull
<1>1. IInv => PaidInFull
  BY DEF IInv, Priced, Charged, PaidInFull
<1> QED
  BY <1>1, Invariance, PTL

(***************************************************************************)
(* GroupSession: the inductive invariant                                   *)
(***************************************************************************)

\* Nobody has seen a code of an open session; of a closed one, that of the last close.
CodesShown ==
    /\ session.open => session.code = None /\ told = {}
    /\ ~raced => \A code \in told : session.code = code

\* While no two closes have overlapped, the one under way will close an open session.
OneClose ==
    ~raced => \A x, y \in Closers :
        closer[x] = "save" => session.open /\ (closer[y] = "save" => x = y)

\* An upload is of a participant who has joined.
Joined ==
    \A c \in Calls : request[c].pc \in {"upload", "link", "save"} =>
        row[request[c].of] \in Row /\ request[c].of \in Rows

GroupIInv == GroupTypeOK /\ CodesShown /\ OneClose /\ Joined

LEMMA InitGroup == GroupInit => GroupIInv
<1> SUFFICES ASSUME GroupInit PROVE GroupIInv
  OBVIOUS
<1>1. GroupTypeOK
  <2>1. session \in Session /\ 0 \in 0..MaxCrashes
    BY GroupConstantsOK DEF GroupInit, Session
  <2>2. request \in [Calls -> Request] /\ row \in [Rows -> Row \cup {NoRow}]
    BY DEF GroupInit, Request
  <2> QED
    BY <2>1, <2>2 DEF GroupInit, GroupTypeOK, PrintJob
<1> QED
  BY <1>1 DEF GroupInit, GroupIInv, CodesShown, OneClose, Joined,
     NoRequest

LEMMA StutterStep ==
    ASSUME GroupIInv, UNCHANGED groupVars
    PROVE  GroupIInv'
BY DEF groupVars, GroupIInv, GroupTypeOK, CodesShown, OneClose, Joined

(***************************************************************************)
(* Requests of participants: they leave the session and its closes alone   *)
(***************************************************************************)

\* What a request of a participant has in hand, by how far it has come.
LEMMA CallFacts ==
    ASSUME GroupTypeOK, NEW c \in Calls
    PROVE  /\ request[c].pc = "join" => request[c].person \in People
           /\ request[c].pc = "upload" => request[c].of \in Rows
           /\ request[c].pc \in {"link", "save"} =>
                 request[c] \in [pc: {"link", "save"}, of: Rows, job: Jobs]
BY DEF GroupTypeOK, Request, NoRequest

\* The session, its closes and the codes shown are as before.
LEMMA Apart ==
    ASSUME GroupIInv, GroupTypeOK', Joined', UNCHANGED <<session, closer, told, raced>>
    PROVE  GroupIInv'
BY DEF GroupIInv, CodesShown, OneClose

LEMMA ParticipantStep ==
    ASSUME GroupIInv, NEW c \in Calls,
           \/ \E person \in People : JoinReads(c, person)
           \/ \E p \in Rows : UploadChecks(c, p)
           \/ JoinInserts(c) \/ UploadInserts(c)
           \/ LinkReads(c) \/ LinkSaves(c)
    PROVE  GroupIInv'
<1> USE DEF GroupIInv
<1>1. ASSUME NEW person \in People, JoinReads(c, person)
      PROVE  GroupIInv'
  <2>1. [pc |-> "join", person |-> person] \in Request
    BY DEF Request
  <2>2. GroupTypeOK'
    BY <1>1, <2>1 DEF JoinReads, GroupTypeOK
  <2>3. Joined'
    BY <1>1 DEF JoinReads, GroupTypeOK, Joined
  <2> QED
    BY <1>1, <2>2, <2>3, Apart DEF JoinReads
<1>2. ASSUME NEW p \in Rows, UploadChecks(c, p)
      PROVE  GroupIInv'
  <2>1. [pc |-> "upload", of |-> p] \in Request
    BY DEF Request
  <2>2. GroupTypeOK'
    BY <1>2, <2>1 DEF UploadChecks, GroupTypeOK
  <2>3. Joined'
    BY <1>2 DEF UploadChecks, GroupTypeOK, Joined
  <2> QED
    BY <1>2, <2>2, <2>3, Apart DEF UploadChecks
<1>3. CASE JoinInserts(c)
  <2>1. /\ NoRequest \in Request
        /\ [person |-> request[c].person, status |-> "joined", job |-> None] \in Row
    BY <1>3, CallFacts DEF JoinInserts, Row, Request
  <2>2. GroupTypeOK'
    BY <1>3, <2>1 DEF JoinInserts, GroupTypeOK
  <2>3. Joined'
    BY <1>3, <2>1 DEF JoinInserts, GroupTypeOK, Joined, NoRequest
  <2> QED
    BY <1>3, <2>2, <2>3, Apart DEF JoinInserts
<1>4. CASE UploadInserts(c)
  <2>1. PICK j \in Jobs :
          /\ printJob' = [printJob EXCEPT ![j] = "pending"]
          /\ request' = [request EXCEPT ![c] = [pc |-> "link", of |-> request[c].of, job |-> j]]
    BY <1>4 DEF UploadInserts
  <2>2. [pc |-> "link", of |-> request[c].of, job |-> j] \in Request
    BY <1>4, CallFacts DEF UploadInserts, Request
  <2>3. GroupTypeOK'
    BY <1>4, <2>1, <2>2 DEF UploadInserts, GroupTypeOK, PrintJob
  <2>4. Joined'
    BY <1>4, <2>1 DEF UploadInserts, GroupTypeOK, Joined
  <2> QED
    BY <1>4, <2>3, <2>4, Apart DEF UploadInserts
<1>5. CASE LinkReads(c)
  <2>1. NoRequest \in Request /\ [request[c] EXCEPT !.pc = "save"] \in Request
    BY <1>5, CallFacts DEF LinkReads, Request
  <2>2. GroupTypeOK'
    BY <1>5, <2>1 DEF LinkReads, GroupTypeOK
  <2>3. Joined'
    BY <1>5, CallFacts DEF LinkReads, GroupTypeOK, Joined, NoRequest
  <2> QED
    BY <1>5, <2>2, <2>3, Apart DEF LinkReads
<1>6. CASE LinkSaves(c)
  <2> DEFINE p == request[c].of
             new == [row[p] EXCEPT !.job = request[c].job, !.status = "uploaded"]
  <2>1. p \in Rows /\ request[c].job \in Jobs /\ row[p] \in Row
    BY <1>6, CallFacts DEF LinkSaves, Joined
  <2>2. new \in Row /\ row' = [row EXCEPT ![p] = new]
    BY <1>6, <2>1 DEF LinkSaves, Row, GroupTypeOK
  <2>3. GroupTypeOK'
    BY <1>6, <2>1, <2>2 DEF LinkSaves, GroupTypeOK, Request
  <2>4. Joined'
    BY <1>6, <2>1, <2>2 DEF LinkSaves, GroupTypeOK, Joined, NoRequest
  <2> QED
    BY <1>6, <2>3, <2>4, Apart DEF LinkSaves
<1> QED
  BY <1>1, <1>2, <1>3, <1>4, <1>5, <1>6

LEMMA PaysStep == ASSUME GroupIInv, NEW j \in Jobs, JobPaid(j) PROVE GroupIInv'
<1>1. GroupTypeOK' /\ Joined'
  BY DEF JobPaid, GroupIInv, GroupTypeOK, PrintJob, Joined
<1> QED
  BY <1>1, Apart DEF JobPaid

(***************************************************************************)
(* Closing                                                                 *)
(***************************************************************************)

LEMMA CloseReadsStep == ASSUME GroupIInv, NEW x \in Closers, CloseReads(x) PROVE GroupIInv'
<1>1. /\ closer' = [closer EXCEPT ![x] = "save"] /\ session.open
      /\ raced' = (raced \/ \E y \in Closers : closer[y] = "save")
      /\ UNCHANGED <<session, row, printJob, request, told, printed, crashes>>
  BY DEF CloseReads, Closeable
<1>2. GroupTypeOK'
  BY <1>1 DEF GroupIInv, GroupTypeOK
<1>3. CodesShown' /\ OneClose' /\ Joined'
  BY <1>1 DEF GroupIInv, GroupTypeOK, CodesShown, OneClose, Joined
<1> QED
  BY <1>2, <1>3 DEF GroupIInv

\* Of closes that do not overlap the first finds the session open, and nobody has a code.
LEMMA CloseSavesStep == ASSUME GroupIInv, NEW x \in Closers, CloseSaves(x) PROVE GroupIInv'
<1>1. /\ closer[x] = "save"
      /\ session' = [session EXCEPT !.open = FALSE, !.code = x]
      /\ told' \in {told, told \cup {x}}
      /\ closer' = [closer EXCEPT ![x] = "done"]
      /\ UNCHANGED <<row, printJob, request, printed, crashes, raced>>
  BY DEF CloseSaves
<1>2. ~session'.open /\ session'.code = x /\ session' \in Session
  BY <1>1 DEF GroupIInv, GroupTypeOK, Session
<1>3. GroupTypeOK'
  BY <1>1, <1>2 DEF GroupIInv, GroupTypeOK
<1>4. ~raced => told = {} /\ \A y \in Closers : closer'[y] # "save"
  BY <1>1 DEF GroupIInv, GroupTypeOK, CodesShown, OneClose, Joined
<1>5. CodesShown' /\ OneClose' /\ Joined'
  BY <1>1, <1>2, <1>4 DEF GroupIInv, CodesShown, OneClose, Joined
<1> QED
  BY <1>3, <1>5 DEF GroupIInv

LEMMA HostLooksStep == ASSUME GroupIInv, HostLooks PROVE GroupIInv'
<1>1. session.code \in Closers /\ ~session.open
  BY DEF HostLooks, GroupIInv, GroupTypeOK, Session, CodesShown
<1> QED
  BY <1>1 DEF HostLooks, GroupIInv, GroupTypeOK, CodesShown, OneClose, Joined

LEMMA DeadlinePassesStep == ASSUME GroupIInv, DeadlinePasses PROVE GroupIInv'
<1>1. /\ session' \in Session
      /\ session'.open = session.open /\ session'.code = session.code
      /\ UNCHANGED <<row, printJob, request, closer, told, printed, crashes, raced>>
  BY DEF DeadlinePasses, GroupIInv, GroupTypeOK, Session
<1> QED
  BY <1>1 DEF GroupIInv, GroupTypeOK, CodesShown, OneClose, Joined

LEMMA CompleteBatchStep ==
    ASSUME GroupIInv, NEW x \in Closers, CompleteBatch(x)
    PROVE  GroupIInv'
<1>1. BatchJobs \subseteq Jobs
  BY DEF BatchJobs, GroupIInv, GroupTypeOK, Row
<1>2. printed' \subseteq Jobs
  BY <1>1 DEF CompleteBatch, GroupIInv, GroupTypeOK
<1> QED
  BY <1>2 DEF CompleteBatch, GroupIInv, GroupTypeOK, CodesShown, OneClose, Joined

LEMMA CrashStep == ASSUME GroupIInv, Crash PROVE GroupIInv'
<1>1. crashes' \in 0..MaxCrashes
  BY GroupConstantsOK DEF Crash, GroupIInv, GroupTypeOK
<1>2. request' \in [Calls -> Request]
  BY DEF Crash, Request
<1>3. /\ closer' \in [Closers -> {"idle", "save", "done"}]
      /\ \A x \in Closers : closer'[x] # "save"
  BY DEF Crash, GroupIInv, GroupTypeOK
<1> QED
  BY <1>1, <1>2, <1>3 DEF Crash, GroupIInv, GroupTypeOK, CodesShown, OneClose, Joined,
     NoRequest

(***************************************************************************)
(* GroupSession: the theorems                                              *)
(***************************************************************************)

LEMMA NextGroup ==
    ASSUME GroupIInv, [GroupNext]_groupVars
    PROVE  GroupIInv'
<1>1. CASE UNCHANGED groupVars
  BY <1>1, StutterStep
<1>2. CASE \E c \in Calls :
              \/ \E person \in People : JoinReads(c, person)
              \/ \E p \in Rows : UploadChecks(c, p)
              \/ JoinInserts(c) \/ UploadInserts(c)
           \/ LinkReads(c) \/ LinkSaves(c)
  BY <1>2, ParticipantStep
<1>3. CASE \E j \in Jobs : JobPaid(j)
  BY <1>3, PaysStep
<1>4. CASE \E x \in Closers : CloseReads(x) \/ CloseSaves(x) \/ CompleteBatch(x)
  BY <1>4, CloseReadsStep, CloseSavesStep, CompleteBatchStep
<1>5. CASE HostLooks \/ DeadlinePasses \/ Crash
  BY <1>5, HostLooksStep, DeadlinePassesStep, CrashStep
<1> QED
  BY <1>1, <1>2, <1>3, <1>4, <1>5 DEF GroupNext

LEMMA GroupInvariance == GroupSpec => []GroupIInv
BY InitGroup, NextGroup, PTL DEF GroupSpec

\* Every variable keeps to its type.
THEOREM GroupTypeCorrect == GroupSpec => []GroupTypeOK
<1>1. GroupIInv => GroupTypeOK
  BY DEF GroupIInv
<1> QED
  BY <1>1, GroupInvariance, PTL

\* Only closes that overlap can void a code the host was shown.
THEOREM CodeKeptHolds == GroupSpec => []CodeKept
<1>1. GroupIInv => CodeKept
  BY DEF GroupIInv, CodesShown, CodeKept
<1> QED
  BY <1>1, GroupInvariance, PTL

\* Once a session is closed and the writes that had passed their last check are done, no
\* step of any request changes what its participants have in the batch.
LEMMA SettledStep ==
    ASSUME GroupTypeOK, Settled, [GroupNext]_groupVars
    PROVE  Settled' /\ row' = row
<1>1. ~session.open /\ \A c \in Calls : request[c].pc \notin {"join", "save"}
  BY DEF Settled
<1>2. CASE UNCHANGED <<session, row, request>>
  BY <1>1, <1>2 DEF Settled
<1>3. ASSUME NEW c \in Calls,
             \/ \E person \in People : JoinReads(c, person)
             \/ \E p \in Rows : UploadChecks(c, p)
             \/ JoinInserts(c) \/ LinkSaves(c)
      PROVE  FALSE
  BY <1>1, <1>3 DEF JoinReads, UploadChecks, Admits, JoinInserts,
     LinkSaves
<1>4. ASSUME NEW c \in Calls, UploadInserts(c) \/ LinkReads(c)
      PROVE  Settled' /\ row' = row
  <2>1. /\ request'[c].pc \notin {"join", "save"} /\ \A d \in Calls \ {c} : request'[d] = request[d]
        /\ UNCHANGED <<session, row>>
    BY <1>1, <1>4 DEF UploadInserts, LinkReads, Linkable, GroupTypeOK, NoRequest
  <2> QED
    BY <1>1, <2>1 DEF Settled
<1>5. CASE \E x \in Closers : CloseSaves(x)
  BY <1>1, <1>5 DEF CloseSaves, Settled, GroupTypeOK, Session
<1>6. CASE DeadlinePasses
  BY <1>1, <1>6 DEF DeadlinePasses, Settled, GroupTypeOK, Session
<1>7. CASE Crash
  BY <1>1, <1>7 DEF Crash, Settled, NoRequest
<1>8. CASE HostLooks \/ (\E j \in Jobs : JobPaid(j))
           \/ \E x \in Closers : CloseReads(x) \/ CompleteBatch(x)
  BY <1>2, <1>8 DEF HostLooks, JobPaid, CloseReads, CompleteBatch
<1> QED
  BY <1>2, <1>3, <1>4, <1>5, <1>6, <1>7, <1>8 DEF GroupNext, groupVars

THEOREM ClosedStaysSettledHolds ==
    GroupSpec => ClosedStaysSettled
<1>1. GroupIInv /\ [GroupNext]_groupVars => [Settled => Settled' /\ row' = row]_groupVars
  BY SettledStep DEF GroupIInv
<1> QED
  BY <1>1, GroupInvariance, PTL DEF GroupSpec, ClosedStaysSettled
===============================================================================
