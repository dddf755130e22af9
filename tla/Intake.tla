-------------------------------- MODULE Intake --------------------------------
(***************************************************************************)
(* From a document to a priced, paid job: the quote, the upload of one     *)
(* document or of a batch and the CUPS submission price it, redeem a       *)
(* promotion code that has a number of uses, and insert the job; the       *)
(* customer pays it through a checkout that reads the job's cost.  One     *)
(* code, which an admin may be editing meanwhile; every request sends it.  *)
(***************************************************************************)
EXTENDS Integers, FiniteSets

CONSTANTS
    Requests,    \* customers' documents, one request after another for each
    Sizes,       \* pages of a document; or documents, of a page each, of a batch
    PerPage,     \* the price of a page
    Promotions,  \* what the code may be worth: records of a type and a value
    MaxUses,     \* the promotion's maxUses
    MaxEdits,    \* bound: admin edits of the promotion
    MaxFaults    \* bound: handlers that fail or die, and answers that CUPS loses

ASSUME ConstantsOK ==
    /\ Sizes \subseteq Nat \ {0}
    /\ Promotions \subseteq [type: {"percentage", "fixed", "free_pages"}, value: Nat]
    /\ {PerPage, MaxUses, MaxEdits, MaxFaults} \subseteq Nat

VARIABLES
    worth,     \* the promotion's discountType and discountValue
    promo,     \* the rest of the promotions row
    call,      \* the handler at work for each request
    job,       \* the print_jobs row of each request, with its items
    checkout,  \* amounts of the checkouts opened for each job
    charged,   \* external: what the charge that paid the job took
    edit,      \* the admin's PATCH in flight
    redeemed,  \* history: discounts given
    undone,    \* history: uses that the save of an edit took off usageCount
    edits,     \* edits so far
    faults     \* failures so far

vars == <<worth, promo, call, job, checkout, charged, edit, redeemed, undone, edits, faults>>

Promo == [status: {"active", "inactive"}, used: Nat]

NoQuote == -1

\* total: the price so far; off: the discount computed; cost: the price to pay.
Call == [pc: {"idle", "items", "priced", "redeem", "costed", "quoted", "answered"},
         kind: {"quote", "single", "batch", "cups"}, size: Sizes \cup {0},
         total: Nat, off: Nat, cost: Nat, quote: Nat \cup {NoQuote}]
Idle == [pc |-> "idle", kind |-> "quote", size |-> 0,
         total |-> 0, off |-> 0, cost |-> 0, quote |-> NoQuote]

\* given: the discount in the cost.  items: rows of a batch.
Job == [status: {"none", "pending", "paid"}, cost: Nat, given: Nat, items: Nat]
NoJob == [status |-> "none", cost |-> 0, given |-> 0, items |-> 0]

TypeOK ==
    /\ worth \in Promotions
    /\ promo \in Promo
    /\ call \in [Requests -> Call]
    /\ job \in [Requests -> Job]
    /\ checkout \in [Requests -> SUBSET Nat]
    /\ charged \in [Requests -> Nat]
    /\ edit \in [pc: {"idle", "read"}, row: Promo]
    /\ redeemed \in Nat /\ undone \in Int
    /\ edits \in 0..MaxEdits /\ faults \in 0..MaxFaults

Init ==
    /\ worth \in Promotions
    /\ promo = [status |-> "active", used |-> 0]
    /\ call = [r \in Requests |-> Idle]
    /\ job = [r \in Requests |-> NoJob]
    /\ checkout = [r \in Requests |-> {}]
    /\ charged = [r \in Requests |-> 0]
    /\ edit = [pc |-> "idle", row |-> promo]
    /\ redeemed = 0 /\ undone = 0 /\ edits = 0 /\ faults = 0

(***************************************************************************)
(* Prices                                                                  *)
(***************************************************************************)

Smaller(a, b) == IF a < b THEN a ELSE b
Larger(a, b) == IF a > b THEN a ELSE b

\* computeCost: a price per page, and a floor of 5.
CostOf(pages) == Larger(5, PerPage * pages)

\* A batch is priced document by document.
FullPrice(r) == IF call[r].kind = "batch" THEN call[r].size * CostOf(1) ELSE CostOf(call[r].size)

\* What the code takes off a price, no more than the price.
Discount(cost, pages) ==
    Smaller(cost,
            CASE worth.type = "percentage" -> (cost * worth.value) \div 100
              [] worth.type = "fixed" -> worth.value
              [] worth.type = "free_pages" -> Smaller(worth.value, pages) * 5)

(***************************************************************************)
(* The requests, up to the price                                           *)
(***************************************************************************)

\* A quote, an upload, or a submission by CUPS.  The document's pages were counted.
Prices(r) ==
    /\ call[r].pc = "idle"
    /\ \E kind \in {"quote", "single", "cups"}, size \in Sizes :
          call' = [call EXCEPT ![r] = [Idle EXCEPT !.pc = "priced", !.kind = kind, !.size = size,
                                                   !.total = CostOf(size)]]
    /\ UNCHANGED <<worth, promo, job, checkout, charged, edit, redeemed, undone, edits, faults>>

\* Who saw a quote may then upload the document.
PricesQuoted(r) ==
    /\ call[r].pc = "quoted"
    /\ call' = [call EXCEPT ![r].pc = "priced", ![r].kind = "single"]
    /\ UNCHANGED <<worth, promo, job, checkout, charged, edit, redeemed, undone, edits, faults>>

\* A batch: the parent row comes first, PENDING at no cost ...
InsertsParent(r) ==
    /\ call[r].pc = "idle"
    /\ \E size \in Sizes :
          call' = [call EXCEPT ![r] = [Idle EXCEPT !.pc = "items", !.kind = "batch",
                                                   !.size = size]]
    /\ job' = [job EXCEPT ![r] = [NoJob EXCEPT !.status = "pending"]]
    /\ UNCHANGED <<worth, promo, checkout, charged, edit, redeemed, undone, edits, faults>>

\* ... then a row for each document, which is priced by itself ...
AddsItem(r) ==
    /\ call[r].pc = "items" /\ job[r].items < call[r].size
    /\ job' = [job EXCEPT ![r].items = @ + 1]
    /\ call' = [call EXCEPT ![r].total = @ + CostOf(1)]
    /\ UNCHANGED <<worth, promo, checkout, charged, edit, redeemed, undone, edits, faults>>

\* ... and the whole is ready for the code.
Totals(r) ==
    /\ call[r].pc = "items" /\ job[r].items = call[r].size
    /\ call' = [call EXCEPT ![r].pc = "priced"]
    /\ UNCHANGED <<worth, promo, job, checkout, charged, edit, redeemed, undone, edits, faults>>

(***************************************************************************)
(* applyPromotion                                                          *)
(***************************************************************************)

\* The row is read: a code that is not active, has no use left or takes nothing off
\* changes nothing.
ReadsPromo(r) ==
    /\ call[r].pc = "priced"
    /\ LET off == Discount(call[r].total, call[r].size)
           valid == promo.status = "active" /\ promo.used < MaxUses /\ off > 0 IN
       call' = [call EXCEPT ![r] = [@ EXCEPT !.pc = IF valid THEN "redeem" ELSE "costed",
                                             !.off = IF valid THEN off ELSE 0,
                                             !.cost = call[r].total]]
    /\ UNCHANGED <<worth, promo, job, checkout, charged, edit, redeemed, undone, edits, faults>>

\* Mutant: the use is counted without looking at the limit once more.
UseLeftUnseen == TRUE

\* WHERE maxUses IS NULL OR usageCount < maxUses.
UseLeft == promo.used < MaxUses

\* The conditional UPDATE; who loses the last use pays the full price.
Redeems(r) ==
    /\ call[r].pc = "redeem"
    /\ IF UseLeft
         THEN /\ promo' = [promo EXCEPT !.used = @ + 1]
              /\ redeemed' = redeemed + 1
              /\ call' = [call EXCEPT ![r].pc = "costed", ![r].cost = @ - call[r].off]
         ELSE /\ call' = [call EXCEPT ![r].pc = "costed", ![r].off = 0]
              /\ UNCHANGED <<promo, redeemed>>
    /\ UNCHANGED <<worth, job, checkout, charged, edit, undone, edits, faults>>

(***************************************************************************)
(* The requests, from the price on                                         *)
(***************************************************************************)

\* The quote shows the price; the use stays taken.
Quotes(r) ==
    /\ call[r].pc = "costed" /\ call[r].kind = "quote"
    /\ call' = [call EXCEPT ![r].pc = "quoted", ![r].quote = call[r].cost]
    /\ UNCHANGED <<worth, promo, job, checkout, charged, edit, redeemed, undone, edits, faults>>

\* The file is stored and the job inserted.  CUPS looks for the job of an earlier
\* submission first, when the code has been redeemed for this one.
InsertsJob(r) ==
    /\ call[r].pc = "costed" /\ call[r].kind \in {"single", "cups"}
    /\ call' = [call EXCEPT ![r].pc = "answered"]
    /\ IF job[r].status = "none"
         THEN job' = [job EXCEPT ![r] = [status |-> "pending", cost |-> call[r].cost,
                                         given |-> call[r].off, items |-> 0]]
         ELSE UNCHANGED job
    /\ UNCHANGED <<worth, promo, checkout, charged, edit, redeemed, undone, edits, faults>>

\* The batch saves the entity it inserted, with the price.
SavesBatch(r) ==
    /\ call[r].pc = "costed" /\ call[r].kind = "batch"
    /\ call' = [call EXCEPT ![r].pc = "answered"]
    /\ job' = [job EXCEPT ![r] = [status |-> "pending", cost |-> call[r].cost,
                                  given |-> call[r].off, items |-> job[r].items]]
    /\ UNCHANGED <<worth, promo, checkout, charged, edit, redeemed, undone, edits, faults>>

\* The store or the database fails the handler, or the process dies: what it has
\* written stays.
Fails(r) ==
    /\ call[r].pc \in {"items", "priced", "redeem", "costed"}
    /\ faults < MaxFaults
    /\ faults' = faults + 1
    /\ call' = [call EXCEPT ![r].pc = "answered"]
    /\ UNCHANGED <<worth, promo, job, checkout, charged, edit, redeemed, undone, edits>>

\* The answer to CUPS is lost, or was an error, and it submits the document again.
Resubmits(r) ==
    /\ call[r].pc = "answered" /\ call[r].kind = "cups"
    /\ faults < MaxFaults
    /\ faults' = faults + 1
    /\ call' = [call EXCEPT ![r].pc = "priced", ![r].total = CostOf(call[r].size)]
    /\ UNCHANGED <<worth, promo, job, checkout, charged, edit, redeemed, undone, edits>>

(***************************************************************************)
(* The payment and the admin                                               *)
(***************************************************************************)

\* Mutant: a job at no cost goes to Paystack too.
PayableAtNothing(r) == job[r].status = "pending"

\* A PENDING job is paid for when it costs something; for CUPS it is Paystack that refuses an
\* amount of nothing.
Payable(r) == job[r].status = "pending" /\ job[r].cost > 0

\* POST /initialize-job-payment, and the CUPS handler for the job it found or inserted.
OpensCheckout(r) ==
    /\ Payable(r)
    /\ checkout' = [checkout EXCEPT ![r] = @ \cup {job[r].cost}]
    /\ UNCHANGED <<worth, promo, call, job, charged, edit, redeemed, undone, edits, faults>>

\* External: the customer pays an open checkout, and completePrintJobPayment takes the
\* job, if it is PENDING, for paid.
Pays(r) ==
    /\ job[r].status = "pending"
    /\ \E amount \in checkout[r] : charged' = [charged EXCEPT ![r] = amount]
    /\ job' = [job EXCEPT ![r].status = "paid"]
    /\ UNCHANGED <<worth, promo, call, checkout, edit, redeemed, undone, edits, faults>>

\* PATCH /promotions/:id reads the row ...
EditReads ==
    /\ edit.pc = "idle" /\ edits < MaxEdits
    /\ edit' = [pc |-> "read", row |-> promo]
    /\ edits' = edits + 1
    /\ UNCHANGED <<worth, promo, call, job, checkout, charged, redeemed, undone, faults>>

\* ... and saves it with what the admin changed, usageCount as it was read.
EditSaves ==
    /\ edit.pc = "read"
    /\ \E status \in {"active", "inactive"} : promo' = [edit.row EXCEPT !.status = status]
    /\ undone' = undone + (promo.used - edit.row.used)
    /\ edit' = [edit EXCEPT !.pc = "idle"]
    /\ UNCHANGED <<worth, call, job, checkout, charged, redeemed, edits, faults>>

(***************************************************************************)
(* The system                                                              *)
(***************************************************************************)

Next ==
    \/ \E r \in Requests :
          \/ Prices(r) \/ PricesQuoted(r)
          \/ InsertsParent(r) \/ AddsItem(r) \/ Totals(r)
          \/ ReadsPromo(r) \/ Redeems(r)
          \/ Quotes(r) \/ InsertsJob(r) \/ SavesBatch(r)
          \/ Fails(r) \/ Resubmits(r)
          \/ OpensCheckout(r) \/ Pays(r)
    \/ EditReads
    \/ EditSaves

Spec == Init /\ [][Next]_vars

(***************************************************************************)
(* Properties                                                              *)
(***************************************************************************)

\* The code is redeemed no more often than maxUses allows, whoever reads the row before
\* whom, but for the uses that an admin's edit, saved over redemptions it had not seen,
\* takes off the count.
NeverOversold == redeemed <= MaxUses + undone

\* Who pays, pays for the whole: every document of the batch is in, and the charge is their
\* price less the discount the job was given, although the batch is PENDING, and can be found
\* by the payment's handler, from its first row on.
PaidInFull ==
    \A r \in Requests :
        job[r].status = "paid" =>
            /\ charged[r] = FullPrice(r) - job[r].given
            /\ call[r].kind = "batch" => job[r].items = call[r].size

(***************************************************************************)
(* What comments say and the code does not do                              *)
(***************************************************************************)

\* customerPrint.routes.ts:671-672: the number the customer sees in the quote is the number
\* that will be debited.
QuoteHolds ==
    \A r \in Requests :
        call[r].quote # NoQuote /\ job[r].status # "none" => job[r].cost = call[r].quote

\* promotion.service.ts:20-21: the cost is always positive; discounts that would push the
\* total below the floor are clamped.  (A job at no cost cannot be paid, and never prints.)
AlwaysPositive == \A r \in Requests : call[r].pc = "answered" /\ job[r].given > 0 => job[r].cost > 0

\* customerPrint.routes.ts:514-515: a single redemption per batch, so that the usage counter
\* stays meaningful: it counts the jobs that have the discount.
UsesAreJobs ==
    (\A r \in Requests : call[r].pc \in {"idle", "quoted", "answered"})
        => promo.used + undone = Cardinality({r \in Requests : job[r].given > 0})
===============================================================================
