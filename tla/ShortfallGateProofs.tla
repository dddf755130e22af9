------------------------- MODULE ShortfallGateProofs -------------------------
(***************************************************************************)
(* Proofs about ShortfallGate, for any number of overlapping requests, of  *)
(* faults and of documents cloud-push prints: how often a customer who     *)
(* pays the difference can be charged, and the job be released.            *)
(***************************************************************************)
EXTENDS ShortfallGate, FiniteSetTheorems, TLAPS

(***************************************************************************)
(* The inductive invariant                                                 *)
(***************************************************************************)

\* How many of the requests f are at one of the points P.
Count(f, P) == Cardinality({q \in Requests : f[q].pc \in P})

Recording(f) == Count(f, {"record"})           \* charged, and not recorded yet
Owing(f) == Count(f, {"record", "credit"})     \* charged, and not credited yet
Charging(f) == Count(f, {"prior", "charge"})   \* may still charge the card

\* Will save the entity they read, and it says READY.
WillSaveReady(r) == r.pc \in {"prior", "charge", "record"} /\ r.row.status = "ready"
Saving(f) == Cardinality({q \in Requests : WillSaveReady(f[q])})

\* Charges the requests may make again because a settled cost was forgotten.
Again == Cardinality(Requests) * forgotten

\* The card of the Payment can be charged: otherwise every request passes, or is turned away.
Collects == Collected /\ customer.card

\* Only what was charged is recorded, settled, released or printed.
OnlyCharged ==
    Collected =>
        /\ customer.deltas > 0 \/ row # NewRow \/ releases > 0 \/ printed > 0 => charges > 0
        /\ \A q \in Requests :
              request[q].pc \in {"record", "credit", "release", "complete"} => charges > 0

\* Where nothing is collected nothing is charged or settled, and the one release stands.
Uncollected ==
    ~Collects =>
        /\ charges = 0 /\ customer.deltas = 0 /\ row.cost = "estimate"
        /\ \A q \in Requests :
              /\ request[q].pc \notin {"charge", "record", "credit"}
              /\ request[q].pc = "prior" => customer.paid
              /\ request[q].found = "estimate"
        /\ releases > 0 => releases = 1 /\ row.status # "ready" /\ Requests # {}

\* Before the first request has settled the difference: nobody is past the charge.
Unsettled ==
    Collects /\ row = NewRow =>
        /\ releases = 0 /\ customer.deltas = 0
        /\ \A q \in Requests : request[q].pc \notin {"credit", "release", "complete"}

\* While the row says that the difference is owed, each charge is about to be recorded, the
\* work of a fault, or of a time before the cost was forgotten.  While it says that it is
\* settled nobody reads it as unsettled: each request that did may charge once.
Bounded ==
    /\ row.cost = "estimate" => charges <= Recording(request) + Again + faults
    /\ row.cost = "final" =>
          charges + Charging(request) <= Cardinality(Requests) + Again + faults

\* Once the new row has changed nobody reads it READY and unsettled any more: each request
\* that did may save it READY once.
Settled ==
    Collects /\ row # NewRow =>
        releases + (IF row.status = "ready" THEN 1 ELSE 0) + Saving(request)
            <= Cardinality(Requests)

\* Every charge is credited once at most.
CreditsLag == credited + Owing(request) <= charges

IInv == TypeOK /\ OnlyCharged /\ Uncollected /\ Unsettled /\ Bounded /\ Settled /\ CreditsLag

(***************************************************************************)
(* Counting requests                                                       *)
(***************************************************************************)

\* A set of requests has a number of members, no larger than that of all requests.
LEMMA Numbers ==
    ASSUME NEW S \in SUBSET Requests
    PROVE  IsFiniteSet(S) /\ Cardinality(S) \in Nat /\ Cardinality(S) <= Cardinality(Requests)
<1>1. IsFiniteSet(S) /\ Cardinality(S) <= Cardinality(Requests)
  BY ConstantsOK, FS_Subset
<1>2. QED
  BY <1>1, FS_CardinalityType

\* Two sets of requests that differ in q alone.
LEMMA SetMove ==
    ASSUME NEW q \in Requests, NEW S \in SUBSET Requests, NEW T \in SUBSET Requests,
           S \ {q} = T \ {q}
    PROVE  Cardinality(T) = Cardinality(S) + (IF q \in T THEN 1 ELSE 0)
                                           - (IF q \in S THEN 1 ELSE 0)
<1>1. /\ IsFiniteSet(S) /\ Cardinality(S) \in Nat
      /\ IsFiniteSet(T) /\ Cardinality(T) \in Nat
  BY Numbers
<1>2. Cardinality(S \ {q}) = IF q \in S THEN Cardinality(S) - 1 ELSE Cardinality(S)
  BY <1>1, FS_RemoveElement
<1>3. Cardinality(T \ {q}) = IF q \in T THEN Cardinality(T) - 1 ELSE Cardinality(T)
  BY <1>1, FS_RemoveElement
<1>4. QED
  BY <1>1, <1>2, <1>3

\* f and g agree on all requests but q.
Apart(f, g, q) == \A r \in Requests \ {q} : g[r] = f[r]

\* When one request moves, a count changes by where it was and where it is.
LEMMA CountMove ==
    ASSUME NEW f, NEW g, NEW q \in Requests, Apart(f, g, q), NEW P
    PROVE  Count(g, P) = Count(f, P) + (IF g[q].pc \in P THEN 1 ELSE 0)
                                     - (IF f[q].pc \in P THEN 1 ELSE 0)
<1> DEFINE Before == {r \in Requests : f[r].pc \in P}
           After == {r \in Requests : g[r].pc \in P}
<1>1. Before \in SUBSET Requests /\ After \in SUBSET Requests
  OBVIOUS
<1>2. Before \ {q} = After \ {q}
  BY DEF Apart
<1>3. (q \in Before <=> f[q].pc \in P) /\ (q \in After <=> g[q].pc \in P)
  OBVIOUS
<1>4. Count(f, P) = Cardinality(Before) /\ Count(g, P) = Cardinality(After)
  BY DEF Count
<1>5. QED
  <2> HIDE DEF Before, After
  <2>1. QED
    BY <1>1, <1>2, <1>3, <1>4, SetMove

\* So does the number of requests that will save READY.
LEMMA SavingMove ==
    ASSUME NEW f, NEW g, NEW q \in Requests, Apart(f, g, q)
    PROVE  Saving(g) = Saving(f) + (IF WillSaveReady(g[q]) THEN 1 ELSE 0)
                                 - (IF WillSaveReady(f[q]) THEN 1 ELSE 0)
<1> DEFINE Before == {r \in Requests : WillSaveReady(f[r])}
           After == {r \in Requests : WillSaveReady(g[r])}
<1>1. Before \in SUBSET Requests /\ After \in SUBSET Requests
  OBVIOUS
<1>2. Before \ {q} = After \ {q}
  BY DEF Apart
<1>3. (q \in Before <=> WillSaveReady(f[q])) /\ (q \in After <=> WillSaveReady(g[q]))
  OBVIOUS
<1>4. Saving(f) = Cardinality(Before) /\ Saving(g) = Cardinality(After)
  BY DEF Saving
<1>5. QED
  <2> HIDE DEF Before, After
  <2>1. QED
    BY <1>1, <1>2, <1>3, <1>4, SetMove

\* The four counts are numbers; those that record and those that may charge are apart.
LEMMA Counts ==
    ASSUME NEW f
    PROVE  /\ Recording(f) \in Nat /\ Owing(f) \in Nat
           /\ Charging(f) \in Nat /\ Saving(f) \in Nat
           /\ Charging(f) + Recording(f) <= Cardinality(Requests)
           /\ Saving(f) <= Cardinality(Requests)
           /\ Cardinality(Requests) \in Nat
<1>1. \A P : Count(f, P) \in Nat /\ Count(f, P) <= Cardinality(Requests)
  <2> TAKE P
  <2>1. {q \in Requests : f[q].pc \in P} \in SUBSET Requests
    OBVIOUS
  <2>2. QED
    BY <2>1, Numbers DEF Count
<1>2. Saving(f) \in Nat /\ Saving(f) <= Cardinality(Requests)
  <2>1. {q \in Requests : WillSaveReady(f[q])} \in SUBSET Requests
    OBVIOUS
  <2>2. QED
    BY <2>1, Numbers DEF Saving
<1>3. Charging(f) + Recording(f) <= Cardinality(Requests)
  <2> DEFINE C == {q \in Requests : f[q].pc \in {"prior", "charge"}}
             R == {q \in Requests : f[q].pc \in {"record"}}
             S == {q \in Requests : f[q].pc \in {"prior", "charge", "record"}}
  <2>1. C \in SUBSET Requests /\ R \in SUBSET Requests /\ S = C \cup R /\ C \cap R = {}
    OBVIOUS
  <2>2. IsFiniteSet(C) /\ IsFiniteSet(R)
    BY <2>1, Numbers
  <2>3. Cardinality(C) + Cardinality(R) <= Cardinality(Requests)
    <3> HIDE DEF C, R, S
    <3>1. Cardinality(C \cup R) = Cardinality(C) + Cardinality(R) - Cardinality(C \cap R)
      BY <2>2, FS_Union
    <3>2. Cardinality(C) \in Nat /\ Cardinality(R) \in Nat /\ Cardinality(C \cap R) = 0
      BY <2>1, <2>2, FS_CardinalityType, FS_EmptySet
    <3>3. C \cup R \in SUBSET Requests
      BY <2>1
    <3>4. Cardinality(C \cup R) <= Cardinality(Requests)
      BY <3>3, Numbers
    <3>5. QED
      BY <3>1, <3>2, <3>4
  <2>4. QED
    BY <2>3 DEF Charging, Recording, Count
<1>4. Cardinality(Requests) \in Nat
  BY ConstantsOK, FS_CardinalityType
<1>5. QED
  BY <1>1, <1>2, <1>3, <1>4 DEF Recording, Owing, Charging

\* A request that goes from one point to another, and no other request.
Moves(q, from, to) ==
    /\ request[q].pc = from
    /\ request'[q].pc = to
    /\ Apart(request, request', q)

In(pc, P) == IF pc \in P THEN 1 ELSE 0

\* What it does to the counts.
LEMMA MovesCounts ==
    ASSUME NEW q \in Requests, NEW from, NEW to, Moves(q, from, to)
    PROVE  /\ Recording(request') = Recording(request) + In(to, {"record"}) - In(from, {"record"})
           /\ Owing(request') = Owing(request) + In(to, {"record", "credit"})
                                              - In(from, {"record", "credit"})
           /\ Charging(request') = Charging(request) + In(to, {"prior", "charge"})
                                                    - In(from, {"prior", "charge"})
           /\ Saving(request') = Saving(request)
                  + (IF WillSaveReady(request'[q]) THEN 1 ELSE 0)
                  - (IF WillSaveReady(request[q]) THEN 1 ELSE 0)
<1>1. ASSUME NEW P
      PROVE  Count(request', P) = Count(request, P) + In(to, P) - In(from, P)
  <2>1. Count(request', P) = Count(request, P) + (IF request'[q].pc \in P THEN 1 ELSE 0)
                                               - (IF request[q].pc \in P THEN 1 ELSE 0)
    BY CountMove DEF Moves
  <2>2. QED
    BY <2>1 DEF Moves, In
<1>2. Saving(request') = Saving(request)
          + (IF WillSaveReady(request'[q]) THEN 1 ELSE 0)
          - (IF WillSaveReady(request[q]) THEN 1 ELSE 0)
  BY SavingMove DEF Moves
<1>3. QED
  BY <1>1, <1>2 DEF Recording, Owing, Charging

\* What may be charged again grows with the times a cost is forgotten.
LEMMA AgainMoves ==
    ASSUME forgotten \in Nat
    PROVE  /\ Again \in Nat
           /\ forgotten' = forgotten => Again' = Again
           /\ forgotten' = forgotten + 1 => Again' = Again + Cardinality(Requests)
<1>1. Cardinality(Requests) \in Nat
  BY ConstantsOK, FS_CardinalityType
<1>2. \A n, k \in Nat : n * k \in Nat /\ n * (k + 1) = n * k + n
  OBVIOUS
<1>3. QED
  BY <1>1, <1>2 DEF Again

(***************************************************************************)
(* Every step keeps the invariant                                          *)
(***************************************************************************)

\* A step of q that collects nothing where nothing is collected.
StepsBy(q) ==
    /\ charges' = 0 /\ customer'.deltas = 0 /\ row'.cost = "estimate"
    /\ request'[q].pc \notin {"charge", "record", "credit"}
    /\ request'[q].pc = "prior" => customer.paid
    /\ request'[q].found = "estimate"
    /\ releases' > 0 => releases' = 1 /\ row'.status # "ready"

LEMMA UncollectedKept ==
    ASSUME Uncollected, NEW q \in Requests, Apart(request, request', q),
           Collects' <=> Collects, customer'.paid = customer.paid, ~Collects => StepsBy(q)
    PROVE  Uncollected'
<1> SUFFICES ASSUME ~Collects PROVE Uncollected'
  BY DEF Uncollected
<1>1. \A r \in Requests \ {q} : request'[r] = request[r]
  BY DEF Apart
<1>2. QED
  BY <1>1 DEF Uncollected, StepsBy

\* No request has arrived, nothing is charged.
LEMMA InitIInv == Init => IInv
<1> SUFFICES ASSUME Init PROVE IInv
  OBVIOUS
<1>1. TypeOK
  BY DEF Init, TypeOK, Row, NewRow, Request, IdleRequest, Customer
<1>2. OnlyCharged /\ Uncollected /\ Unsettled /\ Settled
  BY DEF Init, NewRow, IdleRequest, OnlyCharged, Uncollected, Unsettled, Settled, Collects
<1>3. Bounded
  <2>1. Recording(request) \in Nat /\ Again \in Nat
    BY Counts, AgainMoves DEF Init
  <2>2. QED
    BY <2>1 DEF Init, NewRow, Bounded
<1>4. CreditsLag
  <2>1. {q \in Requests : request[q].pc \in {"record", "credit"}} = {}
    BY DEF Init, IdleRequest
  <2>2. QED
    <3>1. Owing(request) = 0
      BY <2>1, FS_EmptySet DEF Owing, Count
    <3>2. QED
      BY <3>1 DEF Init, CreditsLag
<1>5. QED
  BY <1>1, <1>2, <1>3, <1>4 DEF IInv

\* While the row is new its cost is the estimate, and only then is it READY at that cost.
LEMMA NewRowIs == ASSUME TypeOK
                  PROVE  row = NewRow <=> row.cost = "estimate" /\ row.status = "ready"
BY DEF TypeOK, Row, NewRow

\* An arrival charges and saves nothing.
LEMMA ArrivesStep ==
    ASSUME NEW q \in Requests, NEW mode \in Modes, IInv, Arrives(q, mode)
    PROVE  IInv'
<1> USE DEF IInv
<1>1. TypeOK'
  BY ConstantsOK DEF TypeOK, Row, Request, IdleRequest, NewRow, Arrives
<1>2. Moves(q, "idle", "gate")
  BY DEF Moves, Apart, TypeOK, Request, IdleRequest, Arrives
<1>3. /\ Recording(request') = Recording(request)
      /\ Owing(request') = Owing(request)
      /\ Charging(request') = Charging(request)
      /\ Saving(request') = Saving(request)
  <2>1. /\ Recording(request') = Recording(request)
        /\ Owing(request') = Owing(request)
        /\ Charging(request') = Charging(request)
    BY <1>2, MovesCounts, Counts DEF In
  <2>2. Saving(request') = Saving(request)
    <3>1. ~WillSaveReady(request[q]) /\ ~WillSaveReady(request'[q])
      BY <1>2 DEF Moves, WillSaveReady
    <3>2. QED
      BY <1>2, <3>1, MovesCounts, Counts
  <2>3. QED
    BY <2>1, <2>2
<1>4. /\ {Recording(request), Owing(request), Charging(request), Saving(request)} \subseteq Nat
      /\ Cardinality(Requests) \in Nat
      /\ Charging(request) + Recording(request) <= Cardinality(Requests)
      /\ Saving(request) <= Cardinality(Requests)
  BY Counts
<1>5. Again \in Nat /\ Again' = Again
  BY AgainMoves DEF TypeOK, Arrives
<1>6. OnlyCharged'
  BY <1>2 DEF TypeOK, Row, NewRow, OnlyCharged, Unsettled, Moves, Apart, Arrives, Collected,
     Collects, Customer
<1>7. Unsettled'
  BY <1>2 DEF TypeOK, Row, NewRow, OnlyCharged, Unsettled, Moves, Apart, Arrives, Collects,
     Collected, Customer, Uncollected
<1>8. Bounded'
  BY <1>3, <1>4, <1>5 DEF TypeOK, Row, Request, Bounded, Arrives
<1>9. Settled'
  BY <1>2, <1>3, <1>4 DEF TypeOK, Row, Request, NewRow, Unsettled, Settled, Moves, Arrives,
     Collects, Collected, Customer, Uncollected
<1>10. CreditsLag'
  BY <1>3, <1>4 DEF TypeOK, CreditsLag, Arrives
<1>11. Uncollected'
  <2>1. Apart(request, request', q) /\ (Collects' <=> Collects) /\ customer'.paid = customer.paid
    BY <1>2 DEF TypeOK, Customer, Moves, Collects, Collected, Arrives
  <2>2. ~Collects => StepsBy(q)
    BY <1>2 DEF TypeOK, Row, Request, IdleRequest, NewRow, Customer, Uncollected, Collects,
       Collected, Moves, StepsBy, Arrives
  <2>3. QED
    BY <2>1, <2>2, UncollectedKept
<1>12. QED
  BY <1>1, <1>6, <1>7, <1>8, <1>9, <1>10, <1>11

\* Whoever reads the row as settled will not save it; who reads it as unsettled counts, and
\* will save READY if the row is still the new one.
LEMMA GateReadsStep ==
    ASSUME NEW q \in Requests, IInv, GateReads(q)
    PROVE  IInv'
<1> USE DEF IInv
<1>1. TypeOK'
  <2>1. row \in Row /\ payment \in Nat /\ request[q] \in Request
    BY DEF TypeOK
  <2>2. request'[q] \in Request
    BY <2>1 DEF TypeOK, Request, GateReads
  <2>3. request' \in [Requests -> Request]
    BY <2>2 DEF TypeOK, GateReads
  <2>4. QED
    BY <2>3 DEF TypeOK, GateReads
<1> DEFINE passes == row.cost = "final" \/ ~customer.paid
<1>2. IF passes THEN Moves(q, "gate", "release") ELSE Moves(q, "gate", "prior")
  BY DEF Moves, Apart, TypeOK, Request, GateReads
<1>3. /\ Recording(request') = Recording(request)
      /\ Owing(request') = Owing(request)
      /\ Charging(request') = Charging(request) + (IF passes THEN 0 ELSE 1)
      /\ Saving(request') = Saving(request) + (IF row = NewRow /\ ~passes THEN 1 ELSE 0)
  <2>1. CASE passes
    <3>1. ~WillSaveReady(request[q]) /\ ~WillSaveReady(request'[q])
      BY <1>2, <2>1 DEF Moves, WillSaveReady
    <3>2. QED
      BY <1>2, <2>1, <3>1, MovesCounts, Counts DEF In
  <2>2. CASE ~passes
    <3>1. ~WillSaveReady(request[q]) /\ (WillSaveReady(request'[q]) <=> row = NewRow)
      BY <1>2, <2>2, NewRowIs DEF Moves, WillSaveReady, TypeOK, Row, Request, GateReads
    <3>2. QED
      BY <1>2, <2>2, <3>1, MovesCounts, Counts DEF In
  <2>3. QED
    BY <2>1, <2>2
<1>4. /\ {Recording(request), Owing(request), Charging(request), Saving(request)} \subseteq Nat
      /\ Cardinality(Requests) \in Nat
      /\ Charging(request) + Recording(request) <= Cardinality(Requests)
      /\ Saving(request) <= Cardinality(Requests)
  BY Counts
<1>5. Again \in Nat /\ Again' = Again
  BY AgainMoves DEF TypeOK, GateReads
<1>6. OnlyCharged'
  BY <1>2 DEF TypeOK, Row, NewRow, OnlyCharged, Unsettled, Moves, Apart, GateReads, Collected,
     Collects, Customer
<1>7. Unsettled'
  BY <1>2 DEF TypeOK, Row, NewRow, OnlyCharged, Unsettled, Moves, Apart, GateReads, Collects,
     Collected, Customer, Uncollected
<1>8. Bounded'
  BY <1>3, <1>4, <1>5 DEF TypeOK, Row, Bounded, GateReads
<1>9. Settled'
  BY <1>3, <1>4 DEF TypeOK, Row, Settled, GateReads, Collects, Collected, Customer, Uncollected
<1>10. CreditsLag'
  BY <1>3, <1>4 DEF TypeOK, CreditsLag, GateReads
<1>11. Uncollected'
  <2>1. Apart(request, request', q) /\ (Collects' <=> Collects) /\ customer'.paid = customer.paid
    BY <1>2 DEF TypeOK, Customer, Moves, Collects, Collected, GateReads
  <2>2. ~Collects => StepsBy(q)
    BY <1>2 DEF TypeOK, Row, Request, IdleRequest, NewRow, Customer, Uncollected, Collects,
       Collected, Moves, StepsBy, GateReads
  <2>3. QED
    BY <2>1, <2>2, UncollectedKept
<1>12. QED
  BY <1>1, <1>6, <1>7, <1>8, <1>9, <1>10, <1>11

\* The save of the guard settles nothing that was not charged.
LEMMA PriorFoundStep ==
    ASSUME NEW q \in Requests, IInv, PriorFound(q)
    PROVE  IInv'
<1> USE DEF IInv
<1>1. TypeOK'
  <2>1. request[q] \in Request /\ request[q].row \in Row /\ request[q].payment \in Nat
    BY DEF TypeOK, Request
  <2>2. request' \in [Requests -> Request]
    BY <2>1 DEF TypeOK, Request, PriorFound, Goes
  <2>3. row' \in Row
    BY <2>1 DEF Row, PriorFound, Goes
  <2>4. QED
    BY <2>1, <2>2, <2>3 DEF TypeOK, PriorFound, Goes
<1>2. Moves(q, "prior", "release")
  BY DEF Moves, Apart, TypeOK, Request, IdleRequest, PriorFound, Goes
<1>3. /\ Recording(request') = Recording(request)
      /\ Owing(request') = Owing(request)
      /\ Charging(request') = Charging(request) - 1
      /\ Saving(request') = Saving(request) - (IF request[q].row.status = "ready" THEN 1 ELSE 0)
  <2>1. /\ Recording(request') = Recording(request)
        /\ Owing(request') = Owing(request)
        /\ Charging(request') = Charging(request) - 1
    BY <1>2, MovesCounts, Counts DEF In
  <2>2. Saving(request') = Saving(request) - (IF request[q].row.status = "ready" THEN 1 ELSE 0)
    <3>1. /\ ~WillSaveReady(request'[q])
          /\ WillSaveReady(request[q]) <=> request[q].row.status = "ready"
      BY <1>2 DEF Moves, WillSaveReady
    <3>2. QED
      BY <1>2, <3>1, MovesCounts, Counts
  <2>3. QED
    BY <2>1, <2>2
<1>4. /\ {Recording(request), Owing(request), Charging(request), Saving(request)} \subseteq Nat
      /\ Cardinality(Requests) \in Nat
      /\ Charging(request) + Recording(request) <= Cardinality(Requests)
      /\ Saving(request) <= Cardinality(Requests)
  BY Counts
<1>5. Again \in Nat /\ Again' = Again
  BY AgainMoves DEF TypeOK, PriorFound, Goes
<1>6. OnlyCharged'
  BY <1>2 DEF TypeOK, Row, NewRow, OnlyCharged, Unsettled, Moves, Apart, PriorFound, Goes,
     Collected, Collects, Customer
<1>7. Unsettled'
  BY <1>2 DEF TypeOK, Row, NewRow, OnlyCharged, Unsettled, Moves, Apart, PriorFound, Goes,
     Collects, Collected, Customer, Uncollected
<1>8. Bounded'
  BY <1>3, <1>4, <1>5 DEF TypeOK, Row, Request, Bounded, PriorFound, Goes
<1>9. Settled'
  BY <1>2, <1>3, <1>4 DEF TypeOK, Row, Request, NewRow, Unsettled, Settled, Moves, PriorFound,
     Goes, Collects, Collected, Customer, Uncollected
<1>10. CreditsLag'
  BY <1>3, <1>4 DEF TypeOK, CreditsLag, PriorFound, Goes
<1>11. Uncollected'
  <2>1. Apart(request, request', q) /\ (Collects' <=> Collects) /\ customer'.paid = customer.paid
    BY <1>2 DEF TypeOK, Customer, Moves, Collects, Collected, PriorFound, Goes
  <2>2. ~Collects => StepsBy(q)
    BY <1>2 DEF TypeOK, Row, Request, IdleRequest, NewRow, Customer, Uncollected, Collects,
       Collected, Moves, StepsBy, PriorFound, Goes
  <2>3. QED
    BY <2>1, <2>2, UncollectedKept
<1>12. QED
  BY <1>1, <1>6, <1>7, <1>8, <1>9, <1>10, <1>11

\* No earlier charge is found; nothing changes but the request.
LEMMA PriorMissingStep ==
    ASSUME NEW q \in Requests, IInv, PriorMissing(q)
    PROVE  IInv'
<1> USE DEF IInv
<1>1. TypeOK'
  BY ConstantsOK DEF TypeOK, Row, Request, IdleRequest, NewRow, PriorMissing, Goes, Answers
<1> DEFINE Charges == customer.user /\ customer.card
<1>2. /\ customer.user /\ customer.card => Moves(q, "prior", "charge")
      /\ ~customer.user => Moves(q, "prior", "release")
      /\ customer.user /\ ~customer.card => Moves(q, "prior", "idle")
  BY DEF Moves, Apart, TypeOK, Request, IdleRequest, PriorMissing, Goes, Answers
<1>3. /\ Recording(request') = Recording(request)
      /\ Owing(request') = Owing(request)
      /\ Charging(request') = Charging(request) - (IF Charges THEN 0 ELSE 1)
      /\ Saving(request') = Saving(request)
            - (IF ~Charges /\ request[q].row.status = "ready" THEN 1 ELSE 0)
  <2>1. CASE Charges
    <3>1. WillSaveReady(request'[q]) <=> WillSaveReady(request[q])
      BY <1>2, <2>1 DEF Moves, WillSaveReady, TypeOK, Request, PriorMissing, Goes
    <3>2. QED
      BY <1>2, <2>1, <3>1, MovesCounts, Counts DEF In
  <2>2. CASE ~Charges
    <3>1. /\ ~WillSaveReady(request'[q])
          /\ WillSaveReady(request[q]) <=> request[q].row.status = "ready"
      BY <1>2, <2>2 DEF Moves, WillSaveReady
    <3>2. CASE customer.user
      BY <1>2, <2>2, <3>1, <3>2, MovesCounts, Counts DEF In
    <3>3. CASE ~customer.user
      BY <1>2, <2>2, <3>1, <3>3, MovesCounts, Counts DEF In
    <3>4. QED
      BY <3>2, <3>3
  <2>3. QED
    BY <2>1, <2>2
<1>4. /\ {Recording(request), Owing(request), Charging(request), Saving(request)} \subseteq Nat
      /\ Cardinality(Requests) \in Nat
      /\ Charging(request) + Recording(request) <= Cardinality(Requests)
      /\ Saving(request) <= Cardinality(Requests)
  BY Counts
<1>5. Again \in Nat /\ Again' = Again
  BY AgainMoves DEF TypeOK, PriorMissing, Goes, Answers
<1>6. OnlyCharged'
  BY <1>2 DEF TypeOK, Row, NewRow, OnlyCharged, Unsettled, Moves, Apart, PriorMissing, Goes,
     Answers, Collected, Collects, Customer
<1>7. Unsettled'
  BY <1>2 DEF TypeOK, Row, NewRow, OnlyCharged, Unsettled, Moves, Apart, PriorMissing, Goes,
     Answers, Collects, Collected, Customer, Uncollected
<1>8. Bounded'
  BY <1>3, <1>4, <1>5 DEF TypeOK, Row, Request, Bounded, PriorMissing, Goes, Answers
<1>9. Settled'
  BY <1>2, <1>3, <1>4 DEF TypeOK, Row, Request, NewRow, Unsettled, Settled, Moves, PriorMissing,
     Goes, Answers, Collects, Collected, Customer, Uncollected
<1>10. CreditsLag'
  BY <1>3, <1>4 DEF TypeOK, CreditsLag, PriorMissing, Goes, Answers
<1>11. Uncollected'
  <2>1. Apart(request, request', q) /\ (Collects' <=> Collects) /\ customer'.paid = customer.paid
    BY <1>2 DEF TypeOK, Customer, Moves, Collects, Collected, PriorMissing, Goes, Answers
  <2>2. ~Collects => StepsBy(q)
    BY <1>2 DEF TypeOK, Row, Request, IdleRequest, NewRow, Customer, Uncollected, Collects,
       Collected, Moves, StepsBy, PriorMissing, Goes, Answers
  <2>3. QED
    BY <2>1, <2>2, UncollectedKept
<1>12. QED
  BY <1>1, <1>6, <1>7, <1>8, <1>9, <1>10, <1>11

\* A charge is owed to the record.
LEMMA ChargedStep ==
    ASSUME NEW q \in Requests, IInv, Charged(q)
    PROVE  IInv'
<1> USE DEF IInv
<1>1. TypeOK'
  <2>1. request' \in [Requests -> Request]
    BY DEF TypeOK, Request, Charged, Goes
  <2>2. QED
    BY <2>1 DEF TypeOK, Charged
<1>2. Moves(q, "charge", "record")
  BY DEF Moves, Apart, TypeOK, Request, IdleRequest, Charged, Goes
<1>3. /\ Recording(request') = Recording(request) + 1
      /\ Owing(request') = Owing(request) + 1
      /\ Charging(request') = Charging(request) - 1
      /\ Saving(request') = Saving(request)
  <2>1. /\ Recording(request') = Recording(request) + 1
        /\ Owing(request') = Owing(request) + 1
        /\ Charging(request') = Charging(request) - 1
    BY <1>2, MovesCounts, Counts DEF In
  <2>2. Saving(request') = Saving(request)
    <3>1. WillSaveReady(request'[q]) <=> WillSaveReady(request[q])
      BY <1>2 DEF Moves, WillSaveReady, TypeOK, Request, Charged, Goes
    <3>2. QED
      BY <1>2, <3>1, MovesCounts, Counts
  <2>3. QED
    BY <2>1, <2>2
<1>4. /\ {Recording(request), Owing(request), Charging(request), Saving(request)} \subseteq Nat
      /\ Cardinality(Requests) \in Nat
      /\ Charging(request) + Recording(request) <= Cardinality(Requests)
      /\ Saving(request) <= Cardinality(Requests)
  BY Counts
<1>5. Again \in Nat /\ Again' = Again
  BY AgainMoves DEF TypeOK, Charged, Goes
<1>6. OnlyCharged'
  BY <1>2 DEF TypeOK, Row, NewRow, OnlyCharged, Unsettled, Moves, Apart, Charged, Goes,
     Collected, Collects, Customer
<1>7. Unsettled'
  BY <1>2 DEF TypeOK, Row, NewRow, OnlyCharged, Unsettled, Moves, Apart, Charged, Goes, Collects,
     Collected, Customer, Uncollected
<1>8. Bounded'
  BY <1>3, <1>4, <1>5 DEF TypeOK, Row, Request, Bounded, Charged, Goes
<1>9. Settled'
  BY <1>2, <1>3, <1>4 DEF TypeOK, Row, Request, NewRow, Unsettled, Settled, Moves, Charged, Goes,
     Collects, Collected, Customer, Uncollected
<1>10. CreditsLag'
  BY <1>3, <1>4 DEF TypeOK, CreditsLag, Charged, Goes
<1>11. Uncollected'
  <2>1. Apart(request, request', q) /\ (Collects' <=> Collects) /\ customer'.paid = customer.paid
    BY <1>2 DEF TypeOK, Customer, Moves, Collects, Collected, Charged, Goes
  <2>2. ~Collects => StepsBy(q)
    BY <1>2 DEF TypeOK, Row, Request, IdleRequest, NewRow, Customer, Uncollected, Collects,
       Collected, Moves, StepsBy, Charged, Goes
  <2>3. QED
    BY <2>1, <2>2, UncollectedKept
<1>12. QED
  BY <1>1, <1>6, <1>7, <1>8, <1>9, <1>10, <1>11

\* A declined request drops out.
LEMMA DeclinedStep ==
    ASSUME NEW q \in Requests, IInv, Declined(q)
    PROVE  IInv'
<1> USE DEF IInv
<1>1. TypeOK'
  BY ConstantsOK DEF TypeOK, Row, Request, IdleRequest, NewRow, Declined, Answers, Faulty
<1>2. Moves(q, "charge", "idle")
  BY DEF Moves, Apart, TypeOK, Request, IdleRequest, Declined, Answers, Faulty
<1>3. /\ Recording(request') = Recording(request)
      /\ Owing(request') = Owing(request)
      /\ Charging(request') = Charging(request) - 1
      /\ Saving(request') = Saving(request) - (IF request[q].row.status = "ready" THEN 1 ELSE 0)
  <2>1. /\ Recording(request') = Recording(request)
        /\ Owing(request') = Owing(request)
        /\ Charging(request') = Charging(request) - 1
    BY <1>2, MovesCounts, Counts DEF In
  <2>2. Saving(request') = Saving(request) - (IF request[q].row.status = "ready" THEN 1 ELSE 0)
    <3>1. /\ ~WillSaveReady(request'[q])
          /\ WillSaveReady(request[q]) <=> request[q].row.status = "ready"
      BY <1>2 DEF Moves, WillSaveReady
    <3>2. QED
      BY <1>2, <3>1, MovesCounts, Counts
  <2>3. QED
    BY <2>1, <2>2
<1>4. /\ {Recording(request), Owing(request), Charging(request), Saving(request)} \subseteq Nat
      /\ Cardinality(Requests) \in Nat
      /\ Charging(request) + Recording(request) <= Cardinality(Requests)
      /\ Saving(request) <= Cardinality(Requests)
  BY Counts
<1>5. Again \in Nat /\ Again' = Again
  BY AgainMoves DEF TypeOK, Declined, Answers, Faulty
<1>6. OnlyCharged'
  BY <1>2 DEF TypeOK, Row, NewRow, OnlyCharged, Unsettled, Moves, Apart, Declined, Answers,
     Faulty, Collected, Collects, Customer
<1>7. Unsettled'
  BY <1>2 DEF TypeOK, Row, NewRow, OnlyCharged, Unsettled, Moves, Apart, Declined, Answers,
     Faulty, Collects, Collected, Customer, Uncollected
<1>8. Bounded'
  BY <1>3, <1>4, <1>5 DEF TypeOK, Row, Request, Bounded, Declined, Answers, Faulty
<1>9. Settled'
  BY <1>2, <1>3, <1>4 DEF TypeOK, Row, Request, NewRow, Unsettled, Settled, Moves, Declined,
     Answers, Faulty, Collects, Collected, Customer, Uncollected
<1>10. CreditsLag'
  BY <1>3, <1>4 DEF TypeOK, CreditsLag, Declined, Answers, Faulty
<1>11. Uncollected'
  <2>1. Apart(request, request', q) /\ (Collects' <=> Collects) /\ customer'.paid = customer.paid
    BY <1>2 DEF TypeOK, Customer, Moves, Collects, Collected, Declined, Answers, Faulty
  <2>2. ~Collects => StepsBy(q)
    BY <1>2 DEF TypeOK, Row, Request, IdleRequest, NewRow, Customer, Uncollected, Collects,
       Collected, Moves, StepsBy, Declined, Answers, Faulty
  <2>3. QED
    BY <2>1, <2>2, UncollectedKept
<1>12. QED
  BY <1>1, <1>6, <1>7, <1>8, <1>9, <1>10, <1>11

\* A charge whose answer is lost is a fault.
LEMMA ChargeTimesOutStep ==
    ASSUME NEW q \in Requests, IInv, ChargeTimesOut(q)
    PROVE  IInv'
<1> USE DEF IInv
<1>1. TypeOK'
  BY ConstantsOK DEF TypeOK, Row, Request, IdleRequest, NewRow, ChargeTimesOut, Answers, Faulty
<1>2. Moves(q, "charge", "idle")
  BY DEF Moves, Apart, TypeOK, Request, IdleRequest, ChargeTimesOut, Answers, Faulty
<1>3. /\ Recording(request') = Recording(request)
      /\ Owing(request') = Owing(request)
      /\ Charging(request') = Charging(request) - 1
      /\ Saving(request') = Saving(request) - (IF request[q].row.status = "ready" THEN 1 ELSE 0)
  <2>1. /\ Recording(request') = Recording(request)
        /\ Owing(request') = Owing(request)
        /\ Charging(request') = Charging(request) - 1
    BY <1>2, MovesCounts, Counts DEF In
  <2>2. Saving(request') = Saving(request) - (IF request[q].row.status = "ready" THEN 1 ELSE 0)
    <3>1. /\ ~WillSaveReady(request'[q])
          /\ WillSaveReady(request[q]) <=> request[q].row.status = "ready"
      BY <1>2 DEF Moves, WillSaveReady
    <3>2. QED
      BY <1>2, <3>1, MovesCounts, Counts
  <2>3. QED
    BY <2>1, <2>2
<1>4. /\ {Recording(request), Owing(request), Charging(request), Saving(request)} \subseteq Nat
      /\ Cardinality(Requests) \in Nat
      /\ Charging(request) + Recording(request) <= Cardinality(Requests)
      /\ Saving(request) <= Cardinality(Requests)
  BY Counts
<1>5. Again \in Nat /\ Again' = Again
  BY AgainMoves DEF TypeOK, ChargeTimesOut, Answers, Faulty
<1>6. OnlyCharged'
  BY <1>2 DEF TypeOK, Row, NewRow, OnlyCharged, Unsettled, Moves, Apart, ChargeTimesOut, Answers,
     Faulty, Collected, Collects, Customer
<1>7. Unsettled'
  BY <1>2 DEF TypeOK, Row, NewRow, OnlyCharged, Unsettled, Moves, Apart, ChargeTimesOut, Answers,
     Faulty, Collects, Collected, Customer, Uncollected
<1>8. Bounded'
  BY <1>3, <1>4, <1>5 DEF TypeOK, Row, Request, Bounded, ChargeTimesOut, Answers, Faulty
<1>9. Settled'
  BY <1>2, <1>3, <1>4 DEF TypeOK, Row, Request, NewRow, Unsettled, Settled, Moves,
     ChargeTimesOut, Answers, Faulty, Collects, Collected, Customer, Uncollected
<1>10. CreditsLag'
  BY <1>3, <1>4 DEF TypeOK, CreditsLag, ChargeTimesOut, Answers, Faulty
<1>11. Uncollected'
  <2>1. Apart(request, request', q) /\ (Collects' <=> Collects) /\ customer'.paid = customer.paid
    BY <1>2 DEF TypeOK, Customer, Moves, Collects, Collected, ChargeTimesOut, Answers, Faulty
  <2>2. ~Collects => StepsBy(q)
    BY <1>2 DEF TypeOK, Row, Request, IdleRequest, NewRow, Customer, Uncollected, Collects,
       Collected, Moves, StepsBy, ChargeTimesOut, Answers, Faulty
  <2>3. QED
    BY <2>1, <2>2, UncollectedKept
<1>12. QED
  BY <1>1, <1>6, <1>7, <1>8, <1>9, <1>10, <1>11

\* So is one that is never recorded.
LEMMA CrashesUnrecordedStep ==
    ASSUME NEW q \in Requests, IInv, CrashesUnrecorded(q)
    PROVE  IInv'
<1> USE DEF IInv
<1>1. TypeOK'
  BY ConstantsOK DEF TypeOK, Row, Request, IdleRequest, NewRow, CrashesUnrecorded, Answers, Faulty
<1>2. Moves(q, "record", "idle")
  BY DEF Moves, Apart, TypeOK, Request, IdleRequest, CrashesUnrecorded, Answers, Faulty
<1>3. /\ Recording(request') = Recording(request) - 1
      /\ Owing(request') = Owing(request) - 1
      /\ Charging(request') = Charging(request)
      /\ Saving(request') = Saving(request) - (IF request[q].row.status = "ready" THEN 1 ELSE 0)
  <2>1. /\ Recording(request') = Recording(request) - 1
        /\ Owing(request') = Owing(request) - 1
        /\ Charging(request') = Charging(request)
    BY <1>2, MovesCounts, Counts DEF In
  <2>2. Saving(request') = Saving(request) - (IF request[q].row.status = "ready" THEN 1 ELSE 0)
    <3>1. /\ ~WillSaveReady(request'[q])
          /\ WillSaveReady(request[q]) <=> request[q].row.status = "ready"
      BY <1>2 DEF Moves, WillSaveReady
    <3>2. QED
      BY <1>2, <3>1, MovesCounts, Counts
  <2>3. QED
    BY <2>1, <2>2
<1>4. /\ {Recording(request), Owing(request), Charging(request), Saving(request)} \subseteq Nat
      /\ Cardinality(Requests) \in Nat
      /\ Charging(request) + Recording(request) <= Cardinality(Requests)
      /\ Saving(request) <= Cardinality(Requests)
  BY Counts
<1>5. Again \in Nat /\ Again' = Again
  BY AgainMoves DEF TypeOK, CrashesUnrecorded, Answers, Faulty
<1>6. OnlyCharged'
  BY <1>2 DEF TypeOK, Row, NewRow, OnlyCharged, Unsettled, Moves, Apart, CrashesUnrecorded,
     Answers, Faulty, Collected, Collects, Customer
<1>7. Unsettled'
  BY <1>2 DEF TypeOK, Row, NewRow, OnlyCharged, Unsettled, Moves, Apart, CrashesUnrecorded,
     Answers, Faulty, Collects, Collected, Customer, Uncollected
<1>8. Bounded'
  BY <1>3, <1>4, <1>5 DEF TypeOK, Row, Request, Bounded, CrashesUnrecorded, Answers, Faulty
<1>9. Settled'
  BY <1>2, <1>3, <1>4 DEF TypeOK, Row, Request, NewRow, Unsettled, Settled, Moves,
     CrashesUnrecorded, Answers, Faulty, Collects, Collected, Customer, Uncollected
<1>10. CreditsLag'
  BY <1>3, <1>4 DEF TypeOK, CreditsLag, CrashesUnrecorded, Answers, Faulty
<1>11. Uncollected'
  <2>1. Apart(request, request', q) /\ (Collects' <=> Collects) /\ customer'.paid = customer.paid
    BY <1>2 DEF TypeOK, Customer, Moves, Collects, Collected, CrashesUnrecorded, Answers, Faulty
  <2>2. ~Collects => StepsBy(q)
    BY <1>2 DEF TypeOK, Row, Request, IdleRequest, NewRow, Customer, Uncollected, Collects,
       Collected, Moves, StepsBy, CrashesUnrecorded, Answers, Faulty
  <2>3. QED
    BY <2>1, <2>2, UncollectedKept
<1>12. QED
  BY <1>1, <1>6, <1>7, <1>8, <1>9, <1>10, <1>11

\* The record settles the row, or finds it settled, and uses up its request's save.
LEMMA RecordsStep ==
    ASSUME NEW q \in Requests, IInv, Records(q)
    PROVE  IInv'
<1> USE DEF IInv
<1>1. TypeOK'
  <2>1. request[q] \in Request /\ request[q].row \in Row /\ request[q].payment \in Nat
    BY DEF TypeOK, Request
  <2>2. request' \in [Requests -> Request]
    BY <2>1 DEF TypeOK, Request, Records, Goes
  <2>3. row' \in Row
    BY <2>1 DEF Row, Records, Goes
  <2>4. customer' \in Customer
    BY DEF TypeOK, Customer, Records
  <2>5. QED
    BY <2>1, <2>2, <2>3, <2>4 DEF TypeOK, Records, Goes
<1>2. Moves(q, "record", "credit")
  BY DEF Moves, Apart, TypeOK, Request, IdleRequest, Records, Goes
<1>3. /\ Recording(request') = Recording(request) - 1
      /\ Owing(request') = Owing(request)
      /\ Charging(request') = Charging(request)
      /\ Saving(request') = Saving(request) - (IF request[q].row.status = "ready" THEN 1 ELSE 0)
  <2>1. /\ Recording(request') = Recording(request) - 1
        /\ Owing(request') = Owing(request)
        /\ Charging(request') = Charging(request)
    BY <1>2, MovesCounts, Counts DEF In
  <2>2. Saving(request') = Saving(request) - (IF request[q].row.status = "ready" THEN 1 ELSE 0)
    <3>1. /\ ~WillSaveReady(request'[q])
          /\ WillSaveReady(request[q]) <=> request[q].row.status = "ready"
      BY <1>2 DEF Moves, WillSaveReady
    <3>2. QED
      BY <1>2, <3>1, MovesCounts, Counts
  <2>3. QED
    BY <2>1, <2>2
<1>4. /\ {Recording(request), Owing(request), Charging(request), Saving(request)} \subseteq Nat
      /\ Cardinality(Requests) \in Nat
      /\ Charging(request) + Recording(request) <= Cardinality(Requests)
      /\ Saving(request) <= Cardinality(Requests)
  BY Counts
<1>5. Again \in Nat /\ Again' = Again
  BY AgainMoves DEF TypeOK, Records, Goes
<1>6. OnlyCharged'
  BY <1>2 DEF TypeOK, Row, NewRow, OnlyCharged, Unsettled, Moves, Apart, Records, Goes,
     Collected, Collects, Customer
<1>7. Unsettled'
  BY <1>2 DEF TypeOK, Row, NewRow, OnlyCharged, Unsettled, Moves, Apart, Records, Goes, Collects,
     Collected, Customer, Uncollected
<1>8. Bounded'
  BY <1>3, <1>4, <1>5 DEF TypeOK, Row, Request, Bounded, Records, Goes
<1>9. Settled'
  BY <1>2, <1>3, <1>4 DEF TypeOK, Row, Request, NewRow, Unsettled, Settled, Moves, Records, Goes,
     Collects, Collected, Customer, Uncollected
<1>10. CreditsLag'
  BY <1>3, <1>4 DEF TypeOK, CreditsLag, Records, Goes
<1>11. Uncollected'
  <2>1. Apart(request, request', q) /\ (Collects' <=> Collects) /\ customer'.paid = customer.paid
    BY <1>2 DEF TypeOK, Customer, Moves, Collects, Collected, Records, Goes
  <2>2. ~Collects => StepsBy(q)
    BY <1>2 DEF TypeOK, Row, Request, IdleRequest, NewRow, Customer, Uncollected, Collects,
       Collected, Moves, StepsBy, Records, Goes
  <2>3. QED
    BY <2>1, <2>2, UncollectedKept
<1>12. QED
  BY <1>1, <1>6, <1>7, <1>8, <1>9, <1>10, <1>11

\* A credit was owed.
LEMMA CreditsStep ==
    ASSUME NEW q \in Requests, IInv, Credits(q)
    PROVE  IInv'
<1> USE DEF IInv
<1>1. TypeOK'
  BY ConstantsOK DEF TypeOK, Row, Request, IdleRequest, NewRow, Credits, Goes
<1>2. Moves(q, "credit", "release")
  BY DEF Moves, Apart, TypeOK, Request, IdleRequest, Credits, Goes
<1>3. /\ Recording(request') = Recording(request)
      /\ Owing(request') = Owing(request) - 1
      /\ Charging(request') = Charging(request)
      /\ Saving(request') = Saving(request)
  <2>1. /\ Recording(request') = Recording(request)
        /\ Owing(request') = Owing(request) - 1
        /\ Charging(request') = Charging(request)
    BY <1>2, MovesCounts, Counts DEF In
  <2>2. Saving(request') = Saving(request)
    <3>1. ~WillSaveReady(request[q]) /\ ~WillSaveReady(request'[q])
      BY <1>2 DEF Moves, WillSaveReady
    <3>2. QED
      BY <1>2, <3>1, MovesCounts, Counts
  <2>3. QED
    BY <2>1, <2>2
<1>4. /\ {Recording(request), Owing(request), Charging(request), Saving(request)} \subseteq Nat
      /\ Cardinality(Requests) \in Nat
      /\ Charging(request) + Recording(request) <= Cardinality(Requests)
      /\ Saving(request) <= Cardinality(Requests)
  BY Counts
<1>5. Again \in Nat /\ Again' = Again
  BY AgainMoves DEF TypeOK, Credits, Goes
<1>6. OnlyCharged'
  BY <1>2 DEF TypeOK, Row, NewRow, OnlyCharged, Unsettled, Moves, Apart, Credits, Goes,
     Collected, Collects, Customer
<1>7. Unsettled'
  BY <1>2 DEF TypeOK, Row, NewRow, OnlyCharged, Unsettled, Moves, Apart, Credits, Goes, Collects,
     Collected, Customer, Uncollected
<1>8. Bounded'
  BY <1>3, <1>4, <1>5 DEF TypeOK, Row, Request, Bounded, Credits, Goes
<1>9. Settled'
  BY <1>2, <1>3, <1>4 DEF TypeOK, Row, Request, NewRow, Unsettled, Settled, Moves, Credits, Goes,
     Collects, Collected, Customer, Uncollected
<1>10. CreditsLag'
  BY <1>3, <1>4 DEF TypeOK, CreditsLag, Credits, Goes
<1>11. Uncollected'
  <2>1. Apart(request, request', q) /\ (Collects' <=> Collects) /\ customer'.paid = customer.paid
    BY <1>2 DEF TypeOK, Customer, Moves, Collects, Collected, Credits, Goes
  <2>2. ~Collects => StepsBy(q)
    BY <1>2 DEF TypeOK, Row, Request, IdleRequest, NewRow, Customer, Uncollected, Collects,
       Collected, Moves, StepsBy, Credits, Goes
  <2>3. QED
    BY <2>1, <2>2, UncollectedKept
<1>12. QED
  BY <1>1, <1>6, <1>7, <1>8, <1>9, <1>10, <1>11

\* A release takes the READY that a save has left.
LEMMA ReleasesStep ==
    ASSUME NEW q \in Requests, IInv, Releases(q)
    PROVE  IInv'
<1> USE DEF IInv
<1>1. TypeOK'
  BY ConstantsOK DEF TypeOK, Row, Request, IdleRequest, NewRow, Releases, Answers, ReleaseAllowed
<1>2. Moves(q, "release", "idle")
  BY DEF Moves, Apart, TypeOK, Request, IdleRequest, Releases, Answers, ReleaseAllowed
<1>3. /\ Recording(request') = Recording(request)
      /\ Owing(request') = Owing(request)
      /\ Charging(request') = Charging(request)
      /\ Saving(request') = Saving(request)
  <2>1. /\ Recording(request') = Recording(request)
        /\ Owing(request') = Owing(request)
        /\ Charging(request') = Charging(request)
    BY <1>2, MovesCounts, Counts DEF In
  <2>2. Saving(request') = Saving(request)
    <3>1. ~WillSaveReady(request[q]) /\ ~WillSaveReady(request'[q])
      BY <1>2 DEF Moves, WillSaveReady
    <3>2. QED
      BY <1>2, <3>1, MovesCounts, Counts
  <2>3. QED
    BY <2>1, <2>2
<1>4. /\ {Recording(request), Owing(request), Charging(request), Saving(request)} \subseteq Nat
      /\ Cardinality(Requests) \in Nat
      /\ Charging(request) + Recording(request) <= Cardinality(Requests)
      /\ Saving(request) <= Cardinality(Requests)
  BY Counts
<1>5. Again \in Nat /\ Again' = Again
  BY AgainMoves DEF TypeOK, Releases, Answers, ReleaseAllowed
<1>6. OnlyCharged'
  BY <1>2 DEF TypeOK, Row, NewRow, OnlyCharged, Unsettled, Moves, Apart, Releases, Answers,
     ReleaseAllowed, Collected, Collects, Customer
<1>7. Unsettled'
  BY <1>2 DEF TypeOK, Row, NewRow, OnlyCharged, Unsettled, Moves, Apart, Releases, Answers,
     ReleaseAllowed, Collects, Collected, Customer, Uncollected
<1>8. Bounded'
  BY <1>3, <1>4, <1>5 DEF TypeOK, Row, Request, Bounded, Releases, Answers, ReleaseAllowed
<1>9. Settled'
  BY <1>2, <1>3, <1>4 DEF TypeOK, Row, Request, NewRow, Unsettled, Settled, Moves, Releases,
     Answers, ReleaseAllowed, Collects, Collected, Customer, Uncollected
<1>10. CreditsLag'
  BY <1>3, <1>4 DEF TypeOK, CreditsLag, Releases, Answers, ReleaseAllowed
<1>11. Uncollected'
  <2>1. Apart(request, request', q) /\ (Collects' <=> Collects) /\ customer'.paid = customer.paid
    BY <1>2 DEF TypeOK, Customer, Moves, Collects, Collected, Releases, Answers, ReleaseAllowed
  <2>2. ~Collects => StepsBy(q)
    BY <1>2 DEF TypeOK, Row, Request, IdleRequest, NewRow, Customer, Uncollected, Collects,
       Collected, Moves, StepsBy, Releases, Answers, ReleaseAllowed
  <2>3. QED
    BY <2>1, <2>2, UncollectedKept
<1>12. QED
  BY <1>1, <1>6, <1>7, <1>8, <1>9, <1>10, <1>11

\* A refused document changes nothing but the request.
LEMMA RefusedStep ==
    ASSUME NEW q \in Requests, IInv, Refused(q)
    PROVE  IInv'
<1> USE DEF IInv
<1>1. TypeOK'
  BY ConstantsOK DEF TypeOK, Row, Request, IdleRequest, NewRow, Refused, Answers
<1>2. Moves(q, "release", "idle")
  BY DEF Moves, Apart, TypeOK, Request, IdleRequest, Refused, Answers
<1>3. /\ Recording(request') = Recording(request)
      /\ Owing(request') = Owing(request)
      /\ Charging(request') = Charging(request)
      /\ Saving(request') = Saving(request)
  <2>1. /\ Recording(request') = Recording(request)
        /\ Owing(request') = Owing(request)
        /\ Charging(request') = Charging(request)
    BY <1>2, MovesCounts, Counts DEF In
  <2>2. Saving(request') = Saving(request)
    <3>1. ~WillSaveReady(request[q]) /\ ~WillSaveReady(request'[q])
      BY <1>2 DEF Moves, WillSaveReady
    <3>2. QED
      BY <1>2, <3>1, MovesCounts, Counts
  <2>3. QED
    BY <2>1, <2>2
<1>4. /\ {Recording(request), Owing(request), Charging(request), Saving(request)} \subseteq Nat
      /\ Cardinality(Requests) \in Nat
      /\ Charging(request) + Recording(request) <= Cardinality(Requests)
      /\ Saving(request) <= Cardinality(Requests)
  BY Counts
<1>5. Again \in Nat /\ Again' = Again
  BY AgainMoves DEF TypeOK, Refused, Answers
<1>6. OnlyCharged'
  BY <1>2 DEF TypeOK, Row, NewRow, OnlyCharged, Unsettled, Moves, Apart, Refused, Answers,
     Collected, Collects, Customer
<1>7. Unsettled'
  BY <1>2 DEF TypeOK, Row, NewRow, OnlyCharged, Unsettled, Moves, Apart, Refused, Answers,
     Collects, Collected, Customer, Uncollected
<1>8. Bounded'
  BY <1>3, <1>4, <1>5 DEF TypeOK, Row, Request, Bounded, Refused, Answers
<1>9. Settled'
  BY <1>2, <1>3, <1>4 DEF TypeOK, Row, Request, NewRow, Unsettled, Settled, Moves, Refused,
     Answers, Collects, Collected, Customer, Uncollected
<1>10. CreditsLag'
  BY <1>3, <1>4 DEF TypeOK, CreditsLag, Refused, Answers
<1>11. Uncollected'
  <2>1. Apart(request, request', q) /\ (Collects' <=> Collects) /\ customer'.paid = customer.paid
    BY <1>2 DEF TypeOK, Customer, Moves, Collects, Collected, Refused, Answers
  <2>2. ~Collects => StepsBy(q)
    BY <1>2 DEF TypeOK, Row, Request, IdleRequest, NewRow, Customer, Uncollected, Collects,
       Collected, Moves, StepsBy, Refused, Answers
  <2>3. QED
    BY <2>1, <2>2, UncollectedKept
<1>12. QED
  BY <1>1, <1>6, <1>7, <1>8, <1>9, <1>10, <1>11

\* Who dispatches is past the gate.
LEMMA DispatchesStep ==
    ASSUME NEW q \in Requests, IInv, Dispatches(q)
    PROVE  IInv'
<1> USE DEF IInv
<1>1. TypeOK'
  BY ConstantsOK DEF TypeOK, Row, Request, IdleRequest, NewRow, Dispatches, Goes
<1>2. Moves(q, "release", "complete")
  BY DEF Moves, Apart, TypeOK, Request, IdleRequest, Dispatches, Goes
<1>3. /\ Recording(request') = Recording(request)
      /\ Owing(request') = Owing(request)
      /\ Charging(request') = Charging(request)
      /\ Saving(request') = Saving(request)
  <2>1. /\ Recording(request') = Recording(request)
        /\ Owing(request') = Owing(request)
        /\ Charging(request') = Charging(request)
    BY <1>2, MovesCounts, Counts DEF In
  <2>2. Saving(request') = Saving(request)
    <3>1. ~WillSaveReady(request[q]) /\ ~WillSaveReady(request'[q])
      BY <1>2 DEF Moves, WillSaveReady
    <3>2. QED
      BY <1>2, <3>1, MovesCounts, Counts
  <2>3. QED
    BY <2>1, <2>2
<1>4. /\ {Recording(request), Owing(request), Charging(request), Saving(request)} \subseteq Nat
      /\ Cardinality(Requests) \in Nat
      /\ Charging(request) + Recording(request) <= Cardinality(Requests)
      /\ Saving(request) <= Cardinality(Requests)
  BY Counts
<1>5. Again \in Nat /\ Again' = Again
  BY AgainMoves DEF TypeOK, Dispatches, Goes
<1>6. OnlyCharged'
  BY <1>2 DEF TypeOK, Row, NewRow, OnlyCharged, Unsettled, Moves, Apart, Dispatches, Goes,
     Collected, Collects, Customer
<1>7. Unsettled'
  BY <1>2 DEF TypeOK, Row, NewRow, OnlyCharged, Unsettled, Moves, Apart, Dispatches, Goes,
     Collects, Collected, Customer, Uncollected
<1>8. Bounded'
  BY <1>3, <1>4, <1>5 DEF TypeOK, Row, Request, Bounded, Dispatches, Goes
<1>9. Settled'
  BY <1>2, <1>3, <1>4 DEF TypeOK, Row, Request, NewRow, Unsettled, Settled, Moves, Dispatches,
     Goes, Collects, Collected, Customer, Uncollected
<1>10. CreditsLag'
  BY <1>3, <1>4 DEF TypeOK, CreditsLag, Dispatches, Goes
<1>11. Uncollected'
  <2>1. Apart(request, request', q) /\ (Collects' <=> Collects) /\ customer'.paid = customer.paid
    BY <1>2 DEF TypeOK, Customer, Moves, Collects, Collected, Dispatches, Goes
  <2>2. ~Collects => StepsBy(q)
    BY <1>2 DEF TypeOK, Row, Request, IdleRequest, NewRow, Customer, Uncollected, Collects,
       Collected, Moves, StepsBy, Dispatches, Goes
  <2>3. QED
    BY <2>1, <2>2, UncollectedKept
<1>12. QED
  BY <1>1, <1>6, <1>7, <1>8, <1>9, <1>10, <1>11

\* A crash after the print is a fault.
LEMMA CrashesPrintedStep ==
    ASSUME NEW q \in Requests, IInv, CrashesPrinted(q)
    PROVE  IInv'
<1> USE DEF IInv
<1>1. TypeOK'
  BY ConstantsOK DEF TypeOK, Row, Request, IdleRequest, NewRow, CrashesPrinted, Answers, Faulty
<1>2. Moves(q, "complete", "idle")
  BY DEF Moves, Apart, TypeOK, Request, IdleRequest, CrashesPrinted, Answers, Faulty
<1>3. /\ Recording(request') = Recording(request)
      /\ Owing(request') = Owing(request)
      /\ Charging(request') = Charging(request)
      /\ Saving(request') = Saving(request)
  <2>1. /\ Recording(request') = Recording(request)
        /\ Owing(request') = Owing(request)
        /\ Charging(request') = Charging(request)
    BY <1>2, MovesCounts, Counts DEF In
  <2>2. Saving(request') = Saving(request)
    <3>1. ~WillSaveReady(request[q]) /\ ~WillSaveReady(request'[q])
      BY <1>2 DEF Moves, WillSaveReady
    <3>2. QED
      BY <1>2, <3>1, MovesCounts, Counts
  <2>3. QED
    BY <2>1, <2>2
<1>4. /\ {Recording(request), Owing(request), Charging(request), Saving(request)} \subseteq Nat
      /\ Cardinality(Requests) \in Nat
      /\ Charging(request) + Recording(request) <= Cardinality(Requests)
      /\ Saving(request) <= Cardinality(Requests)
  BY Counts
<1>5. Again \in Nat /\ Again' = Again
  BY AgainMoves DEF TypeOK, CrashesPrinted, Answers, Faulty
<1>6. OnlyCharged'
  BY <1>2 DEF TypeOK, Row, NewRow, OnlyCharged, Unsettled, Moves, Apart, CrashesPrinted, Answers,
     Faulty, Collected, Collects, Customer
<1>7. Unsettled'
  BY <1>2 DEF TypeOK, Row, NewRow, OnlyCharged, Unsettled, Moves, Apart, CrashesPrinted, Answers,
     Faulty, Collects, Collected, Customer, Uncollected
<1>8. Bounded'
  BY <1>3, <1>4, <1>5 DEF TypeOK, Row, Request, Bounded, CrashesPrinted, Answers, Faulty
<1>9. Settled'
  BY <1>2, <1>3, <1>4 DEF TypeOK, Row, Request, NewRow, Unsettled, Settled, Moves,
     CrashesPrinted, Answers, Faulty, Collects, Collected, Customer, Uncollected
<1>10. CreditsLag'
  BY <1>3, <1>4 DEF TypeOK, CreditsLag, CrashesPrinted, Answers, Faulty
<1>11. Uncollected'
  <2>1. Apart(request, request', q) /\ (Collects' <=> Collects) /\ customer'.paid = customer.paid
    BY <1>2 DEF TypeOK, Customer, Moves, Collects, Collected, CrashesPrinted, Answers, Faulty
  <2>2. ~Collects => StepsBy(q)
    BY <1>2 DEF TypeOK, Row, Request, IdleRequest, NewRow, Customer, Uncollected, Collects,
       Collected, Moves, StepsBy, CrashesPrinted, Answers, Faulty
  <2>3. QED
    BY <2>1, <2>2, UncollectedKept
<1>12. QED
  BY <1>1, <1>6, <1>7, <1>8, <1>9, <1>10, <1>11

\* A completion may forget the settled cost, and let every request charge once more.
LEMMA CompletesStep ==
    ASSUME NEW q \in Requests, IInv, Completes(q)
    PROVE  IInv'
<1> USE DEF IInv
<1>1. TypeOK'
  BY ConstantsOK DEF TypeOK, Row, Request, IdleRequest, NewRow, Completes, Answers
<1>2. Moves(q, "complete", "idle")
  BY DEF Moves, Apart, TypeOK, Request, IdleRequest, Completes, Answers
<1>3. /\ Recording(request') = Recording(request)
      /\ Owing(request') = Owing(request)
      /\ Charging(request') = Charging(request)
      /\ Saving(request') = Saving(request)
  <2>1. /\ Recording(request') = Recording(request)
        /\ Owing(request') = Owing(request)
        /\ Charging(request') = Charging(request)
    BY <1>2, MovesCounts, Counts DEF In
  <2>2. Saving(request') = Saving(request)
    <3>1. ~WillSaveReady(request[q]) /\ ~WillSaveReady(request'[q])
      BY <1>2 DEF Moves, WillSaveReady
    <3>2. QED
      BY <1>2, <3>1, MovesCounts, Counts
  <2>3. QED
    BY <2>1, <2>2
<1>4. /\ {Recording(request), Owing(request), Charging(request), Saving(request)} \subseteq Nat
      /\ Cardinality(Requests) \in Nat
      /\ Charging(request) + Recording(request) <= Cardinality(Requests)
      /\ Saving(request) <= Cardinality(Requests)
  BY Counts
<1>5. /\ Again \in Nat
      /\ Again' = IF row.cost = "final" /\ request[q].found = "estimate"
                    THEN Again + Cardinality(Requests) ELSE Again
  BY AgainMoves DEF TypeOK, Completes, Answers
<1>6. OnlyCharged'
  BY <1>2 DEF TypeOK, Row, NewRow, OnlyCharged, Unsettled, Moves, Apart, Completes, Answers,
     Collected, Collects, Customer
<1>7. Unsettled'
  BY <1>2 DEF TypeOK, Row, NewRow, OnlyCharged, Unsettled, Moves, Apart, Completes, Answers,
     Collects, Collected, Customer, Uncollected
<1>8. Bounded'
  BY <1>3, <1>4, <1>5 DEF TypeOK, Row, Request, Bounded, Completes, Answers
<1>9. Settled'
  BY <1>2, <1>3, <1>4 DEF TypeOK, Row, Request, NewRow, Unsettled, Settled, Moves, Completes,
     Answers, Collects, Collected, Customer, Uncollected
<1>10. CreditsLag'
  BY <1>3, <1>4 DEF TypeOK, CreditsLag, Completes, Answers
<1>11. Uncollected'
  <2>1. Apart(request, request', q) /\ (Collects' <=> Collects) /\ customer'.paid = customer.paid
    BY <1>2 DEF TypeOK, Customer, Moves, Collects, Collected, Completes, Answers
  <2>2. ~Collects => StepsBy(q)
    BY <1>2 DEF TypeOK, Row, Request, IdleRequest, NewRow, Customer, Uncollected, Collects,
       Collected, Moves, StepsBy, Completes, Answers
  <2>3. QED
    BY <2>1, <2>2, UncollectedKept
<1>12. QED
  BY <1>1, <1>6, <1>7, <1>8, <1>9, <1>10, <1>11

\* The printing of the job touches no request and no charge.
LEMMA PrintsStep ==
    ASSUME IInv, Prints
    PROVE  IInv'
<1> USE DEF IInv, Prints
<1>1. TypeOK'
  BY DEF TypeOK, Row
<1>2. OnlyCharged' /\ Uncollected' /\ Unsettled'
  BY DEF TypeOK, Row, NewRow, OnlyCharged, Uncollected, Unsettled, Collects, Collected
<1>3. Bounded'
  BY DEF TypeOK, Row, Bounded, Again
<1>4. Settled'
  BY DEF TypeOK, Row, NewRow, Settled, Collects, Collected
<1>5. CreditsLag'
  BY DEF CreditsLag
<1>6. QED
  BY <1>1, <1>2, <1>3, <1>4, <1>5

\* Every step keeps the invariant.
LEMMA NextIInv ==
    ASSUME IInv, [Next]_vars
    PROVE  IInv'
<1>1. CASE UNCHANGED vars
  BY <1>1 DEF vars, IInv, TypeOK, OnlyCharged, Uncollected, Unsettled, Bounded, Again, Settled,
     CreditsLag, Collects, Collected
<1>2. CASE Prints
  BY <1>2, PrintsStep
<1>3. ASSUME NEW q \in Requests, NEW mode \in Modes, Arrives(q, mode)
      PROVE  IInv'
  BY <1>3, ArrivesStep
<1>4. ASSUME NEW q \in Requests,
             \/ GateReads(q) \/ PriorFound(q) \/ PriorMissing(q)
             \/ Charged(q) \/ Declined(q) \/ ChargeTimesOut(q) \/ CrashesUnrecorded(q)
             \/ Records(q) \/ Credits(q) \/ Releases(q)
             \/ Refused(q) \/ Dispatches(q) \/ CrashesPrinted(q) \/ Completes(q)
      PROVE  IInv'
  BY <1>4, GateReadsStep, PriorFoundStep, PriorMissingStep, ChargedStep,
     DeclinedStep, ChargeTimesOutStep, CrashesUnrecordedStep, RecordsStep, CreditsStep,
     ReleasesStep, RefusedStep, DispatchesStep, CrashesPrintedStep, CompletesStep
<1>5. QED
  BY <1>1, <1>2, <1>3, <1>4 DEF Next

\* The invariant holds in every reachable state.
LEMMA Invariance == Spec => []IInv
<1>1. IInv /\ [Next]_vars => IInv'
  BY NextIInv
<1>2. QED
  BY InitIInv, <1>1, PTL DEF Spec

(***************************************************************************)
(* What follows from the invariant                                         *)
(***************************************************************************)

\* Every variable keeps to its type.
THEOREM TypeCorrect == Spec => []TypeOK
<1>1. IInv => TypeOK
  BY DEF IInv
<1>2. QED
  BY <1>1, Invariance, PTL

\* Where the gate collects, POST /printer/complete releases and prints nothing before the
\* card was charged.
THEOREM PaidBeforeReleasedHolds == Spec => []PaidBeforeReleased
<1>1. IInv => PaidBeforeReleased
  BY DEF IInv, TypeOK, OnlyCharged, PaidBeforeReleased
<1>2. QED
  BY <1>1, Invariance, PTL

\* settleShortfall credits the shop no more often than it charges the card.
THEOREM CreditedAsChargedHolds == Spec => []CreditedAsCharged
<1>1. IInv => CreditedAsCharged
  BY Counts DEF IInv, TypeOK, CreditsLag, CreditedAsCharged
<1>2. QED
  BY <1>1, Invariance, PTL

\* However many requests overlap and whatever fails, the card is charged once for each
\* of them, once more for each time cloud-push forgets the settled cost, and once for each
\* fault at most.
THEOREM RetriesDoNotChargeHolds == Spec => []RetriesDoNotCharge
<1>1. IInv => RetriesDoNotCharge
  <2> SUFFICES ASSUME IInv PROVE RetriesDoNotCharge
    OBVIOUS
  <2>1. Cardinality(Requests) * (1 + forgotten) = Cardinality(Requests) + Again
    <3>1. \A n, k \in Nat : n * (1 + k) = n + n * k
      OBVIOUS
    <3>2. QED
      BY <3>1, Counts DEF IInv, TypeOK, Again
  <2>2. Again \in Nat
    BY AgainMoves DEF IInv, TypeOK
  <2>3. charges <= Cardinality(Requests) + Again + faults
    BY <2>2, Counts DEF IInv, TypeOK, Row, Bounded
  <2>4. QED
    BY <2>1, <2>3 DEF RetriesDoNotCharge
<1>2. QED
  BY <1>1, Invariance, PTL

\* The stale saves of overlapping requests release the job once for each of them at most.
THEOREM RetriesDoNotReleaseHolds == Spec => []RetriesDoNotRelease
<1>1. IInv => RetriesDoNotRelease
  <2> SUFFICES ASSUME IInv PROVE RetriesDoNotRelease
    OBVIOUS
  <2>1. CASE Collects
    BY <2>1, Counts DEF IInv, TypeOK, Unsettled, Settled, RetriesDoNotRelease
  <2>2. CASE ~Collects
    <3>1. Requests # {} => Cardinality(Requests) # 0
      BY ConstantsOK, FS_EmptySet
    <3>2. QED
      BY <2>2, <3>1, Counts DEF IInv, TypeOK, Uncollected, RetriesDoNotRelease
  <2>3. QED
    BY <2>1, <2>2
<1>2. QED
  BY <1>1, Invariance, PTL
===============================================================================
