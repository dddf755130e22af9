--------------------------- MODULE DocumentsProofs ---------------------------
(***************************************************************************)
(* Proofs about Documents, for any CUPS jobs, overlapping requests,        *)
(* documents, places to store them, retention times and faults: how many   *)
(* jobs one key can have, with the unique index and without, and no        *)
(* deletion of a document whose job still needs it.                        *)
(***************************************************************************)
EXTENDS Documents, TLAPS

(***************************************************************************)
(* The inductive invariant                                                 *)
(***************************************************************************)

\* A document that is stored and not in a job yet is there, and is one request's own.
Intake ==
    \A r \in Requests : request[r].pc = "insert" =>
        /\ stored[request[r].doc] # None
        /\ ~HasJob(request[r].doc)
        /\ \A q \in Requests :
              request[q].pc = "insert" /\ request[q].doc = request[r].doc => q = r

\* What the requeue and the clean-up queue hold are jobs.
Referred == (requeue # None => HasJob(requeue)) /\ \A d \in cleanup : HasJob(d)

\* A job that is old enough to be swept has been finished for the retention time, and what
\* the sweep is about to unlink is such jobs' documents.
OldEnough ==
    /\ \A d \in Docs : Expired(d) => d \in retired
    /\ sweep.docs \subseteq retired
    /\ \A d \in retired : HasJob(d)

\* A request that looked its key up in vain and has not inserted its job.
Maker(r) == request[r].pc \in {"store", "insert"}

\* Unless a key was raced for, at most one request makes a job for it, and only while there
\* is none.
OneMaker ==
    \A r \in Requests : Maker(r) /\ request[r].key \notin raced =>
        /\ \A d \in Docs : HasJob(d) => job[d].key # request[r].key
        /\ \A q \in Requests : Maker(q) /\ request[q].key = request[r].key => q = r

Rows == OneJobPerKey /\ TwiceOnlyByRace /\ OneMaker

IInv == TypeOK /\ Intake /\ Referred /\ OldEnough /\ Rows /\ KeepsDocument

\* The constants, and a job's row.
LEMMA ConstantFacts ==
    /\ Retention \in Nat /\ 0 # Retention /\ 0 \in 0..Retention
    /\ None \notin Stores
    /\ 0 \in 0..MaxHour /\ 0 \in 0..MaxFaults
BY ConstantsOK DEF None

LEMMA RowFacts ==
    ASSUME TypeOK, NEW d \in Docs, HasJob(d)
    PROVE  job[d] \in Row
BY DEF TypeOK, HasJob

\* Every row has a status, so none of them is NoJob.
LEMMA NoJobIsNoRow == NoJob \notin Row
BY DEF NoJob, Row, Terminal

LEMMA InitIInv == Init => IInv
<1> SUFFICES ASSUME Init PROVE IInv
  OBVIOUS
<1>1. TypeOK
  BY ConstantFacts DEF Init, TypeOK, Request, Idle, Script
<1>2. \A d \in Docs : ~HasJob(d)
  BY DEF Init, HasJob
<1>3. \A r \in Requests : request[r].pc # "insert"
  BY DEF Init, Idle
<1> QED
  <2>1. Rows
    BY <1>2 DEF Init, Idle, Rows, OneJobPerKey, TwiceOnlyByRace, OneMaker, Maker
  <2> QED
    BY <1>1, <1>2, <1>3, <2>1 DEF Init, IInv, Intake, Referred, OldEnough, Expired, In,
       KeepsDocument

\* A step that brings no job, no request that makes one, and no race.
LEMMA RowsKept ==
    ASSUME Rows, UNCHANGED <<indexed, raced>>,
           \A d \in Docs : job'[d] # NoJob => HasJob(d) /\ job'[d].key = job[d].key,
           \A r \in Requests : request'[r].pc \in {"store", "insert"} =>
              Maker(r) /\ request'[r].key = request[r].key
    PROVE  Rows'
<1>1. OneJobPerKey'
  BY DEF Rows, OneJobPerKey, HasJob
<1>2. TwiceOnlyByRace'
  BY DEF Rows, TwiceOnlyByRace, HasJob
<1>3. OneMaker'
  BY DEF Rows, OneMaker, Maker, HasJob
<1> QED
  BY <1>1, <1>2, <1>3 DEF Rows

LEMMA StutterStep ==
    ASSUME IInv, UNCHANGED vars
    PROVE  IInv'
<1>1. Rows'
  BY RowsKept DEF IInv, vars, intake, Maker, HasJob
<1> QED
  BY <1>1 DEF vars, intake, retention, IInv, TypeOK, Intake, Referred, OldEnough, Expired, In,
     HasJob, KeepsDocument

(***************************************************************************)
(* The backend script and the ingress                                      *)
(***************************************************************************)

\* A step that touches the scripts and moves a request that neither comes to make a job nor
\* held a document of its own.
LEMMA RequestMoves ==
    ASSUME IInv, NEW r \in Requests, NEW to \in Request,
           request[r].pc # "insert", to.pc \notin {"store", "insert"},
           request' = [request EXCEPT ![r] = to],
           client' \in [Clients -> Script \cup Requests],
           UNCHANGED <<indexed, job, stored, requeue, hour, faults, orphaned, raced, retention>>
    PROVE  IInv'
<1>1. TypeOK'
  BY DEF IInv, TypeOK, retention
<1>2. Intake'
  <2>1. \A q \in Requests : request'[q].pc = "insert" => q # r /\ request'[q] = request[q]
    BY DEF IInv, TypeOK
  <2> QED
    BY <2>1 DEF IInv, Intake, HasJob
<1>3. Referred' /\ OldEnough'
  BY DEF IInv, Referred, OldEnough, Expired, In, HasJob, retention
<1>4. Rows'
  BY RowsKept DEF IInv, TypeOK, Maker, HasJob
<1>5. KeepsDocument'
  BY DEF IInv, KeepsDocument, HasJob, retention
<1> QED
  BY <1>1, <1>2, <1>3, <1>4, <1>5 DEF IInv

\* What the scripts make of an answer is a state of theirs.
LEMMA ToldType ==
    ASSUME TypeOK, NEW r \in Requests, NEW outcome \in Script,
           Told(r, outcome)
    PROVE  client' \in [Clients -> Script \cup Requests]
BY DEF TypeOK, Told

LEMMA SubmitsStep ==
    ASSUME IInv, NEW c \in Clients, NEW r \in Requests, Submits(c, r)
    PROVE  IInv'
<1> DEFINE to == [pc |-> "lookup", key |-> <<c, hour>>]
<1>1. to \in Request
  BY DEF IInv, TypeOK, Request, Keys
<1>2. request[r].pc # "insert" /\ to.pc = "lookup" /\ request' = [request EXCEPT ![r] = to]
  BY DEF Submits, Idle
<1>3. client' \in [Clients -> Script \cup Requests]
  BY DEF Submits, IInv, TypeOK, Script
<1> QED
  BY <1>1, <1>2, <1>3, RequestMoves DEF Submits

\* A step of a script alone.
LEMMA ScriptMoves ==
    ASSUME IInv, client' \in [Clients -> Script \cup Requests], faults' \in 0..MaxFaults,
           UNCHANGED <<indexed, request, job, stored, requeue, hour, orphaned, raced, retention>>
    PROVE  IInv'
<1>1. TypeOK'
  BY DEF IInv, TypeOK, retention
<1>2. Rows'
  BY RowsKept DEF IInv, Maker, HasJob
<1> QED
  BY <1>1, <1>2 DEF IInv, Intake, Referred, OldEnough, Expired, In, HasJob, KeepsDocument,
     retention

LEMMA TimesOutStep ==
    ASSUME IInv, NEW c \in Clients, TimesOut(c)
    PROVE  IInv'
<1>1. client' \in [Clients -> Script \cup Requests] /\ faults' \in 0..MaxFaults
  BY ConstantsOK DEF TimesOut, IInv, TypeOK, Script
<1> QED
  BY <1>1, ScriptMoves DEF TimesOut

LEMMA ResumesStep ==
    ASSUME IInv, NEW c \in Clients, Resumes(c)
    PROVE  IInv'
<1>1. client' \in [Clients -> Script \cup Requests] /\ faults' \in 0..MaxFaults
  BY DEF Resumes, IInv, TypeOK, Script
<1> QED
  BY <1>1, ScriptMoves DEF Resumes

LEMMA RefusesStep ==
    ASSUME IInv, NEW r \in Requests, Refuses(r)
    PROVE  IInv'
<1>1. Idle \in Request /\ Idle.pc = "idle" /\ request[r].pc # "insert"
  BY DEF Request, Idle, Refuses
<1>2. client' \in [Clients -> Script \cup Requests]
  BY ToldType DEF Refuses, IInv, Script
<1> QED
  BY <1>1, <1>2, RequestMoves DEF Refuses

LEMMA AnswersStep ==
    ASSUME IInv, NEW r \in Requests, Answers(r)
    PROVE  IInv'
<1>1. Idle \in Request /\ Idle.pc = "idle" /\ request[r].pc # "insert"
  BY DEF Request, Idle, Answers
<1>2. client' \in [Clients -> Script \cup Requests]
  BY ToldType DEF Answers, IInv, Script
<1> QED
  BY <1>1, <1>2, RequestMoves DEF Answers

LEMMA LooksUpStep ==
    ASSUME IInv, NEW r \in Requests, LooksUp(r)
    PROVE  IInv'
<1>1. request[r] \in [pc: {"lookup", "store"}, key: Keys]
  BY DEF LooksUp, IInv, TypeOK, Request, Idle
<1>2. client' \in [Clients -> Script \cup Requests]
  BY DEF LooksUp, IInv, TypeOK
<1> DEFINE key == request[r].key
<1>3. CASE /\ Seen(key) = {}
           /\ request' = [request EXCEPT ![r].pc = "store"]
           /\ raced' = IF Making(key) THEN raced \cup {key} ELSE raced
  <2> DEFINE to == [request[r] EXCEPT !.pc = "store"]
  <2>1. to \in Request /\ to.pc = "store" /\ to.key = key /\ request[r].pc = "lookup"
    BY <1>1 DEF Request, LooksUp
  <2>2. request'[r] = to /\ \A q \in Requests \ {r} : request'[q] = request[q]
    BY <1>3 DEF IInv, TypeOK
  <2>3. UNCHANGED <<indexed, client, job, stored, requeue, hour, faults, orphaned, cleanup, sweep,
                    retired>>
    BY DEF LooksUp, retention
  <2>4. raced \subseteq raced' /\ raced' \subseteq Keys /\ key \in Keys
    BY <1>1, <1>3 DEF IInv, TypeOK
  <2>5. TypeOK'
    <3>1. request' \in [Requests -> Request]
      BY <1>3, <2>1 DEF IInv, TypeOK
    <3> QED
      BY <2>3, <2>4, <3>1 DEF IInv, TypeOK
  <2>6. Intake'
    <3>1. \A q \in Requests : request'[q].pc = "insert" => q # r /\ request'[q] = request[q]
      BY <2>1, <2>2
    <3> QED
      BY <2>3, <3>1 DEF IInv, Intake, HasJob
  <2>7. Referred' /\ OldEnough' /\ KeepsDocument'
    BY <2>3 DEF IInv, Referred, OldEnough, Expired, In, HasJob, KeepsDocument
  <2>8. OneJobPerKey' /\ TwiceOnlyByRace'
    BY <2>3, <2>4 DEF IInv, Rows, OneJobPerKey, TwiceOnlyByRace, HasJob
  <2>9. OneMaker'
    <3>1. \A d \in Docs : HasJob(d) => job[d].key # key
      BY <1>3 DEF Seen, Keyed
    <3>2. key \notin raced' => \A q \in Requests : Maker(q) => request[q].key # key
      BY <1>3 DEF Making, Maker
    <3>3. ASSUME NEW q \in Requests, request'[q].pc \in {"store", "insert"},
                 request'[q].key \notin raced'
          PROVE  /\ \A d \in Docs : job[d] # NoJob => job[d].key # request'[q].key
                 /\ \A p \in Requests : request'[p].pc \in {"store", "insert"}
                                        /\ request'[p].key = request'[q].key => p = q
      <4>1. CASE q = r
        <5>1. request'[q].key = key /\ key \notin raced'
          BY <2>1, <2>2, <3>3, <4>1
        <5>2. ASSUME NEW p \in Requests, request'[p].pc \in {"store", "insert"},
                     request'[p].key = request'[q].key, p # r
              PROVE  FALSE
          <6>1. Maker(p) /\ request[p].key = key
            BY <2>2, <5>1, <5>2 DEF Maker
          <6> QED
            BY <3>2, <5>1, <6>1
        <5> HIDE DEF key, to
        <5> QED
          BY <3>1, <4>1, <5>1, <5>2 DEF HasJob
      <4>2. CASE q # r
        <5>1. Maker(q) /\ request'[q] = request[q] /\ request[q].key \notin raced
          BY <2>2, <2>4, <3>3, <4>2 DEF Maker
        <5>2. key # request[q].key
          <6>1. CASE key \in raced'
            BY <3>3, <5>1, <6>1
          <6>2. CASE key \notin raced'
            BY <3>2, <5>1, <6>2
          <6> QED
            BY <6>1, <6>2
        <5>3. \A d \in Docs : HasJob(d) => job[d].key # request[q].key
          BY <5>1 DEF IInv, Rows, OneMaker
        <5>4. ASSUME NEW p \in Requests, request'[p].pc \in {"store", "insert"},
                     request'[p].key = request'[q].key
              PROVE  p = q
          <6>1. p # r
            BY <2>1, <2>2, <5>1, <5>2, <5>4
          <6>2. Maker(p) /\ request[p].key = request[q].key
            BY <2>2, <5>1, <5>4, <6>1 DEF Maker
          <6> QED
            BY <5>1, <6>2 DEF IInv, Rows, OneMaker
        <5> HIDE DEF key, to
        <5> QED
          BY <5>1, <5>3, <5>4 DEF HasJob
      <4> QED
        BY <4>1, <4>2
    <3> QED
      BY <2>3, <3>3 DEF OneMaker, Maker, HasJob
  <2> QED
    BY <2>5, <2>6, <2>7, <2>8, <2>9 DEF IInv, Rows
<1>4. ASSUME NEW d \in Seen(request[r].key), UNCHANGED <<indexed, raced>>,
             request' = [request EXCEPT ![r] = [pc |-> "answer", key |-> request[r].key, doc |-> d]]
      PROVE  IInv'
  <2> DEFINE to == [pc |-> "answer", key |-> request[r].key, doc |-> d]
  <2>1. to \in Request /\ to.pc = "answer"
    BY <1>1 DEF Request, Seen, Keyed
  <2> QED
    BY <1>1, <1>2, <1>4, <2>1, RequestMoves DEF LooksUp
<1> QED
  BY <1>3, <1>4 DEF LooksUp

\* A fresh document has no job, and is in no other request's hands.
LEMMA StoresDocumentStep ==
    ASSUME IInv, NEW r \in Requests, StoresDocument(r)
    PROVE  IInv'
<1> PICK d \in Fresh, where \in Stores :
      /\ stored' = [stored EXCEPT ![d] = where]
      /\ request' = [request EXCEPT ![r] = [pc |-> "insert", key |-> request[r].key, doc |-> d]]
  BY DEF StoresDocument
<1> DEFINE to == [pc |-> "insert", key |-> request[r].key, doc |-> d]
<1>1. request[r] \in [pc: {"lookup", "store"}, key: Keys]
  BY DEF StoresDocument, IInv, TypeOK, Request, Idle
<1>2. /\ d \in Docs /\ ~HasJob(d) /\ stored[d] = None
      /\ \A q \in Requests : request[q].pc = "insert" => request[q].doc # d
  BY DEF Fresh, BeingStored
<1>3. UNCHANGED <<indexed, client, job, requeue, hour, faults, orphaned, raced, retention>>
  BY DEF StoresDocument
<1>4. TypeOK'
  <2>1. to \in Request
    BY <1>1, <1>2 DEF Request
  <2>2. request' \in [Requests -> Request] /\ stored' \in [Docs -> Stores \cup {None}]
    BY <1>2, <2>1 DEF IInv, TypeOK
  <2> QED
    BY <1>3, <2>2 DEF IInv, TypeOK, retention
<1>5. /\ request'[r] = to /\ \A q \in Requests \ {r} : request'[q] = request[q]
      /\ stored'[d] # None /\ \A e \in Docs \ {d} : stored'[e] = stored[e]
  BY <1>2, ConstantFacts DEF IInv, TypeOK
<1>6. Intake'
  <2>1. ASSUME NEW q \in Requests, request'[q].pc = "insert"
        PROVE  /\ stored'[request'[q].doc] # None
               /\ job[request'[q].doc] = NoJob
               /\ \A p \in Requests :
                     request'[p].pc = "insert" /\ request'[p].doc = request'[q].doc => p = q
    <3>1. CASE q = r
      BY <1>2, <1>5, <3>1 DEF HasJob
    <3>2. CASE q # r
      <4>1. /\ request'[q] = request[q] /\ request[q].doc # d /\ request[q].doc \in Docs
            /\ stored[request[q].doc] # None /\ ~HasJob(request[q].doc)
        BY <1>2, <1>5, <2>1, <3>2 DEF IInv, Intake, TypeOK, Request, Idle
      <4>2. ASSUME NEW p \in Requests, request'[p].pc = "insert",
                   request'[p].doc = request'[q].doc
            PROVE  p = q
        <5>1. p # r
          BY <1>5, <4>1, <4>2
        <5> QED
          BY <1>5, <2>1, <4>1, <4>2, <5>1 DEF IInv, Intake
      <4> QED
        BY <1>5, <4>1, <4>2 DEF HasJob
    <3> QED
      BY <3>1, <3>2
  <2> QED
    BY <1>3, <2>1 DEF Intake, HasJob
<1>7. KeepsDocument'
  BY <1>2, <1>3, <1>5 DEF IInv, KeepsDocument, HasJob, retention
<1>8. Referred' /\ OldEnough'
  BY <1>3 DEF IInv, Referred, OldEnough, Expired, In, HasJob, retention
<1>9. Rows'
  <2>1. request[r].pc = "store"
    BY DEF StoresDocument
  <2> QED
    BY <1>3, <1>5, <2>1, RowsKept DEF IInv, Maker, HasJob
<1> QED
  BY <1>4, <1>6, <1>7, <1>8, <1>9 DEF IInv

\* The document of a refused insert has no job; that of an inserted one is stored.
LEMMA InsertsJobStep ==
    ASSUME IInv, NEW r \in Requests, InsertsJob(r)
    PROVE  IInv'
<1> DEFINE req == request[r]
           new == [status |-> "pending", key |-> req.key, age |-> 0]
<1>1. /\ req \in [pc: {"insert", "answer"}, key: Keys, doc: Docs] /\ req.pc = "insert"
      /\ stored[req.doc] # None /\ ~HasJob(req.doc)
      /\ \A q \in Requests \ {r} : request[q].pc = "insert" =>
            request[q].doc # req.doc /\ request[q].doc \in Docs
  BY DEF InsertsJob, IInv, TypeOK, Request, Idle, Intake
<1>2. UNCHANGED <<indexed, requeue, hour, faults, raced, cleanup, sweep, retired>>
  BY DEF InsertsJob, retention
<1>3. CASE Taken(req.key)
  <2>1. /\ Told(r, "halted")
        /\ request' = [request EXCEPT ![r] = Idle]
        /\ stored' = [stored EXCEPT ![req.doc] = None]
        /\ orphaned' = TRUE /\ UNCHANGED job
    BY <1>3 DEF InsertsJob
  <2>2. client' \in [Clients -> Script \cup Requests]
    BY <2>1, ToldType DEF IInv, Script
  <2>3. TypeOK'
    BY <1>1, <1>2, <2>1, <2>2 DEF IInv, TypeOK, Request
  <2>4. Intake'
    <3>1. \A q \in Requests : request'[q].pc = "insert" => q # r /\ request'[q] = request[q]
      BY <2>1 DEF IInv, TypeOK, Idle
    <3>2. \A e \in Docs \ {req.doc} : stored'[e] = stored[e]
      BY <2>1 DEF IInv, TypeOK
    <3> QED
      BY <1>1, <2>1, <3>1, <3>2 DEF IInv, Intake, HasJob
  <2>5. KeepsDocument'
    BY <1>1, <1>2, <2>1 DEF IInv, TypeOK, KeepsDocument, HasJob
  <2>6. Referred' /\ OldEnough'
    BY <1>2, <2>1 DEF IInv, Referred, OldEnough, Expired, In, HasJob
  <2>7. Rows'
    <3>1. \A q \in Requests : request'[q].pc \in {"store", "insert"} =>
             Maker(q) /\ request'[q] = request[q]
      BY <2>1 DEF IInv, TypeOK, Idle, Maker
    <3> QED
      BY <1>2, <2>1, <3>1, RowsKept DEF IInv, HasJob
  <2> QED
    BY <2>3, <2>4, <2>5, <2>6, <2>7 DEF IInv
<1>4. CASE ~Taken(req.key)
  <2>1. /\ job' = [job EXCEPT ![req.doc] = new]
        /\ request' = [request EXCEPT ![r].pc = "answer"]
        /\ UNCHANGED <<client, stored, orphaned>>
    BY <1>4 DEF InsertsJob
  <2>2. new \in Row /\ new # NoJob /\ new.age # Retention
    BY <1>1, ConstantFacts DEF Row, NoJob
  <2>3. job'[req.doc] = new /\ \A d \in Docs \ {req.doc} : job'[d] = job[d]
    BY <1>1, <2>1 DEF IInv, TypeOK
  <2>4. TypeOK'
    <3>1. request' \in [Requests -> Request]
      BY <1>1, <2>1 DEF IInv, TypeOK, Request
    <3>2. job' \in [Docs -> Row \cup {NoJob}]
      BY <2>1, <2>2 DEF IInv, TypeOK
    <3> QED
      BY <1>2, <2>1, <3>1, <3>2 DEF IInv, TypeOK
  <2>5. Intake'
    <3>1. \A q \in Requests : request'[q].pc = "insert" => q # r /\ request'[q] = request[q]
      BY <1>1, <2>1 DEF IInv, TypeOK
    <3>2. ASSUME NEW q \in Requests, request'[q].pc = "insert"
          PROVE  /\ stored'[request'[q].doc] # None
                 /\ job'[request'[q].doc] = NoJob
                 /\ \A p \in Requests :
                       request'[p].pc = "insert" /\ request'[p].doc = request'[q].doc => p = q
      BY <1>1, <2>1, <2>3, <3>1, <3>2 DEF IInv, Intake, HasJob
    <3> QED
      BY <3>2 DEF Intake, HasJob
  <2>6. Rows'
    <3>1. indexed => \A d \in Docs : HasJob(d) => job[d].key # req.key
      BY <1>4 DEF Taken, Keyed
    <3>2. req.key \notin raced => \A d \in Docs : HasJob(d) => job[d].key # req.key
      BY <1>1 DEF IInv, Rows, OneMaker, Maker
    <3>3. ASSUME NEW c \in Docs, NEW d \in Docs, job'[c] # NoJob, job'[d] # NoJob,
                 job'[c].key = job'[d].key
          PROVE  (indexed => c = d) /\ (c = d \/ job'[c].key \in raced)
      <4>1. CASE c = req.doc
        BY <2>3, <3>1, <3>2, <3>3, <4>1 DEF HasJob
      <4>2. CASE d = req.doc
        BY <2>3, <3>1, <3>2, <3>3, <4>2 DEF HasJob
      <4>3. CASE c # req.doc /\ d # req.doc
        BY <2>3, <3>3, <4>3 DEF IInv, Rows, OneJobPerKey, TwiceOnlyByRace, HasJob
      <4> QED
        BY <4>1, <4>2, <4>3
    <3>4. OneMaker'
      <4>1. ASSUME NEW q \in Requests, request'[q].pc \in {"store", "insert"}
            PROVE  q # r /\ Maker(q) /\ request'[q] = request[q]
        BY <1>1, <2>1, <4>1 DEF IInv, TypeOK, Maker
      <4>2. ASSUME NEW q \in Requests, request'[q].pc \in {"store", "insert"},
                   request[q].key \notin raced
            PROVE  /\ \A d \in Docs : job'[d] # NoJob => job'[d].key # request[q].key
                   /\ \A p \in Requests : request'[p].pc \in {"store", "insert"}
                                          /\ request[p].key = request[q].key => p = q
        <5>1. q # r /\ Maker(q) /\ Maker(r)
          BY <1>1, <4>1, <4>2 DEF Maker
        <5>2. request[q].key # req.key
          BY <4>2, <5>1 DEF IInv, Rows, OneMaker
        <5>3. \A d \in Docs : job'[d] # NoJob => job'[d].key # request[q].key
          BY <2>3, <4>2, <5>1, <5>2 DEF IInv, Rows, OneMaker, HasJob
        <5> QED
          BY <4>1, <4>2, <5>1, <5>3 DEF IInv, Rows, OneMaker
      <4> QED
        BY <1>2, <4>1, <4>2 DEF OneMaker, Maker, HasJob
    <3> QED
      BY <1>2, <3>3, <3>4 DEF Rows, OneJobPerKey, TwiceOnlyByRace, HasJob
  <2>7. KeepsDocument'
    BY <1>1, <1>2, <2>1, <2>3 DEF IInv, KeepsDocument, HasJob
  <2>8. Referred'
    BY <1>2, <2>2, <2>3 DEF IInv, TypeOK, Referred, HasJob
  <2>9. OldEnough'
    <3>1. \A d \in Docs : Expired(d)' => Expired(d)
      BY <2>2, <2>3 DEF Expired, In, HasJob
    <3> QED
      BY <1>2, <2>2, <2>3, <3>1 DEF IInv, TypeOK, OldEnough, HasJob
  <2> QED
    BY <2>4, <2>5, <2>6, <2>7, <2>8, <2>9 DEF IInv
<1> QED
  BY <1>3, <1>4

LEMMA CrashStep == ASSUME IInv, Crash PROVE IInv'
<1>1. /\ request' = [r \in Requests |-> Idle]
      /\ client' = [c \in Clients |-> IF client[c] \in Requests THEN "halted" ELSE client[c]]
      /\ stored' = [d \in Docs |-> IF d \in BeingStored THEN None ELSE stored[d]]
      /\ orphaned' = (orphaned \/ BeingStored # {})
      /\ sweep' = [pc |-> "idle", docs |-> {}]
      /\ requeue' = None
      /\ UNCHANGED <<indexed, job, cleanup, hour, retired, raced>>
  BY DEF Crash
<1>2. TypeOK'
  <2>1. faults' \in 0..MaxFaults
    BY ConstantsOK DEF Crash, IInv, TypeOK
  <2>2. client' \in [Clients -> Script \cup Requests]
    BY <1>1 DEF IInv, TypeOK, Script
  <2> QED
    BY <1>1, <2>1, <2>2 DEF IInv, TypeOK, Request, BeingStored
<1>3. Intake'
  BY <1>1 DEF Intake, Idle
<1>4. KeepsDocument'
  <2>1. \A d \in BeingStored : ~HasJob(d)
    BY DEF BeingStored, IInv, Intake
  <2> QED
    BY <1>1, <2>1 DEF IInv, KeepsDocument, HasJob
<1>5. Referred' /\ OldEnough'
  BY <1>1 DEF IInv, Referred, OldEnough, Expired, In, HasJob
<1>6. Rows'
  BY <1>1, RowsKept DEF IInv, Idle, HasJob
<1> QED
  BY <1>2, <1>3, <1>4, <1>5, <1>6 DEF IInv

(***************************************************************************)
(* The job's later life                                                    *)
(***************************************************************************)

\* A change of a job's status, which starts its age anew.
LEMMA StatusStep ==
    ASSUME IInv, NEW d \in Docs, HasJob(d),
           NEW status \in {"ready", "printing"} \cup Terminal,
           SetStatus(d, status),
           requeue' \in {requeue, None}, cleanup' \in {cleanup, cleanup \cup {d}},
           UNCHANGED <<intake, stored, sweep, retired>>
    PROVE  IInv'
<1>1. job[d] \in Row
  BY RowFacts DEF IInv
<1> DEFINE new == [job[d] EXCEPT !.status = status, !.age = 0]
<1>2. /\ new \in Row /\ new # NoJob /\ new.key = job[d].key /\ new.age # Retention
      /\ job' = [job EXCEPT ![d] = new]
  BY <1>1, ConstantFacts, NoJobIsNoRow DEF SetStatus, Row
<1>3. job'[d] = new /\ \A e \in Docs \ {d} : job'[e] = job[e]
  BY <1>2 DEF IInv, TypeOK
<1>4. \A e \in Docs : job'[e] # NoJob <=> HasJob(e)
  BY <1>2, <1>3 DEF HasJob
<1>5. TypeOK'
  <2>1. job' \in [Docs -> Row \cup {NoJob}]
    BY <1>2 DEF IInv, TypeOK
  <2> QED
    BY <2>1 DEF IInv, TypeOK, intake
<1>6. Intake'
  <2>1. \A r \in Requests : request[r].pc = "insert" => request[r].doc \in Docs
    BY DEF IInv, TypeOK, Request, Idle
  <2> QED
    BY <1>4, <2>1 DEF IInv, Intake, HasJob, intake
<1>7. Referred'
  BY <1>4 DEF IInv, TypeOK, Referred, HasJob
<1>8. OldEnough'
  <2>1. \A e \in Docs : Expired(e)' => Expired(e)
    BY <1>2, <1>3 DEF Expired, In, HasJob
  <2> QED
    BY <1>4, <2>1 DEF IInv, TypeOK, OldEnough, HasJob
<1>9. Rows'
  <2>1. \A e \in Docs : job'[e].key = job[e].key
    BY <1>2, <1>3
  <2> QED
    BY <1>4, <2>1, RowsKept DEF IInv, Maker, HasJob, intake
<1>10. KeepsDocument'
  BY <1>4 DEF IInv, KeepsDocument, HasJob
<1> QED
  BY <1>5, <1>6, <1>7, <1>8, <1>9, <1>10 DEF IInv

LEMMA AdvancesStep ==
    ASSUME IInv, NEW d \in Docs, Advances(d)
    PROVE  IInv'
BY StatusStep DEF Advances, In, retention

LEMMA EndsStep ==
    ASSUME IInv, NEW d \in Docs, Ends(d)
    PROVE  IInv'
<1>1. PICK status \in Terminal : SetStatus(d, status)
  BY DEF Ends, Terminal
<1>2. HasJob(d) /\ UNCHANGED <<intake, stored, requeue, cleanup, sweep, retired>>
  BY DEF Ends, In, retention
<1> QED
  BY <1>1, <1>2, StatusStep

LEMMA CompletePrintJobStep ==
    ASSUME IInv, NEW d \in Docs, CompletePrintJob(d)
    PROVE  IInv'
BY StatusStep DEF CompletePrintJob, In, Terminal

LEMMA RequeueReadsStep ==
    ASSUME IInv, NEW d \in Docs, RequeueReads(d)
    PROVE  IInv'
<1>1. requeue' = d /\ HasJob(d) /\ UNCHANGED <<intake, job, stored, retention>>
  BY DEF RequeueReads, In
<1>2. Rows'
  BY <1>1, RowsKept DEF IInv, Maker, HasJob, intake
<1> QED
  BY <1>1, <1>2 DEF IInv, TypeOK, Intake, Referred, OldEnough, Expired, In, HasJob,
     KeepsDocument, intake, retention

LEMMA RequeueSavesStep == ASSUME IInv, RequeueSaves PROVE IInv'
<1>1. requeue \in Docs /\ HasJob(requeue)
  BY DEF RequeueSaves, IInv, TypeOK, Referred
<1> QED
  BY <1>1, StatusStep DEF RequeueSaves, retention

(***************************************************************************)
(* Retention                                                               *)
(***************************************************************************)

LEMMA SweepFindsStep == ASSUME IInv, SweepFinds PROVE IInv'
<1>1. /\ sweep' = [pc |-> "unlink", docs |-> {d \in Docs : Expired(d)}]
      /\ UNCHANGED <<intake, job, stored, requeue, cleanup, retired>>
  BY DEF SweepFinds
<1>2. Rows'
  BY <1>1, RowsKept DEF IInv, Maker, HasJob, intake
<1> QED
  BY <1>1, <1>2 DEF IInv, TypeOK, Intake, Referred, OldEnough, Expired, In, HasJob,
     KeepsDocument, intake

\* Documents of finished jobs go: none of them is in a request's hands.
LEMMA BytesGo ==
    ASSUME IInv, NEW gone \in SUBSET retired,
           stored' = [d \in Docs |-> IF d \in gone THEN None ELSE stored[d]],
           sweep' \in {sweep, [pc |-> "idle", docs |-> {}]}, cleanup' \subseteq cleanup,
           UNCHANGED <<intake, job, requeue, retired>>
    PROVE  IInv'
<1>1. TypeOK'
  BY DEF IInv, TypeOK, intake
<1>2. Intake'
  <2>1. \A r \in Requests : request[r].pc = "insert" => request[r].doc \in Docs
    BY DEF IInv, TypeOK, Request, Idle
  <2>2. \A d \in gone : HasJob(d)
    BY DEF IInv, OldEnough
  <2> QED
    BY <2>1, <2>2 DEF IInv, Intake, HasJob, intake
<1>3. KeepsDocument'
  BY DEF IInv, KeepsDocument, HasJob
<1>4. Referred' /\ OldEnough'
  BY DEF IInv, Referred, OldEnough, Expired, In, HasJob
<1>5. Rows'
  BY RowsKept DEF IInv, Maker, HasJob, intake
<1> QED
  BY <1>1, <1>2, <1>3, <1>4, <1>5 DEF IInv

LEMMA SweepUnlinksStep == ASSUME IInv, SweepUnlinks PROVE IInv'
<1> DEFINE gone == {d \in Docs : Unlinked(d)}
<1>1. gone \subseteq retired
  BY DEF Unlinked, IInv, OldEnough
<1>2. stored' = [d \in Docs |-> IF d \in gone THEN None ELSE stored[d]]
  BY DEF SweepUnlinks
<1> HIDE DEF gone
<1> QED
  BY <1>1, <1>2, BytesGo DEF SweepUnlinks

LEMMA CleanupRunsStep ==
    ASSUME IInv, NEW d \in Docs, CleanupRuns(d)
    PROVE  IInv'
<1> DEFINE gone == IF Destroyed(d) THEN {d} ELSE {}
<1>1. gone \subseteq retired
  BY DEF CleanupRuns, Destroyed, In, Terminal, IInv, OldEnough, Expired
<1>2. stored' = [e \in Docs |-> IF e \in gone THEN None ELSE stored[e]]
  BY DEF CleanupRuns, IInv, TypeOK
<1> HIDE DEF gone
<1> QED
  BY <1>1, <1>2, BytesGo DEF CleanupRuns

LEMMA TickStep == ASSUME IInv, Tick PROVE IInv'
<1>1. /\ hour' = IF hour < MaxHour THEN hour + 1 ELSE hour
      /\ job' = [d \in Docs |-> IF HasJob(d) THEN Aged(job[d]) ELSE NoJob]
      /\ retired' = retired \cup {d \in Docs : In(d, Terminal) /\ job[d].age = Retention - 1}
      /\ UNCHANGED <<indexed, client, request, faults, orphaned, raced, stored, requeue, cleanup,
                    sweep>>
  BY DEF Tick
<1>2. ASSUME NEW d \in Docs, HasJob(d)
      PROVE  /\ Aged(job[d]) \in Row /\ Aged(job[d]) # NoJob
             /\ Aged(job[d]).key = job[d].key /\ Aged(job[d]).status = job[d].status
             /\ Aged(job[d]).age = Retention =>
                   job[d].age = Retention \/ job[d].age = Retention - 1
  BY <1>2, RowFacts, ConstantFacts, NoJobIsNoRow DEF IInv, Aged, Row
<1>3. \A d \in Docs : job'[d] = IF HasJob(d) THEN Aged(job[d]) ELSE NoJob
  BY <1>1
<1>4. \A d \in Docs : job'[d] # NoJob <=> HasJob(d)
  BY <1>2, <1>3 DEF HasJob
<1>5. TypeOK'
  <2>1. hour' \in 0..MaxHour
    BY <1>1, ConstantsOK DEF IInv, TypeOK
  <2>2. job' \in [Docs -> Row \cup {NoJob}]
    BY <1>1, <1>2
  <2>3. retired' \subseteq Docs
    BY <1>1 DEF IInv, TypeOK
  <2> QED
    BY <1>1, <2>1, <2>2, <2>3 DEF IInv, TypeOK
<1>6. Intake'
  <2>1. \A r \in Requests : request[r].pc = "insert" => request[r].doc \in Docs
    BY DEF IInv, TypeOK, Request, Idle
  <2> QED
    BY <1>1, <1>4, <2>1 DEF IInv, Intake, HasJob
<1>7. Referred'
  BY <1>1, <1>4 DEF IInv, TypeOK, Referred, HasJob
<1>8. OldEnough'
  <2>1. ASSUME NEW d \in Docs, Expired(d)'
        PROVE  d \in retired'
    <3>1. /\ HasJob(d) /\ Aged(job[d]).status \in Terminal /\ Aged(job[d]).age = Retention
      BY <1>3, <1>4, <2>1 DEF Expired, In, HasJob
    <3>2. CASE job[d].age = Retention
      BY <1>1, <1>2, <3>1, <3>2 DEF IInv, OldEnough, Expired, In
    <3>3. CASE job[d].age = Retention - 1
      BY <1>1, <1>2, <3>1, <3>3 DEF In
    <3> QED
      BY <1>2, <3>1, <3>2, <3>3
  <2>2. \A d \in retired' : HasJob(d) /\ d \in Docs
    BY <1>1 DEF IInv, TypeOK, OldEnough, In
  <2> QED
    BY <1>1, <1>4, <2>1, <2>2 DEF IInv, OldEnough, HasJob
<1>9. Rows'
  BY <1>1, <1>2, <1>3, <1>4, RowsKept DEF IInv, Maker, HasJob
<1>10. KeepsDocument'
  BY <1>1, <1>4 DEF IInv, KeepsDocument, HasJob
<1> QED
  BY <1>5, <1>6, <1>7, <1>8, <1>9, <1>10 DEF IInv

(***************************************************************************)
(* The theorems                                                            *)
(***************************************************************************)

LEMMA NextIInv ==
    ASSUME IInv, [Next]_vars
    PROVE  IInv'
<1>1. CASE UNCHANGED vars
  BY <1>1, StutterStep
<1>2. CASE \E c \in Clients : TimesOut(c) \/ Resumes(c) \/ \E r \in Requests : Submits(c, r)
  BY <1>2, SubmitsStep, TimesOutStep, ResumesStep
<1>3. CASE \E r \in Requests :
              Refuses(r) \/ LooksUp(r) \/ StoresDocument(r) \/ InsertsJob(r) \/ Answers(r)
  BY <1>3, RefusesStep, LooksUpStep, StoresDocumentStep, InsertsJobStep, AnswersStep
<1>4. CASE \E d \in Docs :
              Advances(d) \/ Ends(d) \/ CompletePrintJob(d) \/ RequeueReads(d) \/ CleanupRuns(d)
  BY <1>4, AdvancesStep, EndsStep, CompletePrintJobStep, RequeueReadsStep, CleanupRunsStep
<1>5. CASE RequeueSaves \/ SweepFinds \/ SweepUnlinks \/ Crash \/ Tick
  BY <1>5, RequeueSavesStep, SweepFindsStep, SweepUnlinksStep, CrashStep, TickStep
<1> QED
  BY <1>1, <1>2, <1>3, <1>4, <1>5 DEF Next

LEMMA Invariance == Spec => []IInv
BY InitIInv, NextIInv, PTL DEF Spec

\* Every variable keeps to its type.
THEOREM TypeCorrect == Spec => []TypeOK
<1>1. IInv => TypeOK
  BY DEF IInv
<1> QED
  BY <1>1, Invariance, PTL

\* Where the unique index exists: however many submissions under one key overlap, time out
\* and come again, one of them inserts a job.
THEOREM OneJobPerKeyHolds == Spec => []OneJobPerKey
<1>1. IInv => OneJobPerKey
  BY DEF IInv, Rows
<1> QED
  BY <1>1, Invariance, PTL

\* With the index or without, a key that was never looked up while another submission was
\* making its job has one job.
THEOREM TwiceOnlyByRaceHolds == Spec => []TwiceOnlyByRace
<1>1. IInv => TwiceOnlyByRace
  BY DEF IInv, Rows
<1> QED
  BY <1>1, Invariance, PTL

\* No refused insert, crash, sweep or clean-up takes the document of a job that has not yet
\* been done or failed for the retention time.
THEOREM KeepsDocumentHolds == Spec => []KeepsDocument
<1>1. IInv => KeepsDocument
  BY DEF IInv
<1> QED
  BY <1>1, Invariance, PTL
==============================================================================
