------------------------------- MODULE Documents -------------------------------
(***************************************************************************)
(* How a document comes in through a CUPS queue and when its bytes go      *)
(* again: the queue's backend script and what its exit code does to the    *)
(* queue, the ingress with its idempotency key, the job's later life as    *)
(* far as its document depends on it, the hourly retention sweep and the   *)
(* clean-up queue.                                                         *)
(***************************************************************************)
EXTENDS Naturals, FiniteSets

CONSTANTS
    Clients,    \* jobs at the head of a CUPS queue
    Requests,   \* POST /api/cups/print requests that may overlap
    Docs,       \* bound: documents stored in all; a job has the name of its document
    Stores,     \* where saveBuffer may put one: "disk", "cloudinary", "s3"
    Retention,  \* documentRetentionHours, in ticks of an hour
    MaxHour,    \* bound: the last hour told apart by idempotency keys
    MaxFaults   \* bound: curl timeouts, lost answers and crashes of the server

ASSUME ConstantsOK ==
    /\ Stores \subseteq {"disk", "cloudinary", "s3"}
    /\ Retention \in Nat \ {0}
    /\ {MaxHour, MaxFaults} \subseteq Nat

VARIABLES
    indexed,   \* whether print_jobs_user_idem_uniq exists: in SQLite, not in Postgres
    client,    \* the backend script of each CUPS job; a request while it waits for its answer
    request,   \* the requests the server is working on
    job,       \* print_jobs rows of the documents that have one
    stored,    \* the documents whose bytes exist, by where they are
    cleanup,   \* file-cleanup jobs waiting their 24 hours
    sweep,     \* runRetentionSweep
    requeue,   \* the operator's requeue: the FAILED job it has read
    hour, faults,
    retired,   \* history: jobs that once sat in a terminal status for the retention time
    orphaned,  \* history: some document was stored and no job refers to it
    raced      \* history: keys looked up in vain while an earlier submission had yet to insert

intake == <<indexed, client, request, hour, faults, orphaned, raced>>
retention == <<cleanup, sweep, retired>>
vars == <<intake, job, stored, requeue, retention>>

None == "none"
Keys == Clients \X (0..MaxHour)

\* Nothing sets the other two terminal statuses, EXPIRED and REFUNDED.
Terminal == {"done", "failed"}
Row == [status: {"pending", "ready", "printing"} \cup Terminal, key: Keys, age: 0..Retention]

\* What becomes of a CUPS job: the script is run, it has ended with exit 4, which stops the
\* queue with the job in it, the job is in, or the script has given it up with exit 1 or 2.
Script == {"print", "halted", "accepted", "refused"}

NoJob == [status |-> "none"]
Idle == [pc |-> "idle"]
Request ==
    {Idle} \cup [pc: {"lookup", "store"}, key: Keys]
           \cup [pc: {"insert", "answer"}, key: Keys, doc: Docs]

TypeOK ==
    /\ indexed \in BOOLEAN
    /\ client \in [Clients -> Script \cup Requests]
    /\ request \in [Requests -> Request]
    /\ job \in [Docs -> Row \cup {NoJob}]
    /\ stored \in [Docs -> Stores \cup {None}]
    /\ cleanup \subseteq Docs
    /\ sweep \in [pc: {"idle", "unlink"}, docs: SUBSET Docs]
    /\ requeue \in Docs \cup {None}
    /\ hour \in 0..MaxHour /\ faults \in 0..MaxFaults
    /\ retired \subseteq Docs /\ orphaned \in BOOLEAN /\ raced \subseteq Keys

Init ==
    /\ indexed \in BOOLEAN
    /\ client = [c \in Clients |-> "print"]
    /\ request = [r \in Requests |-> Idle]
    /\ job = [d \in Docs |-> NoJob]
    /\ stored = [d \in Docs |-> None]
    /\ cleanup = {}
    /\ sweep = [pc |-> "idle", docs |-> {}]
    /\ requeue = None
    /\ hour = 0 /\ faults = 0
    /\ retired = {} /\ orphaned = FALSE /\ raced = {}

HasJob(d) == job[d] # NoJob
In(d, statuses) == HasJob(d) /\ job[d].status \in statuses
Keyed(key) == {d \in Docs : HasJob(d) /\ job[d].key = key}

\* Documents some request has stored and not yet put into a job.
BeingStored == {request[r].doc : r \in {q \in Requests : request[q].pc = "insert"}}

\* Free for a new document. That of a request that failed is forgotten, and its name free.
Fresh == {d \in Docs : stored[d] = None /\ ~HasJob(d) /\ d \notin BeingStored}

(***************************************************************************)
(* The backend script                                                      *)
(***************************************************************************)

\* The key holds the CUPS job, its user and the hour.
Submits(c, r) ==
    /\ client[c] = "print"
    /\ request[r] = Idle
    /\ client' = [client EXCEPT ![c] = r]
    /\ request' = [request EXCEPT ![r] = [pc |-> "lookup", key |-> <<c, hour>>]]
    /\ UNCHANGED <<indexed, job, stored, requeue, hour, faults, orphaned, raced, retention>>

\* curl's 120 s are over, or the answer is lost: exit 4, which CUPS takes to mean that the
\* queue is to be stopped. The server goes on with the request.
TimesOut(c) ==
    /\ client[c] \in Requests
    /\ faults < MaxFaults
    /\ faults' = faults + 1
    /\ client' = [client EXCEPT ![c] = "halted"]
    /\ UNCHANGED <<indexed, request, job, stored, requeue, hour, orphaned, raced, retention>>

\* Somebody enables the queue again, and it starts with the job it was stopped at.
Resumes(c) ==
    /\ client[c] = "halted"
    /\ client' = [client EXCEPT ![c] = "print"]
    /\ UNCHANGED <<indexed, request, job, stored, requeue, hour, faults, orphaned, raced,
                   retention>>

\* What the script makes of the answer to r, if it still waits for it. A 500 is exit 4.
Told(r, outcome) == client' = [c \in Clients |-> IF client[c] = r THEN outcome ELSE client[c]]

(***************************************************************************)
(* POST /api/cups/print                                                    *)
(***************************************************************************)

\* No user, a blocked user, an unreadable or oversized document: a 4xx, exit 1 or 2.
Refuses(r) ==
    /\ request[r].pc = "lookup"
    /\ Told(r, "refused")
    /\ request' = [request EXCEPT ![r] = Idle]
    /\ UNCHANGED <<indexed, job, stored, requeue, hour, faults, orphaned, raced, retention>>

\* Mutant: the lookup of an earlier submission is left out.
SeenNever(key) == {}

\* The job of an earlier submission under the same key.
Seen(key) == Keyed(key)

\* A submission under this key has been looked up in vain, and has not inserted its job.
Making(key) ==
    \E q \in Requests : request[q].pc \in {"store", "insert"} /\ request[q].key = key

LooksUp(r) ==
    /\ request[r].pc = "lookup"
    /\ LET req == request[r]
       IN  \/ /\ Seen(req.key) = {}
              /\ request' = [request EXCEPT ![r].pc = "store"]
              /\ raced' = IF Making(req.key) THEN raced \cup {req.key} ELSE raced
           \/ \E d \in Seen(req.key) :
                 /\ request' = [request EXCEPT ![r] =
                       [pc |-> "answer", key |-> req.key, doc |-> d]]
                 /\ UNCHANGED raced
    /\ UNCHANGED <<indexed, client, job, stored, requeue, hour, faults, orphaned, retention>>

\* saveBuffer, and the row in files.
StoresDocument(r) ==
    /\ request[r].pc = "store"
    /\ \E d \in Fresh, where \in Stores :
          /\ stored' = [stored EXCEPT ![d] = where]
          /\ request' = [request EXCEPT ![r] =
                [pc |-> "insert", key |-> request[r].key, doc |-> d]]
    /\ UNCHANGED <<indexed, client, job, requeue, hour, faults, orphaned, raced, retention>>

\* Mutant: the index is not unique.
TakenNever(key) == FALSE

\* print_jobs_user_idem_uniq: one row for each user and key. The SQLite migrations create
\* it, those for Postgres do not.
Taken(key) == indexed /\ Keyed(key) # {}

\* A refused insert is a 500, and leaves the document where it was stored.
InsertsJob(r) ==
    /\ request[r].pc = "insert"
    /\ LET req == request[r]
       IN  IF Taken(req.key)
           THEN /\ Told(r, "halted")
                /\ request' = [request EXCEPT ![r] = Idle]
                /\ stored' = [stored EXCEPT ![req.doc] = None]
                /\ orphaned' = TRUE
                /\ UNCHANGED job
           ELSE /\ job' = [job EXCEPT ![req.doc] =
                              [status |-> "pending", key |-> req.key, age |-> 0]]
                /\ request' = [request EXCEPT ![r].pc = "answer"]
                /\ UNCHANGED <<client, stored, orphaned>>
    /\ UNCHANGED <<indexed, requeue, hour, faults, raced, retention>>

\* The release code, and a checkout link while the job is unpaid.
Answers(r) ==
    /\ request[r].pc = "answer"
    /\ Told(r, "accepted")
    /\ request' = [request EXCEPT ![r] = Idle]
    /\ UNCHANGED <<indexed, job, stored, requeue, hour, faults, orphaned, raced, retention>>

\* The server dies: the scripts that wait see the connection break, and end with exit 4.
Crash ==
    /\ faults < MaxFaults
    /\ faults' = faults + 1
    /\ request' = [r \in Requests |-> Idle]
    /\ client' = [c \in Clients |-> IF client[c] \in Requests THEN "halted" ELSE client[c]]
    /\ stored' = [d \in Docs |-> IF d \in BeingStored THEN None ELSE stored[d]]
    /\ orphaned' = (orphaned \/ BeingStored # {})
    /\ sweep' = [pc |-> "idle", docs |-> {}]
    /\ requeue' = None
    /\ UNCHANGED <<indexed, job, cleanup, hour, retired, raced>>

(***************************************************************************)
(* The job's later life                                                    *)
(***************************************************************************)

SetStatus(d, status) == job' = [job EXCEPT ![d].status = status, ![d].age = 0]

\* Payment and rendering, or the agent's claim.
Advances(d) ==
    /\ \/ In(d, {"pending"}) /\ SetStatus(d, "ready")
       \/ In(d, {"ready"}) /\ stored[d] # None /\ SetStatus(d, "printing")
    /\ UNCHANGED <<intake, stored, requeue, retention>>

\* POST /agent/jobs/:id/complete and /failed, and a release whose document is gone.
Ends(d) ==
    /\ \/ In(d, {"printing"}) /\ \E status \in Terminal : SetStatus(d, status)
       \/ In(d, {"ready"}) /\ stored[d] = None /\ SetStatus(d, "failed")
    /\ UNCHANGED <<intake, stored, requeue, retention>>

\* completePrintJob, which only the cloud-push release calls, queues the clean-up.
CompletePrintJob(d) ==
    /\ In(d, {"ready"})
    /\ stored[d] # None
    /\ SetStatus(d, "done")
    /\ cleanup' = cleanup \cup {d}
    /\ UNCHANGED <<intake, stored, sweep, requeue, retired>>

RequeueReads(d) ==
    /\ requeue = None
    /\ In(d, {"failed"})
    /\ requeue' = d
    /\ UNCHANGED <<intake, job, stored, retention>>

RequeueSaves ==
    /\ requeue # None
    /\ SetStatus(requeue, "ready")
    /\ requeue' = None
    /\ UNCHANGED <<intake, stored, retention>>

(***************************************************************************)
(* Retention                                                               *)
(***************************************************************************)

\* Mutant: the cut-off is not applied.
ExpiredAtOnce(d) == In(d, Terminal)

\* Mutant: only a job that is done is swept.
ExpiredDone(d) == In(d, {"done"}) /\ job[d].age = Retention

Expired(d) == In(d, Terminal) /\ job[d].age = Retention

SweepFinds ==
    /\ sweep.pc = "idle"
    /\ sweep' = [pc |-> "unlink", docs |-> {d \in Docs : Expired(d)}]
    /\ UNCHANGED <<intake, job, stored, requeue, cleanup, retired>>

\* Only a URL of /api/files names a file of the server's disk.
Unlinked(d) == d \in sweep.docs /\ stored[d] = "disk"

SweepUnlinks ==
    /\ sweep.pc = "unlink"
    /\ stored' = [d \in Docs |-> IF Unlinked(d) THEN None ELSE stored[d]]
    /\ sweep' = [pc |-> "idle", docs |-> {}]
    /\ UNCHANGED <<intake, job, requeue, cleanup, retired>>

\* The worker looks the job up again, and finds a public id in a URL of Cloudinary alone.
Destroyed(d) == In(d, {"done"}) /\ stored[d] = "cloudinary"

CleanupRuns(d) ==
    /\ d \in cleanup
    /\ job[d].age = Retention
    /\ cleanup' = cleanup \ {d}
    /\ stored' = IF Destroyed(d) THEN [stored EXCEPT ![d] = None] ELSE stored
    /\ UNCHANGED <<intake, job, requeue, sweep, retired>>

(***************************************************************************)
(* The system                                                              *)
(***************************************************************************)

\* Mutant: an age that is never capped.
AgedForever(row) == [row EXCEPT !.age = @ + 1]

\* updatedAt is an hour older.
Aged(row) == IF row.age < Retention THEN [row EXCEPT !.age = @ + 1] ELSE row

\* An hour turns.
Tick ==
    /\ hour' = IF hour < MaxHour THEN hour + 1 ELSE hour
    /\ job' = [d \in Docs |-> IF HasJob(d) THEN Aged(job[d]) ELSE NoJob]
    /\ retired' = retired \cup {d \in Docs : In(d, Terminal) /\ job[d].age = Retention - 1}
    /\ UNCHANGED <<indexed, client, request, faults, orphaned, raced, stored, requeue, cleanup,
                   sweep>>

Next ==
    \/ \E c \in Clients, r \in Requests : Submits(c, r)
    \/ \E c \in Clients : TimesOut(c) \/ Resumes(c)
    \/ \E r \in Requests :
          Refuses(r) \/ LooksUp(r) \/ StoresDocument(r) \/ InsertsJob(r) \/ Answers(r)
    \/ \E d \in Docs :
          Advances(d) \/ Ends(d) \/ CompletePrintJob(d) \/ RequeueReads(d) \/ CleanupRuns(d)
    \/ RequeueSaves
    \/ SweepFinds \/ SweepUnlinks
    \/ Crash
    \/ Tick

Spec == Init /\ [][Next]_vars

\* A queue that is not stopped runs its script, the server serves what it has accepted,
\* BullMQ and the sweep's timer run, and time passes. Nobody need enable a stopped queue.
Fairness ==
    /\ \A c \in Clients : SF_vars(\E r \in Requests : Submits(c, r))
    /\ \A r \in Requests :
          WF_vars(LooksUp(r) \/ StoresDocument(r) \/ InsertsJob(r) \/ Answers(r))
    /\ WF_vars(SweepFinds \/ SweepUnlinks)
    /\ \A d \in Docs : WF_vars(CleanupRuns(d))
    /\ WF_vars(Tick)

FairSpec == Spec /\ Fairness

(***************************************************************************)
(* Properties                                                              *)
(***************************************************************************)

\* Where the unique index exists there is one print job to pay for, however often a job is
\* submitted within the hour, and however the submissions overlap.
OneJobPerKey ==
    indexed => \A c, d \in Docs : HasJob(c) /\ HasJob(d) /\ job[c].key = job[d].key => c = d

\* On any database a second job for a key takes two submissions that overlap: one looked the
\* key up before the other, which the script had given up, had inserted its job. However
\* often a job comes again after that, it finds the first one.
TwiceOnlyByRace ==
    \A c, d \in Docs : HasJob(c) /\ HasJob(d) /\ job[c].key = job[d].key
                        => c = d \/ job[c].key \in raced

\* A job has its document until it has once been done or failed for the retention time.
KeepsDocument == \A d \in Docs : HasJob(d) /\ d \notin retired => stored[d] # None

\* The bytes of a job that stays done or failed go from the server's disk.
DocumentGoes ==
    \A d \in Docs : (In(d, Terminal) /\ stored[d] = "disk")
        ~> (stored[d] = None \/ ~In(d, Terminal))

(***************************************************************************)
(* What comments say and the code does not do                              *)
(***************************************************************************)

\* printJob.entity.ts:51-52: a user has one active job for an idempotency key. The index behind it
\* is not in the Postgres migrations, and there a submission that curl gave up and its
\* successor make two.
OneJobOnAnyDatabase ==
    \A c, d \in Docs : HasJob(c) /\ HasJob(d) /\ job[c].key = job[d].key => c = d

\* tools/cups-printloop/printloop:122-123: CUPS retries the whole backend with exit code 4,
\* and so a submission is answered in the end. Exit 4 stops the queue, until somebody enables
\* it again.
SubmissionSettles == \A c \in Clients : <>(client[c] \in {"accepted", "refused"})

\* retention.ts:21-23: a READY job keeps its file whatever its age. Not one that was
\* requeued after it had been FAILED for the retention time, or while the sweep ran.
ReadyKeepsDocument == \A d \in Docs : In(d, {"ready"}) => stored[d] # None

\* printJob.entity.ts:215-221: a resubmission returns the existing job. After the turn of
\* the hour it has another key, and the customer a second job.
OneJobPerSubmission ==
    \A c, d \in Docs : HasJob(c) /\ HasJob(d) /\ job[c].key[1] = job[d].key[1] => c = d

\* retention.ts:14-16: the sweep is there so that no file stays for ever. The document of
\* an insert that lost the race has no job, and the sweep never looks at it.
NoOrphans == ~orphaned

\* fileCleanup.worker.ts:25-29: 24 hours after its job completes a document is deleted.
\* Not one in S3, nor one of Cloudinary whose job an agent completed.
DoneDocumentGoes == \A d \in Docs : In(d, {"done"}) ~> stored[d] = None
================================================================================
