------------------------------ MODULE GroupSession ------------------------------
(***************************************************************************)
(* A group session: participants join by the shared link, upload and pay;  *)
(* the host or the scheduled job closes it, which mints the batch code the *)
(* host enters at a kiosk.  Joining, uploading and closing each read the   *)
(* session, await, and write.  Names that Intake has too are different     *)
(* here, so that the proofs about both fit into one module.                *)
(***************************************************************************)
EXTENDS Naturals, FiniteSets

CONSTANTS
    People,     \* those who join, each with an e-mail address of their own
    Rows,       \* bound: group_participants rows
    Jobs,       \* bound: print jobs of the session, each with its file
    Calls,      \* requests of participants that may overlap
    Closers,    \* requests of the host that may overlap, and the scheduled job
    Scheduler,  \* the member of Closers that is the scheduled job
    MaxCrashes  \* bound: crashes of the server

ASSUME GroupConstantsOK == Scheduler \in Closers /\ MaxCrashes \in Nat

VARIABLES
    session,   \* the group_sessions row
    row,       \* the group_participants rows
    printJob,  \* the print_jobs rows of the session
    request,   \* requests of participants under way
    closer,    \* calls of closeSession
    told,      \* the batch codes the host was shown
    printed,   \* external: the files a batch release sent to the printer
    crashes,
    raced      \* history: two calls of closeSession had both read the session open

groupVars == <<session, row, printJob, request, closer, told, printed, crashes, raced>>

None == "none"
NoRow == [person |-> None]

\* A code is named by the call that made it. Of the status of a participant INVITED and
\* CANCELLED are never set, nor, as nothing calls markParticipantPaid, is PAID.
Session == [open: BOOLEAN, late: BOOLEAN, code: Closers \cup {None}]
Row == [person: People, status: {"joined", "uploaded", "paid"}, job: Jobs \cup {None}]
PrintJob == {"none", "pending", "paid"}

NoRequest == [pc |-> "idle"]
Request == {NoRequest} \cup [pc: {"join"}, person: People]
               \cup [pc: {"upload"}, of: Rows]
               \cup [pc: {"link", "save"}, of: Rows, job: Jobs]

GroupTypeOK ==
    /\ session \in Session
    /\ row \in [Rows -> Row \cup {NoRow}]
    /\ printJob \in [Jobs -> PrintJob]
    /\ request \in [Calls -> Request]
    /\ closer \in [Closers -> {"idle", "save", "done"}]
    /\ told \subseteq Closers
    /\ printed \subseteq Jobs
    /\ crashes \in 0..MaxCrashes
    /\ raced \in BOOLEAN

GroupInit ==
    /\ session = [open |-> TRUE, late |-> FALSE, code |-> None]
    /\ row = [p \in Rows |-> NoRow]
    /\ printJob = [j \in Jobs |-> "none"]
    /\ request = [c \in Calls |-> NoRequest]
    /\ closer = [x \in Closers |-> "idle"]
    /\ told = {} /\ printed = {} /\ crashes = 0
    /\ raced = FALSE

RowsOf(person) == {p \in Rows : row[p].person = person}
Admits == session.open /\ ~session.late

(***************************************************************************)
(* joinSession                                                             *)
(***************************************************************************)

\* Someone who has joined before gets the row and its token back: nothing changes. Two
\* joins that overlap may both find none, and leave the person two rows.
JoinReads(c, person) ==
    /\ request[c] = NoRequest
    /\ Admits
    /\ RowsOf(person) = {}
    /\ request' = [request EXCEPT ![c] = [pc |-> "join", person |-> person]]
    /\ UNCHANGED <<session, row, printJob, closer, told, printed, crashes, raced>>

JoinInserts(c) ==
    /\ request[c].pc = "join"
    /\ \E p \in Rows :
          /\ row[p] = NoRow
          /\ row' = [row EXCEPT ![p] =
                [person |-> request[c].person, status |-> "joined", job |-> None]]
    /\ request' = [request EXCEPT ![c] = NoRequest]
    /\ UNCHANGED <<session, printJob, closer, told, printed, crashes, raced>>

(***************************************************************************)
(* POST /participants/upload                                               *)
(***************************************************************************)

UploadChecks(c, p) ==
    /\ request[c] = NoRequest
    /\ row[p] # NoRow
    /\ Admits
    /\ request' = [request EXCEPT ![c] = [pc |-> "upload", of |-> p]]
    /\ UNCHANGED <<session, row, printJob, closer, told, printed, crashes, raced>>

\* The document is counted, priced and stored; then its file and its job are inserted.
UploadInserts(c) ==
    /\ request[c].pc = "upload"
    /\ \E j \in Jobs :
          /\ printJob[j] = "none"
          /\ printJob' = [printJob EXCEPT ![j] = "pending"]
          /\ request' = [request EXCEPT ![c] = [pc |-> "link", of |-> request[c].of, job |-> j]]
    /\ UNCHANGED <<session, row, closer, told, printed, crashes, raced>>

\* Mutant: linkFileToParticipant does not look at the session again.
LinkableAlways == TRUE

\* The deadline is not looked at again.
Linkable == session.open

\* linkFileToParticipant reads the session again: once it is closed the answer is a 500,
\* and the job stays, linked to nobody.
LinkReads(c) ==
    /\ request[c].pc = "link"
    /\ request' = [request EXCEPT ![c] = IF Linkable THEN [@ EXCEPT !.pc = "save"] ELSE NoRequest]
    /\ UNCHANGED <<session, row, printJob, closer, told, printed, crashes, raced>>

\* A second upload takes the place of the first, paid or not.
LinkSaves(c) ==
    /\ request[c].pc = "save"
    /\ row' = [row EXCEPT ![request[c].of].job = request[c].job,
                          ![request[c].of].status = "uploaded"]
    /\ request' = [request EXCEPT ![c] = NoRequest]
    /\ UNCHANGED <<session, printJob, closer, told, printed, crashes, raced>>

\* completePrintJobPayment: the job is paid, whatever the session's state. No participant
\* is marked.
JobPaid(j) ==
    /\ printJob[j] = "pending"
    /\ printJob' = [printJob EXCEPT ![j] = "paid"]
    /\ UNCHANGED <<session, row, request, closer, told, printed, crashes, raced>>

(***************************************************************************)
(* closeSession                                                            *)
(***************************************************************************)

\* Mutant: the scheduled job looks at the sessions that are still running.
DueEarly == session.open /\ ~session.late

\* autoCloseExpiredSessions finds the open sessions past their deadline.
Due == session.open /\ session.late

\* Mutant: a session that is closed already may be closed again.
CloseableAgain == TRUE

Closeable == session.open

\* A call that finds it closed throws: 400 for the host, logged for the scheduled job.
CloseReads(x) ==
    /\ closer[x] = "idle"
    /\ x = Scheduler => Due
    /\ Closeable
    /\ closer' = [closer EXCEPT ![x] = "save"]
    /\ raced' = (raced \/ \E y \in Closers : closer[y] = "save")
    /\ UNCHANGED <<session, row, printJob, request, told, printed, crashes>>

\* The host is shown the code of the answer; the scheduled job shows it to nobody.
CloseSaves(x) ==
    /\ closer[x] = "save"
    /\ session' = [session EXCEPT !.open = FALSE, !.code = x]
    /\ told' = IF x = Scheduler THEN told ELSE told \cup {x}
    /\ closer' = [closer EXCEPT ![x] = "done"]
    /\ UNCHANGED <<row, printJob, request, printed, crashes, raced>>

\* GET /group-sessions/:id shows the host the session's code.
HostLooks ==
    /\ session.code # None
    /\ told' = told \cup {session.code}
    /\ UNCHANGED <<session, row, printJob, request, closer, printed, crashes, raced>>

DeadlinePasses ==
    /\ ~session.late
    /\ session' = [session EXCEPT !.late = TRUE]
    /\ UNCHANGED <<row, printJob, request, closer, told, printed, crashes, raced>>

(***************************************************************************)
(* POST /printer/complete-batch                                            *)
(***************************************************************************)

\* getBatchPrintData: the jobs of the participants who are PAID.
BatchJobs == {row[p].job : p \in {q \in Rows : row[q] # NoRow /\ row[q].status = "paid"}} \ {None}

\* Each file is dispatched in turn; one that fails is skipped.
CompleteBatch(code) ==
    /\ code \in told
    /\ ~session.open /\ session.code = code
    /\ \E out \in SUBSET BatchJobs : printed' = printed \cup out
    /\ UNCHANGED <<session, row, printJob, request, closer, told, crashes, raced>>

Crash ==
    /\ crashes < MaxCrashes
    /\ crashes' = crashes + 1
    /\ request' = [c \in Calls |-> NoRequest]
    /\ closer' = [x \in Closers |-> IF closer[x] = "save" THEN "idle" ELSE closer[x]]
    /\ UNCHANGED <<session, row, printJob, told, printed, raced>>

(***************************************************************************)
(* The system                                                              *)
(***************************************************************************)

GroupNext ==
    \/ \E c \in Calls, person \in People : JoinReads(c, person)
    \/ \E c \in Calls, p \in Rows : UploadChecks(c, p)
    \/ \E c \in Calls : JoinInserts(c) \/ UploadInserts(c) \/ LinkReads(c) \/ LinkSaves(c)
    \/ \E j \in Jobs : JobPaid(j)
    \/ \E x \in Closers : CloseReads(x) \/ CloseSaves(x) \/ CompleteBatch(x)
    \/ HostLooks
    \/ DeadlinePasses
    \/ Crash

GroupSpec == GroupInit /\ [][GroupNext]_groupVars

\* BullMQ repeats the job that closes expired sessions; time passes.
GroupFairness ==
    /\ WF_groupVars(CloseReads(Scheduler) \/ CloseSaves(Scheduler))
    /\ WF_groupVars(DeadlinePasses)

GroupFairSpec == GroupSpec /\ GroupFairness

(***************************************************************************)
(* Properties                                                              *)
(***************************************************************************)

\* A code the host was shown opens the session's batch. Only closes that overlap, of the
\* host and the scheduled job or of two of the host's, can void one.
CodeKept == \A code \in told : session.code = code \/ raced

\* Closed, and no call is between its last look at the session and its write.
Settled == ~session.open /\ \A c \in Calls : request[c].pc \notin {"join", "save"}

\* What a closed session's batch holds is settled: a join or an upload that was at work
\* when the session closed changes nothing any more, however late it ends.
ClosedStaysSettled == [][Settled => Settled' /\ row' = row]_groupVars

\* A session whose host never comes back is closed after its deadline.
ExpiredCloses == <>(~session.open)

(***************************************************************************)
(* What comments say and the code does not do                              *)
(***************************************************************************)

\* printer.routes.ts:477: one batch code, every paid participant's file. No participant is
\* ever PAID, and a batch release prints nothing.
BatchPrintsThePaid ==
    ~session.open =>
        {j \in Jobs : printJob[j] = "paid" /\ \E p \in Rows : row[p] # NoRow /\ row[p].job = j}
            \subseteq BatchJobs
================================================================================
