------------------------------ MODULE KioskFleet ------------------------------
(***************************************************************************)
(* The status of a shop's kiosks: the heartbeat every authenticated kiosk  *)
(* request leaves, the sweep that marks silent kiosks OFFLINE and mails    *)
(* the owner, and the edits operators make.  The heartbeat and the edits   *)
(* read a row and save all of it later; the sweep and the removal are      *)
(* single UPDATEs.                                                         *)
(***************************************************************************)
EXTENDS Naturals, FiniteSets

CONSTANTS
    Kiosks,
    Beats,         \* authenticated kiosk requests that may overlap
    Editors,       \* operator requests that may overlap
    Alerts,        \* runs of notifyOfflineKiosks that may overlap
    OfflineAfter,  \* ticks of the sweep's period without a request: 15 minutes
    Cooldown,      \* ticks between two mails about one kiosk: 30 minutes
    MaxEdits,      \* bound: operator requests in all
    MaxKeys,       \* bound: rotations of a kiosk's key
    MaxCrashes     \* bound: crashes of the server

ASSUME ConstantsOK ==
    /\ {OfflineAfter, Cooldown} \subseteq Nat \ {0}
    /\ {MaxEdits, MaxKeys, MaxCrashes} \subseteq Nat
    /\ Beats \cap Editors = {}

VARIABLES
    kiosk,     \* the kiosks rows
    paired,    \* the key each kiosk computer holds
    pending,   \* saves under way: the handler has read the row and changed its copy
    sweep,     \* the mark-offline-kiosks job
    alert,     \* runs of notifyOfflineKiosks
    mailed,    \* external: ticks since the last mail about each kiosk
    edits, crashes,
    spammed,   \* history: kiosks mailed about twice within the cool-down
    excused    \* history: kiosks whose stamp a stale save or a crash lost, or two alerts at once

vars == <<kiosk, paired, pending, sweep, alert, mailed, edits, crashes, spammed, excused>>

\* lastSeenAt and lastOfflineAlertAt as ages in ticks, up to the age that matters.
\* Never: lastSeenAt is null.
Stale == OfflineAfter
Never == OfflineAfter + 1

Status == {"active", "offline", "maintenance", "disabled"}

\* campus decides what the sweep's SQL says of the row: null, a campus, a demo campus.
Row == [status: Status, campus: {"null", "named", "demo"}, seen: 0..Never,
        key: 0..MaxKeys, alerted: 0..Cooldown, tested: BOOLEAN]

Handlers == Beats \cup Editors
Idle == [kind |-> "idle"]
Save == [kind: {"beat", "status", "key", "test"}, kiosk: Kiosks, row: Row]

TypeOK ==
    /\ kiosk \in [Kiosks -> Row]
    /\ paired \in [Kiosks -> 0..MaxKeys]
    /\ pending \in [Handlers -> Save \cup {Idle}]
    /\ sweep \in [pc: {"idle", "find", "mark"}, ids: SUBSET Kiosks]
    /\ alert \in [Alerts -> [pc: {"idle", "read", "mail", "stamp"}, ids: SUBSET Kiosks]]
    /\ mailed \in [Kiosks -> 0..Cooldown]
    /\ edits \in 0..MaxEdits /\ crashes \in 0..MaxCrashes
    /\ spammed \subseteq Kiosks /\ excused \subseteq Kiosks

NoAlert == [pc |-> "idle", ids |-> {}]

\* As createKiosk leaves them: ACTIVE, never seen.
Init ==
    /\ kiosk \in [Kiosks -> [status: {"active"}, campus: {"null", "named", "demo"},
                             seen: {Never}, key: {0}, alerted: {Cooldown}, tested: {FALSE}]]
    /\ paired = [k \in Kiosks |-> 0]
    /\ pending = [h \in Handlers |-> Idle]
    /\ sweep = [pc |-> "idle", ids |-> {}]
    /\ alert = [a \in Alerts |-> NoAlert]
    /\ mailed = [k \in Kiosks |-> Cooldown]
    /\ edits = 0 /\ crashes = 0
    /\ spammed = {} /\ excused = {}

(***************************************************************************)
(* kioskAuth: every request a kiosk makes                                  *)
(***************************************************************************)

\* Found by its key, and neither DISABLED nor in MAINTENANCE.
Admitted(k) ==
    /\ paired[k] = kiosk[k].key
    /\ kiosk[k].status \notin {"disabled", "maintenance"}

BeatReads(h, k) ==
    /\ pending[h] = Idle
    /\ Admitted(k)
    /\ pending' = [pending EXCEPT ![h] =
          [kind |-> "beat", kiosk |-> k, row |-> [kiosk[k] EXCEPT !.seen = 0]]]
    /\ UNCHANGED <<kiosk, paired, sweep, alert, mailed, edits, crashes, spammed, excused>>

\* repository.save of a heartbeat or an edit: the row as it was read, with the change.
\* A request that rotated the key discloses it, and the kiosk is paired with it.
Saves(h) ==
    /\ pending[h] # Idle
    /\ LET k == pending[h].kiosk
           row == pending[h].row
       IN  /\ kiosk' = [kiosk EXCEPT ![k] = row]
           /\ paired' = IF pending[h].kind = "key" THEN [paired EXCEPT ![k] = row.key] ELSE paired
           /\ excused' = IF row.alerted > kiosk[k].alerted THEN excused \cup {k} ELSE excused
    /\ pending' = [pending EXCEPT ![h] = Idle]
    /\ UNCHANGED <<sweep, alert, mailed, edits, crashes, spammed>>

(***************************************************************************)
(* What operators do                                                       *)
(***************************************************************************)

Edits(h, k, kind, row) ==
    /\ pending[h] = Idle
    /\ edits < MaxEdits
    /\ edits' = edits + 1
    /\ pending' = [pending EXCEPT ![h] = [kind |-> kind, kiosk |-> k, row |-> row]]
    /\ UNCHANGED <<kiosk, paired, sweep, alert, mailed, crashes, spammed, excused>>

UpdateStatus(h, k, status) == Edits(h, k, "status", [kiosk[k] EXCEPT !.status = status])

RegenerateKey(h, k) ==
    /\ kiosk[k].key < MaxKeys
    /\ Edits(h, k, "key", [kiosk[k] EXCEPT !.key = @ + 1])

TestPrintPass(h, k) == Edits(h, k, "test", [kiosk[k] EXCEPT !.tested = TRUE])

\* UPDATE ... SET status = DISABLED.
DeleteKiosk(k) ==
    /\ edits < MaxEdits
    /\ edits' = edits + 1
    /\ kiosk' = [kiosk EXCEPT ![k].status = "disabled"]
    /\ UNCHANGED <<paired, pending, sweep, alert, mailed, crashes, spammed, excused>>

(***************************************************************************)
(* markOfflineKiosks, every five minutes                                   *)
(***************************************************************************)

\* Mutant: the UPDATE that keeps demo kiosks up forgets which status it is for.
RevivedAny(k) == kiosk[k].campus = "demo"

Revived(k) == kiosk[k].campus = "demo" /\ kiosk[k].status = "offline"

SweepRevives ==
    /\ sweep.pc = "idle"
    /\ kiosk' = [k \in Kiosks |->
          IF Revived(k) THEN [kiosk[k] EXCEPT !.status = "active"] ELSE kiosk[k]]
    /\ sweep' = [sweep EXCEPT !.pc = "find"]
    /\ UNCHANGED <<paired, pending, alert, mailed, edits, crashes, spammed, excused>>

Silent(k) == kiosk[k].seen >= Stale

\* The ids for the alert. Neither campus nor name is selected, so their tests pass.
SweepFinds ==
    /\ sweep.pc = "find"
    /\ sweep' = [pc |-> "mark", ids |-> {k \in Kiosks : kiosk[k].status = "active" /\ Silent(k)}]
    /\ UNCHANGED <<kiosk, paired, pending, alert, mailed, edits, crashes, spammed, excused>>

\* Mutant: lastSeenAt < cutoff alone, which SQL does not find true of a null.
MarkedIfSeen(k) ==
    kiosk[k].status = "active" /\ kiosk[k].seen = Stale /\ kiosk[k].campus = "named"

\* Of a null campus, campus NOT IN (...) is unknown: the UPDATE passes the row over.
Marked(k) == kiosk[k].status = "active" /\ Silent(k) /\ kiosk[k].campus = "named"

\* The UPDATE, and the alert started and not waited for.
SweepMarks(a) ==
    /\ sweep.pc = "mark"
    /\ alert[a].pc = "idle"
    /\ kiosk' = [k \in Kiosks |->
          IF Marked(k) THEN [kiosk[k] EXCEPT !.status = "offline"] ELSE kiosk[k]]
    /\ alert' = IF sweep.ids = {} THEN alert
                ELSE [alert EXCEPT ![a] = [pc |-> "read", ids |-> sweep.ids]]
    /\ sweep' = [pc |-> "idle", ids |-> {}]
    /\ UNCHANGED <<paired, pending, mailed, edits, crashes, spammed, excused>>

(***************************************************************************)
(* notifyOfflineKiosks                                                     *)
(***************************************************************************)

\* Mutant: the cool-down is not looked at.
AlertableAnyway(k) == kiosk[k].status = "offline"

Alertable(k) == kiosk[k].status = "offline" /\ kiosk[k].alerted = Cooldown

BeingMailed(a) ==
    UNION {alert[b].ids : b \in {c \in Alerts \ {a} : alert[c].pc \in {"mail", "stamp"}}}

AlertReads(a) ==
    /\ alert[a].pc = "read"
    /\ LET ids == {k \in alert[a].ids : Alertable(k)}
       IN  /\ alert' = [alert EXCEPT ![a] = IF ids = {} THEN NoAlert
                                            ELSE [pc |-> "mail", ids |-> ids]]
           /\ excused' = excused \cup (ids \cap BeingMailed(a))
    /\ UNCHANGED <<kiosk, paired, pending, sweep, mailed, edits, crashes, spammed>>

\* One mail to the owner with all of them.
AlertMails(a) ==
    /\ alert[a].pc = "mail"
    /\ spammed' = spammed \cup {k \in alert[a].ids : mailed[k] < Cooldown}
    /\ mailed' = [k \in Kiosks |-> IF k \in alert[a].ids THEN 0 ELSE mailed[k]]
    /\ alert' = [alert EXCEPT ![a].pc = "stamp"]
    /\ UNCHANGED <<kiosk, paired, pending, sweep, edits, crashes, excused>>

AlertStamps(a) ==
    /\ alert[a].pc = "stamp"
    /\ kiosk' = [k \in Kiosks |->
          IF k \in alert[a].ids THEN [kiosk[k] EXCEPT !.alerted = 0] ELSE kiosk[k]]
    /\ alert' = [alert EXCEPT ![a] = NoAlert]
    /\ UNCHANGED <<paired, pending, sweep, mailed, edits, crashes, spammed, excused>>

\* The server dies: requests, the sweep and its alerts are gone.
Crash ==
    /\ crashes < MaxCrashes
    /\ crashes' = crashes + 1
    /\ pending' = [h \in Handlers |-> Idle]
    /\ sweep' = [pc |-> "idle", ids |-> {}]
    /\ alert' = [a \in Alerts |-> NoAlert]
    /\ excused' = excused \cup UNION {alert[a].ids : a \in {b \in Alerts : alert[b].pc = "stamp"}}
    /\ UNCHANGED <<kiosk, paired, mailed, edits, spammed>>

(***************************************************************************)
(* The system                                                              *)
(***************************************************************************)

\* Mutant: an age that is never capped.
AgedForever(row) == [row EXCEPT !.seen = @ + 1, !.alerted = @ + 1]

Aged(row) ==
    [row EXCEPT !.seen = IF @ < Stale THEN @ + 1 ELSE @,
                !.alerted = IF @ < Cooldown THEN @ + 1 ELSE @]

\* One period of the sweep passes. Requests and the sweep's statements take far less and
\* have ended; the mails of an alert may take longer.
Tick ==
    /\ sweep.pc = "idle"
    /\ \A h \in Handlers : pending[h] = Idle
    /\ kiosk' = [k \in Kiosks |-> Aged(kiosk[k])]
    /\ mailed' = [k \in Kiosks |-> IF mailed[k] < Cooldown THEN mailed[k] + 1 ELSE Cooldown]
    /\ UNCHANGED <<paired, pending, sweep, alert, edits, crashes, spammed, excused>>

Next ==
    \/ \E h \in Beats, k \in Kiosks : BeatReads(h, k)
    \/ \E h \in Editors, k \in Kiosks :
          \/ \E status \in Status : UpdateStatus(h, k, status)
          \/ RegenerateKey(h, k) \/ TestPrintPass(h, k)
    \/ \E k \in Kiosks : DeleteKiosk(k)
    \/ \E h \in Handlers : Saves(h)
    \/ SweepRevives \/ SweepFinds
    \/ \E a \in Alerts : SweepMarks(a) \/ AlertReads(a) \/ AlertMails(a) \/ AlertStamps(a)
    \/ Crash
    \/ Tick

Spec == Init /\ [][Next]_vars

\* BullMQ repeats the sweep, time passes, and what has started goes on.
Fairness ==
    /\ WF_vars(SweepRevives \/ SweepFinds \/ \E a \in Alerts : SweepMarks(a))
    /\ \A a \in Alerts : WF_vars(AlertReads(a) \/ AlertMails(a) \/ AlertStamps(a))
    /\ \A h \in Handlers : WF_vars(Saves(h))

FairSpec == Spec /\ Fairness

(***************************************************************************)
(* Properties                                                              *)
(***************************************************************************)

Out(status) == status \in {"disabled", "maintenance"}

\* Out of service, and no request under way read the kiosk when it was in service.
Retired(k) ==
    /\ Out(kiosk[k].status)
    /\ \A h \in Handlers :
          pending[h] # Idle => pending[h].kiosk # k \/ Out(pending[h].row.status)

\* A kiosk that an operator took out of service stays out until an operator puts it back:
\* no heartbeat, sweep or other edit does. Only requests that overlap the removal itself
\* can undo it (RemovalSticks, below).
StaysOut ==
    [][\A k \in Kiosks : Retired(k) =>
          \/ Retired(k)'
          \/ \E h \in Editors, status \in {"active", "offline"} : UpdateStatus(h, k, status)]_vars

\* lastOfflineAlertAt keeps a kiosk that goes offline again and again from being mailed
\* about more than once per cool-down. Nothing defeats it but the loss of the stamp (a save
\* of a row read before it, a crash between the mail and the stamp) and an alert that is
\* still mailing when the next one starts.
OneMailPerCooldown == spammed \subseteq excused

\* The sweep catches every kiosk of a campus that falls silent, one that never called at
\* all included, whatever saves, edits and crashes it meets.
SilentGoesOffline ==
    \A k \in Kiosks :
        (kiosk[k].status = "active" /\ Silent(k) /\ kiosk[k].campus = "named")
            ~> ~(kiosk[k].status = "active" /\ Silent(k))

(***************************************************************************)
(* What comments say and the code does not do                              *)
(***************************************************************************)

\* scheduled.worker.ts:71: kiosks that have not sent a heartbeat recently are marked
\* OFFLINE. Those of POST /saas/kiosks have no campus, and are not.
EverySilentGoesOffline ==
    \A k \in Kiosks : (kiosk[k].status = "active" /\ Silent(k) /\ kiosk[k].campus # "demo")
        ~> ~(kiosk[k].status = "active" /\ Silent(k))

\* kioskAlert.service.ts:101-102: a kiosk that comes back online re-appears by itself.
\* Nothing sets an OFFLINE row of a campus back to ACTIVE.
ComesBack ==
    [][\A h \in Beats : Saves(h) => kiosk'[pending[h].kiosk].status # "offline"]_vars

\* kiosk.service.ts:252: a deleted kiosk is DISABLED. A heartbeat that overlaps puts it back.
RemovalSticks ==
    [][\A k \in Kiosks : kiosk[k].status = "disabled" /\ kiosk'[k].status # "disabled"
          => \E h \in Editors : pending[h] # Idle /\ pending[h].kind = "status"]_vars

\* saas.routes.ts:613-628: the key that the rotation discloses is the kiosk's key.
DisclosedKeyWorks ==
    \A k \in Kiosks : (\A h \in Handlers : pending[h] = Idle) => paired[k] = kiosk[k].key

\* admin-kiosk.routes.ts:42-43: the record that a test page came out is kept.
TestPrintKept == [][\A k \in Kiosks : kiosk[k].tested => kiosk'[k].tested]_vars
===============================================================================
