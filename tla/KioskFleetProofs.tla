---------------------------- MODULE KioskFleetProofs ----------------------------
(***************************************************************************)
(* Proofs about KioskFleet, for any kiosks, overlapping requests and       *)
(* alerts, periods, edits and crashes: what defeats the cool-down of the   *)
(* owners' mails, and what brings a kiosk back that was taken out.         *)
(***************************************************************************)
EXTENDS KioskFleet, TLAPS

(***************************************************************************)
(* The inductive invariant                                                 *)
(***************************************************************************)

\* An alert that has found k in need of a mail, and has not stamped it yet.
Holds(a, k) == alert[a].pc \in {"mail", "stamp"} /\ k \in alert[a].ids

\* Of a kiosk whose stamp nothing has lost: one alert at a time holds it, and one that will
\* mail holds it only when the last mail is the cool-down ago; since that mail it has been
\* stamped, or is about to be.
OneHolder(k) == \A a, b \in Alerts : Holds(a, k) /\ Holds(b, k) => a = b

MailDue(k) == \A a \in Alerts : alert[a].pc = "mail" /\ Holds(a, k) => mailed[k] = Cooldown

Stamped(k) ==
    mailed[k] < Cooldown =>
        \/ \E a \in Alerts : alert[a].pc = "stamp" /\ Holds(a, k)
        \/ kiosk[k].alerted <= mailed[k]

StampsKept ==
    \A k \in Kiosks : k \notin excused =>
        OneHolder(k) /\ MailDue(k) /\ Stamped(k) /\ k \notin spammed

IInv == TypeOK /\ StampsKept

LEMMA ConstantFacts ==
    /\ OfflineAfter \in Nat /\ Cooldown \in Nat /\ Cooldown > 0
    /\ MaxEdits \in Nat /\ MaxKeys \in Nat /\ MaxCrashes \in Nat
BY ConstantsOK

\* The rows, with a status of their own or another.
LEMMA RowFacts ==
    ASSUME TypeOK
    PROVE  \A k \in Kiosks :
              /\ kiosk[k] \in Row /\ kiosk[k].alerted \in Nat
              /\ kiosk[k].alerted <= kiosk[k].alerted /\ kiosk[k].alerted <= Cooldown
              /\ \A status \in Status :
                    /\ [kiosk[k] EXCEPT !.status = status] \in Row
                    /\ [kiosk[k] EXCEPT !.status = status].alerted = kiosk[k].alerted
<1> TAKE k \in Kiosks
<1>1. kiosk[k] \in Row
  BY DEF TypeOK
<1>2. kiosk[k].alerted \in 0..Cooldown
  BY <1>1 DEF Row
<1>3. kiosk[k].alerted \in Nat /\ kiosk[k].alerted <= Cooldown
  BY <1>2, ConstantFacts
<1> QED
  BY <1>1, <1>3 DEF Row

LEMMA InitIInv == Init => IInv
<1> SUFFICES ASSUME Init PROVE IInv
  OBVIOUS
<1>1. TypeOK
  <2>1. /\ 0 \in 0..MaxKeys /\ 0 \in 0..MaxEdits /\ 0 \in 0..MaxCrashes
        /\ Never \in 0..Never /\ Cooldown \in 0..Cooldown
    BY ConstantFacts DEF Never
  <2>2. kiosk \in [Kiosks -> Row]
    BY <2>1 DEF Init, Row, Status
  <2> QED
    BY <2>1, <2>2 DEF Init, TypeOK, NoAlert
<1>2. \A a \in Alerts : alert[a].pc = "idle"
  BY DEF Init, NoAlert
<1>3. \A k \in Kiosks : mailed[k] = Cooldown
  BY DEF Init
<1> QED
  BY <1>1, <1>2, <1>3, ConstantFacts DEF Init, IInv, StampsKept, OneHolder, MailDue, Stamped, Holds

LEMMA StutterStep ==
    ASSUME IInv, UNCHANGED vars
    PROVE  IInv'
BY DEF vars, IInv, TypeOK, StampsKept, OneHolder, MailDue, Stamped, Holds

(***************************************************************************)
(* Steps that leave the alerts alone                                       *)
(***************************************************************************)

\* No stamp of a kiosk without an excuse is made to look older.
LEMMA AlertsAlone ==
    ASSUME IInv, TypeOK', excused \subseteq excused', UNCHANGED <<mailed, spammed>>,
           \A a \in Alerts :
              \/ alert'[a] = alert[a]
              \/ alert[a].pc = "idle" /\ alert'[a].pc = "read",
           \A k \in Kiosks : k \in excused' \/ kiosk'[k].alerted <= kiosk[k].alerted
    PROVE  IInv'
<1>1. ASSUME NEW k \in Kiosks, k \notin excused'
      PROVE  (OneHolder(k) /\ MailDue(k) /\ Stamped(k) /\ k \notin spammed)'
  <2>1. OneHolder(k) /\ MailDue(k) /\ Stamped(k) /\ k \notin spammed
    BY <1>1 DEF IInv, StampsKept
  <2>2. \A a \in Alerts : (Holds(a, k)' <=> Holds(a, k)) /\ (Holds(a, k) => alert'[a] = alert[a])
    BY DEF Holds
  <2>3. kiosk'[k].alerted <= kiosk[k].alerted /\ mailed'[k] = mailed[k]
    BY <1>1
  <2>4. kiosk'[k].alerted \in Nat /\ kiosk[k].alerted \in Nat /\ mailed[k] \in Nat
    BY ConstantFacts DEF IInv, TypeOK, Row
  <2>5. OneHolder(k)' /\ MailDue(k)'
    BY <2>1, <2>2, <2>3 DEF OneHolder, MailDue, Holds
  <2>6. Stamped(k)'
    BY <2>1, <2>2, <2>3, <2>4, ConstantFacts DEF Stamped, Holds
  <2> QED
    BY <2>1, <2>5, <2>6
<1> QED
  BY <1>1 DEF IInv, StampsKept

LEMMA AlertsUntouched ==
    ASSUME IInv, TypeOK', excused \subseteq excused', UNCHANGED <<alert, mailed, spammed>>,
           \A k \in Kiosks : k \in excused' \/ kiosk'[k].alerted <= kiosk[k].alerted
    PROVE  IInv'
<1>1. \A a \in Alerts : alert'[a] = alert[a]
  OBVIOUS
<1> QED
  BY <1>1, AlertsAlone

\* A handler reads a row and will save it with a change.
LEMMA PendingStep ==
    ASSUME IInv, NEW h \in Handlers, NEW save \in Save,
           pending' = [pending EXCEPT ![h] = save], edits' \in 0..MaxEdits,
           UNCHANGED <<kiosk, paired, sweep, alert, mailed, crashes, spammed, excused>>
    PROVE  IInv'
<1>1. TypeOK'
  BY DEF IInv, TypeOK
<1>2. \A k \in Kiosks : kiosk'[k].alerted <= kiosk[k].alerted
  BY RowFacts DEF IInv
<1> QED
  BY <1>1, <1>2, AlertsUntouched

LEMMA BeatReadsStep ==
    ASSUME IInv, NEW h \in Beats, NEW k \in Kiosks, BeatReads(h, k)
    PROVE  IInv'
<1> DEFINE save == [kind |-> "beat", kiosk |-> k, row |-> [kiosk[k] EXCEPT !.seen = 0]]
<1>1. save \in Save
  BY ConstantFacts DEF IInv, TypeOK, Save, Row, Never
<1> QED
  BY <1>1, PendingStep DEF BeatReads, Handlers, IInv, TypeOK

LEMMA EditsStep ==
    ASSUME IInv, NEW h \in Editors, NEW k \in Kiosks, NEW kind \in {"status", "key", "test"},
           NEW row \in Row, Edits(h, k, kind, row)
    PROVE  IInv'
<1>1. [kind |-> kind, kiosk |-> k, row |-> row] \in Save
  BY DEF Save
<1>2. edits' \in 0..MaxEdits
  BY ConstantFacts DEF Edits, IInv, TypeOK
<1> QED
  BY <1>1, <1>2, PendingStep DEF Edits, Handlers

LEMMA EditorStep ==
    ASSUME IInv, NEW h \in Editors, NEW k \in Kiosks,
           \/ \E status \in Status : UpdateStatus(h, k, status)
           \/ RegenerateKey(h, k) \/ TestPrintPass(h, k)
    PROVE  IInv'
<1>1. kiosk[k] \in Row
  BY DEF IInv, TypeOK
<1>2. ASSUME NEW status \in Status, UpdateStatus(h, k, status)
      PROVE  IInv'
  <2>1. [kiosk[k] EXCEPT !.status = status] \in Row
    BY <1>1 DEF Row
  <2> QED
    BY <1>2, <2>1, EditsStep DEF UpdateStatus
<1>3. CASE RegenerateKey(h, k)
  <2>1. [kiosk[k] EXCEPT !.key = @ + 1] \in Row
    BY <1>1, <1>3, ConstantFacts DEF RegenerateKey, Row
  <2> QED
    BY <1>3, <2>1, EditsStep DEF RegenerateKey
<1>4. CASE TestPrintPass(h, k)
  <2>1. [kiosk[k] EXCEPT !.tested = TRUE] \in Row
    BY <1>1 DEF Row
  <2> QED
    BY <1>4, <2>1, EditsStep DEF TestPrintPass
<1> QED
  BY <1>2, <1>3, <1>4

LEMMA DeleteKioskStep ==
    ASSUME IInv, NEW k \in Kiosks, DeleteKiosk(k)
    PROVE  IInv'
<1> DEFINE new == [kiosk[k] EXCEPT !.status = "disabled"]
<1>1. /\ kiosk' = [kiosk EXCEPT ![k] = new] /\ edits' = edits + 1 /\ edits < MaxEdits
      /\ UNCHANGED <<paired, pending, sweep, alert, mailed, crashes, spammed, excused>>
  BY DEF DeleteKiosk, IInv, TypeOK
<1>2. new \in Row /\ new.alerted = kiosk[k].alerted
  BY RowFacts DEF IInv, Status
<1> HIDE DEF new
<1>3. TypeOK'
  BY <1>1, <1>2, ConstantFacts DEF IInv, TypeOK
<1>4. \A j \in Kiosks : kiosk'[j].alerted <= kiosk[j].alerted
  BY <1>1, <1>2, RowFacts DEF IInv, TypeOK
<1> QED
  BY <1>1, <1>3, <1>4, AlertsUntouched

\* A save that loses a stamp excuses its kiosk.
LEMMA SavesStep ==
    ASSUME IInv, NEW h \in Handlers, Saves(h)
    PROVE  IInv'
<1> DEFINE k == pending[h].kiosk
           row == pending[h].row
<1>1. k \in Kiosks /\ row \in Row
  BY DEF Saves, IInv, TypeOK, Save
<1>2. /\ kiosk' = [kiosk EXCEPT ![k] = row]
      /\ paired' = IF pending[h].kind = "key" THEN [paired EXCEPT ![k] = row.key] ELSE paired
      /\ excused' = IF row.alerted > kiosk[k].alerted THEN excused \cup {k} ELSE excused
      /\ pending' = [pending EXCEPT ![h] = Idle]
      /\ UNCHANGED <<sweep, alert, mailed, edits, crashes, spammed>>
  BY DEF Saves
<1>3. TypeOK'
  <2>1. paired' \in [Kiosks -> 0..MaxKeys]
    BY <1>1, <1>2 DEF IInv, TypeOK, Row
  <2> QED
    BY <1>1, <1>2, <2>1 DEF IInv, TypeOK
<1>4. \A j \in Kiosks : j \in excused' \/ kiosk'[j].alerted <= kiosk[j].alerted
  <2>1. \A j \in Kiosks : kiosk[j].alerted \in Nat
    BY ConstantFacts DEF IInv, TypeOK, Row
  <2>2. row.alerted \in Nat
    BY <1>1, ConstantFacts DEF Row
  <2> QED
    BY <1>1, <1>2, <2>1, <2>2 DEF IInv, TypeOK
<1> QED
  BY <1>2, <1>3, <1>4, AlertsUntouched

(***************************************************************************)
(* The sweep                                                               *)
(***************************************************************************)

LEMMA SweepRevivesStep == ASSUME IInv, SweepRevives PROVE IInv'
<1>1. \A k \in Kiosks : kiosk'[k] \in Row /\ kiosk'[k].alerted <= kiosk[k].alerted
  BY RowFacts DEF SweepRevives, IInv, Status
<1>2. TypeOK'
  BY <1>1 DEF SweepRevives, IInv, TypeOK
<1> QED
  BY <1>1, <1>2, AlertsUntouched DEF SweepRevives

LEMMA SweepFindsStep == ASSUME IInv, SweepFinds PROVE IInv'
<1>1. TypeOK'
  BY DEF SweepFinds, IInv, TypeOK
<1>2. \A k \in Kiosks : kiosk'[k].alerted <= kiosk[k].alerted
  BY RowFacts DEF SweepFinds, IInv
<1> QED
  BY <1>1, <1>2, AlertsUntouched DEF SweepFinds

LEMMA SweepMarksStep == ASSUME IInv, NEW a \in Alerts, SweepMarks(a) PROVE IInv'
<1>1. \A k \in Kiosks : kiosk'[k] \in Row /\ kiosk'[k].alerted <= kiosk[k].alerted
  BY RowFacts DEF SweepMarks, IInv, Status
<1>2. ASSUME NEW b \in Alerts
      PROVE  \/ alert'[b] = alert[b]
             \/ alert[b].pc = "idle" /\ alert'[b].pc = "read"
  BY DEF SweepMarks, IInv, TypeOK
<1>3. TypeOK'
  <2>1. alert' \in [Alerts -> [pc: {"idle", "read", "mail", "stamp"}, ids: SUBSET Kiosks]]
    BY DEF SweepMarks, IInv, TypeOK
  <2> QED
    BY <1>1, <2>1 DEF SweepMarks, IInv, TypeOK
<1> QED
  BY <1>1, <1>2, <1>3, AlertsAlone DEF SweepMarks

(***************************************************************************)
(* Alerts, crashes and time                                                *)
(***************************************************************************)

\* What an alert begins to hold needs a mail, and no other alert holds it or it is excused.
LEMMA AlertReadsStep == ASSUME IInv, NEW a \in Alerts, AlertReads(a) PROVE IInv'
<1> DEFINE ids == {k \in alert[a].ids : Alertable(k)}
           new == IF ids = {} THEN NoAlert ELSE [pc |-> "mail", ids |-> ids]
<1>1. /\ alert[a].pc = "read"
      /\ alert' = [alert EXCEPT ![a] = new]
      /\ excused' = excused \cup (ids \cap BeingMailed(a))
      /\ UNCHANGED <<kiosk, paired, pending, sweep, mailed, edits, crashes, spammed>>
  BY DEF AlertReads
<1>2. ids \subseteq Kiosks /\ new.pc \in {"idle", "mail"} /\ new.ids = ids
  BY DEF IInv, TypeOK, NoAlert
<1>3. alert'[a] = new /\ \A b \in Alerts \ {a} : alert'[b] = alert[b]
  BY <1>1 DEF IInv, TypeOK
<1>4. TypeOK'
  <2>1. new \in [pc: {"idle", "read", "mail", "stamp"}, ids: SUBSET Kiosks]
    BY <1>2 DEF NoAlert
  <2>2. alert' \in [Alerts -> [pc: {"idle", "read", "mail", "stamp"}, ids: SUBSET Kiosks]]
    BY <1>1, <2>1 DEF IInv, TypeOK
  <2> QED
    BY <1>1, <1>2, <2>2 DEF IInv, TypeOK
<1>5. ASSUME NEW k \in Kiosks, k \notin excused'
      PROVE  (OneHolder(k) /\ MailDue(k) /\ Stamped(k) /\ k \notin spammed)'
  <2>1. OneHolder(k) /\ MailDue(k) /\ Stamped(k) /\ k \notin spammed
    BY <1>1, <1>5 DEF IInv, StampsKept
  <2>2. Holds(a, k)' => k \in ids
    BY <1>2, <1>3 DEF Holds
  <2>3. ~Holds(a, k) /\ \A b \in Alerts \ {a} : Holds(b, k)' <=> Holds(b, k)
    BY <1>1, <1>3 DEF Holds
  <2>4. k \in ids => \A b \in Alerts \ {a} : ~Holds(b, k)
    BY <1>1, <1>5 DEF BeingMailed, Holds
  <2>5. k \in ids => mailed[k] = Cooldown
    <3>1. k \in ids => kiosk[k].alerted = Cooldown
      BY DEF Alertable
    <3>2. mailed[k] \in Nat /\ mailed[k] <= Cooldown
      BY ConstantFacts DEF IInv, TypeOK
    <3>3. k \in ids => ~\E b \in Alerts : alert[b].pc = "stamp" /\ Holds(b, k)
      BY <2>3, <2>4
    <3> QED
      BY <2>1, <3>1, <3>2, <3>3, ConstantFacts DEF Stamped
  <2>6. OneHolder(k)'
    BY <2>1, <2>2, <2>3, <2>4 DEF OneHolder
  <2>7. MailDue(k)'
    BY <1>1, <1>3, <2>1, <2>2, <2>3, <2>5 DEF MailDue
  <2>8. Stamped(k)'
    BY <1>1, <1>3, <2>1, <2>3 DEF Stamped
  <2> QED
    BY <1>1, <2>1, <2>6, <2>7, <2>8
<1> QED
  BY <1>4, <1>5 DEF IInv, StampsKept

LEMMA AlertMailsStep == ASSUME IInv, NEW a \in Alerts, AlertMails(a) PROVE IInv'
<1> DEFINE ids == alert[a].ids
<1>1. /\ alert[a].pc = "mail"
      /\ spammed' = spammed \cup {k \in ids : mailed[k] < Cooldown}
      /\ mailed' = [k \in Kiosks |-> IF k \in ids THEN 0 ELSE mailed[k]]
      /\ alert' = [alert EXCEPT ![a].pc = "stamp"]
      /\ UNCHANGED <<kiosk, paired, pending, sweep, edits, crashes, excused>>
  BY DEF AlertMails
<1>2. /\ ids \subseteq Kiosks
      /\ alert'[a].pc = "stamp" /\ alert'[a].ids = ids
      /\ \A b \in Alerts \ {a} : alert'[b] = alert[b]
  BY <1>1 DEF IInv, TypeOK
<1>3. TypeOK'
  <2>1. alert' \in [Alerts -> [pc: {"idle", "read", "mail", "stamp"}, ids: SUBSET Kiosks]]
    BY <1>1 DEF IInv, TypeOK
  <2>2. mailed' \in [Kiosks -> 0..Cooldown]
    BY <1>1, ConstantFacts DEF IInv, TypeOK
  <2> QED
    BY <1>1, <1>2, <2>1, <2>2 DEF IInv, TypeOK
<1>4. ASSUME NEW k \in Kiosks, k \notin excused'
      PROVE  (OneHolder(k) /\ MailDue(k) /\ Stamped(k) /\ k \notin spammed)'
  <2>1. OneHolder(k) /\ MailDue(k) /\ Stamped(k) /\ k \notin spammed
    BY <1>1, <1>4 DEF IInv, StampsKept
  <2>2. \A b \in Alerts : Holds(b, k)' <=> Holds(b, k)
    BY <1>1, <1>2 DEF Holds
  <2>3. OneHolder(k)'
    BY <2>1, <2>2 DEF OneHolder
  <2>4. CASE k \in ids
    <3>1. Holds(a, k) /\ \A b \in Alerts : Holds(b, k) => b = a
      BY <1>1, <2>1, <2>4 DEF Holds, OneHolder
    <3>2. mailed[k] = Cooldown /\ mailed'[k] = 0
      BY <1>1, <2>1, <2>4, <3>1 DEF MailDue
    <3>3. k \notin spammed'
      BY <1>1, <2>1, <3>2, ConstantFacts
    <3>4. MailDue(k)'
      BY <1>2, <2>2, <3>1 DEF MailDue
    <3>5. Stamped(k)'
      BY <1>2, <2>2, <3>1 DEF Stamped
    <3> QED
      BY <2>3, <3>3, <3>4, <3>5
  <2>5. CASE k \notin ids
    <3>1. mailed'[k] = mailed[k] /\ k \notin spammed' /\ ~Holds(a, k)
      BY <1>1, <2>1, <2>5 DEF Holds
    <3>2. MailDue(k)'
      BY <1>2, <2>1, <2>2, <3>1 DEF MailDue
    <3>3. Stamped(k)'
      BY <1>1, <1>2, <2>1, <2>2, <3>1 DEF Stamped
    <3> QED
      BY <2>3, <3>1, <3>2, <3>3
  <2> QED
    BY <2>4, <2>5
<1> QED
  BY <1>3, <1>4 DEF IInv, StampsKept

LEMMA AlertStampsStep == ASSUME IInv, NEW a \in Alerts, AlertStamps(a) PROVE IInv'
<1> DEFINE ids == alert[a].ids
<1>1. /\ alert[a].pc = "stamp"
      /\ kiosk' = [k \in Kiosks |-> IF k \in ids THEN [kiosk[k] EXCEPT !.alerted = 0] ELSE kiosk[k]]
      /\ alert' = [alert EXCEPT ![a] = NoAlert]
      /\ UNCHANGED <<paired, pending, sweep, mailed, edits, crashes, spammed, excused>>
  BY DEF AlertStamps
<1>2. alert'[a].pc = "idle" /\ \A b \in Alerts \ {a} : alert'[b] = alert[b]
  BY <1>1 DEF IInv, TypeOK, NoAlert
<1>3. \A k \in Kiosks : /\ kiosk'[k] \in Row
                        /\ k \in ids => kiosk'[k].alerted = 0
                        /\ k \notin ids => kiosk'[k] = kiosk[k]
  BY <1>1, ConstantFacts DEF IInv, TypeOK, Row
<1>4. TypeOK'
  <2>1. alert' \in [Alerts -> [pc: {"idle", "read", "mail", "stamp"}, ids: SUBSET Kiosks]]
    BY <1>1 DEF IInv, TypeOK, NoAlert
  <2>2. kiosk' \in [Kiosks -> Row]
    BY <1>1, <1>3
  <2> QED
    BY <1>1, <2>1, <2>2 DEF IInv, TypeOK
<1>5. ASSUME NEW k \in Kiosks, k \notin excused'
      PROVE  (OneHolder(k) /\ MailDue(k) /\ Stamped(k) /\ k \notin spammed)'
  <2>1. OneHolder(k) /\ MailDue(k) /\ Stamped(k) /\ k \notin spammed
    BY <1>1, <1>5 DEF IInv, StampsKept
  <2>2. ~Holds(a, k)' /\ \A b \in Alerts \ {a} : Holds(b, k)' <=> Holds(b, k)
    BY <1>2 DEF Holds
  <2>3. OneHolder(k)' /\ MailDue(k)'
    BY <1>1, <1>2, <2>1, <2>2 DEF OneHolder, MailDue
  <2>4. mailed'[k] = mailed[k] /\ mailed[k] \in Nat
    BY <1>1, ConstantFacts DEF IInv, TypeOK
  <2>5. Stamped(k)'
    <3>1. CASE k \in ids
      BY <1>3, <2>4, <3>1 DEF Stamped
    <3>2. CASE k \notin ids
      BY <1>2, <1>3, <2>1, <2>2, <2>4, <3>2 DEF Stamped, Holds
    <3> QED
      BY <3>1, <3>2
  <2> QED
    BY <1>1, <2>1, <2>3, <2>5
<1> QED
  BY <1>4, <1>5 DEF IInv, StampsKept

\* A crash excuses the kiosks that were mailed about and are not stamped.
LEMMA CrashStep == ASSUME IInv, Crash PROVE IInv'
<1>1. /\ alert' = [a \in Alerts |-> NoAlert]
      /\ excused' = excused \cup UNION {alert[a].ids : a \in {b \in Alerts : alert[b].pc = "stamp"}}
      /\ UNCHANGED <<kiosk, paired, mailed, edits, spammed>>
  BY DEF Crash
<1>2. TypeOK'
  <2>1. crashes' \in 0..MaxCrashes
    BY ConstantFacts DEF Crash, IInv, TypeOK
  <2>2. excused' \subseteq Kiosks
    BY <1>1 DEF IInv, TypeOK
  <2> QED
    BY <1>1, <2>1, <2>2 DEF Crash, IInv, TypeOK, NoAlert
<1>3. ASSUME NEW k \in Kiosks, k \notin excused'
      PROVE  (OneHolder(k) /\ MailDue(k) /\ Stamped(k) /\ k \notin spammed)'
  <2>1. Stamped(k) /\ k \notin spammed
    BY <1>1, <1>3 DEF IInv, StampsKept
  <2>2. \A a \in Alerts : ~(alert[a].pc = "stamp" /\ Holds(a, k)) /\ ~Holds(a, k)'
    BY <1>1, <1>3 DEF Holds, NoAlert
  <2>3. OneHolder(k)' /\ MailDue(k)' /\ Stamped(k)'
    BY <1>1, <2>1, <2>2 DEF OneHolder, MailDue, Stamped
  <2> QED
    BY <1>1, <2>1, <2>3
<1> QED
  BY <1>2, <1>3 DEF IInv, StampsKept

LEMMA TickStep == ASSUME IInv, Tick PROVE IInv'
<1>1. /\ kiosk' = [k \in Kiosks |-> Aged(kiosk[k])]
      /\ mailed' = [k \in Kiosks |-> IF mailed[k] < Cooldown THEN mailed[k] + 1 ELSE Cooldown]
      /\ UNCHANGED <<paired, pending, sweep, alert, edits, crashes, spammed, excused>>
  BY DEF Tick
<1>2. \A k \in Kiosks : mailed[k] \in Nat /\ mailed[k] <= Cooldown
  BY ConstantFacts DEF IInv, TypeOK
<1>3. ASSUME NEW k \in Kiosks
      PROVE  /\ kiosk'[k] \in Row
             /\ kiosk[k].alerted \in Nat /\ kiosk'[k].alerted \in Nat
             /\ kiosk'[k].alerted <= kiosk[k].alerted + 1
  <2>1. kiosk[k] \in Row
    BY DEF IInv, TypeOK
  <2>2. kiosk[k].alerted \in 0..Cooldown /\ kiosk[k].seen \in 0..Never
    BY <2>1 DEF Row
  <2>3. /\ (IF kiosk[k].alerted < Cooldown THEN kiosk[k].alerted + 1 ELSE kiosk[k].alerted)
              \in 0..Cooldown
        /\ (IF kiosk[k].seen < Stale THEN kiosk[k].seen + 1 ELSE kiosk[k].seen) \in 0..Never
    BY <2>2, ConstantFacts DEF Stale, Never
  <2>4. kiosk'[k] = Aged(kiosk[k])
    BY <1>1
  <2>5. Aged(kiosk[k]) \in Row
    BY <2>1, <2>3 DEF Aged, Row
  <2>6. Aged(kiosk[k]).alerted =
            IF kiosk[k].alerted < Cooldown THEN kiosk[k].alerted + 1 ELSE kiosk[k].alerted
    BY <2>1 DEF Aged, Row
  <2> QED
    BY <2>2, <2>4, <2>5, <2>6, ConstantFacts
<1>4. TypeOK'
  <2>1. mailed' \in [Kiosks -> 0..Cooldown]
    BY <1>1, <1>2, ConstantFacts
  <2>2. kiosk' \in [Kiosks -> Row]
    BY <1>1, <1>3
  <2> QED
    BY <1>1, <2>1, <2>2 DEF IInv, TypeOK
<1>5. ASSUME NEW k \in Kiosks, k \notin excused'
      PROVE  (OneHolder(k) /\ MailDue(k) /\ Stamped(k) /\ k \notin spammed)'
  <2>1. OneHolder(k) /\ MailDue(k) /\ Stamped(k) /\ k \notin spammed
    BY <1>1, <1>5 DEF IInv, StampsKept
  <2>2. \A a \in Alerts : Holds(a, k)' <=> Holds(a, k)
    BY <1>1 DEF Holds
  <2>3. mailed'[k] = IF mailed[k] < Cooldown THEN mailed[k] + 1 ELSE Cooldown
    BY <1>1
  <2>4. OneHolder(k)'
    BY <2>1, <2>2 DEF OneHolder
  <2>5. MailDue(k)'
    BY <1>1, <1>2, <2>1, <2>2, <2>3, ConstantFacts DEF MailDue
  <2>6. Stamped(k)'
    <3>1. mailed'[k] < Cooldown => mailed[k] < Cooldown /\ mailed'[k] = mailed[k] + 1
      BY <1>2, <2>3, ConstantFacts
    <3>2. kiosk[k].alerted <= mailed[k] => kiosk'[k].alerted <= mailed[k] + 1
      BY <1>2, <1>3
    <3> QED
      BY <1>1, <2>1, <2>2, <3>1, <3>2 DEF Stamped
  <2> QED
    BY <1>1, <2>1, <2>4, <2>5, <2>6
<1> QED
  BY <1>4, <1>5 DEF IInv, StampsKept

(***************************************************************************)
(* The theorems                                                            *)
(***************************************************************************)

LEMMA NextIInv ==
    ASSUME IInv, [Next]_vars
    PROVE  IInv'
<1>1. CASE UNCHANGED vars
  BY <1>1, StutterStep
<1>2. CASE \E h \in Beats, k \in Kiosks : BeatReads(h, k)
  BY <1>2, BeatReadsStep
<1>3. CASE \E h \in Editors, k \in Kiosks :
              \/ \E status \in Status : UpdateStatus(h, k, status)
              \/ RegenerateKey(h, k) \/ TestPrintPass(h, k)
  BY <1>3, EditorStep
<1>4. CASE \E k \in Kiosks : DeleteKiosk(k)
  BY <1>4, DeleteKioskStep
<1>5. CASE \E h \in Handlers : Saves(h)
  BY <1>5, SavesStep
<1>6. CASE \E a \in Alerts : SweepMarks(a) \/ AlertReads(a) \/ AlertMails(a) \/ AlertStamps(a)
  BY <1>6, SweepMarksStep, AlertReadsStep, AlertMailsStep, AlertStampsStep
<1>7. CASE SweepRevives \/ SweepFinds \/ Crash \/ Tick
  BY <1>7, SweepRevivesStep, SweepFindsStep, CrashStep, TickStep
<1> QED
  BY <1>1, <1>2, <1>3, <1>4, <1>5, <1>6, <1>7 DEF Next

LEMMA Invariance == Spec => []IInv
BY InitIInv, NextIInv, PTL DEF Spec

\* Every variable keeps to its type.
THEOREM TypeCorrect == Spec => []TypeOK
<1>1. IInv => TypeOK
  BY DEF IInv
<1> QED
  BY <1>1, Invariance, PTL

\* An owner is mailed about a kiosk twice within the cool-down only if a stale save, a crash
\* or a slow alert lost the stamp of the first mail.
THEOREM OneMailPerCooldownHolds == Spec => []OneMailPerCooldown
<1>1. IInv => OneMailPerCooldown
  BY DEF IInv, TypeOK, StampsKept, OneMailPerCooldown
<1> QED
  BY <1>1, Invariance, PTL

\* Of a kiosk out of service, whose requests under way all read it so, no step but an
\* operator's change of its status begins to put it back.
LEMMA RetiredStep ==
    ASSUME TypeOK, NEW k \in Kiosks, Retired(k), [Next]_vars
    PROVE  \/ Retired(k)'
           \/ \E h \in Editors, status \in {"active", "offline"} : UpdateStatus(h, k, status)
<1>1. /\ Out(kiosk[k].status)
      /\ \A h \in Handlers : pending[h] # Idle => pending[h].kiosk # k \/ Out(pending[h].row.status)
  BY DEF Retired
<1>2. kiosk[k] \in Row
  BY DEF TypeOK
<1>3. CASE UNCHANGED <<kiosk, pending>>
  BY <1>1, <1>3 DEF Retired
\* A read of another row, or of this one by a handler that leaves its status as it is.
<1>4. ASSUME NEW h \in Handlers, NEW j \in Kiosks, NEW kind, NEW row,
             pending' = [pending EXCEPT ![h] = [kind |-> kind, kiosk |-> j, row |-> row]],
             UNCHANGED kiosk, j = k => Out(row.status)
      PROVE  Retired(k)'
  BY <1>1, <1>4 DEF Retired, TypeOK
<1>5. ASSUME NEW h \in Beats, NEW j \in Kiosks, BeatReads(h, j)
      PROVE  Retired(k)'
  <2>1. j # k
    BY <1>1, <1>5 DEF BeatReads, Admitted, Out
  <2>2. /\ pending' = [pending EXCEPT ![h] = [kind |-> "beat", kiosk |-> j,
                            row |-> [kiosk[j] EXCEPT !.seen = 0]]]
        /\ UNCHANGED kiosk /\ h \in Handlers
    BY <1>5 DEF BeatReads, Handlers
  <2> QED
    BY <1>4, <2>1, <2>2
<1>6. ASSUME NEW h \in Editors, NEW j \in Kiosks, NEW status \in Status, UpdateStatus(h, j, status)
      PROVE  \/ Retired(k)'
             \/ \E e \in Editors, s \in {"active", "offline"} : UpdateStatus(e, k, s)
  <2>1. CASE j = k /\ status \in {"active", "offline"}
    BY <1>6, <2>1
  <2>2. CASE j # k \/ status \notin {"active", "offline"}
    <3>1. j = k => Out([kiosk[j] EXCEPT !.status = status].status)
      BY <1>2, <2>2 DEF Row, Status, Out
    <3>2. /\ pending' = [pending EXCEPT ![h] = [kind |-> "status", kiosk |-> j,
                              row |-> [kiosk[j] EXCEPT !.status = status]]]
          /\ UNCHANGED kiosk /\ h \in Handlers
      BY <1>6 DEF UpdateStatus, Edits, Handlers
    <3> QED
      BY <1>4, <3>1, <3>2
  <2> QED
    BY <2>1, <2>2
<1>7. ASSUME NEW h \in Editors, NEW j \in Kiosks, RegenerateKey(h, j) \/ TestPrintPass(h, j)
      PROVE  Retired(k)'
  <2>1. PICK kind, row :
          /\ pending' = [pending EXCEPT ![h] = [kind |-> kind, kiosk |-> j, row |-> row]]
          /\ row = [kiosk[j] EXCEPT !.key = @ + 1] \/ row = [kiosk[j] EXCEPT !.tested = TRUE]
          /\ UNCHANGED kiosk /\ h \in Handlers
    BY <1>7 DEF RegenerateKey, TestPrintPass, Edits, Handlers
  <2>2. j = k => Out(row.status)
    BY <1>1, <1>2, <2>1 DEF Row
  <2> QED
    BY <1>4, <2>1, <2>2
<1>8. ASSUME NEW h \in Handlers, Saves(h)
      PROVE  Retired(k)'
  <2>1. Out(kiosk'[k].status)
    BY <1>1, <1>8 DEF Saves, TypeOK
  <2> QED
    BY <1>1, <1>8, <2>1 DEF Saves, TypeOK, Retired
<1>9. ASSUME UNCHANGED pending, Out(kiosk'[k].status)
      PROVE  Retired(k)'
  BY <1>1, <1>9 DEF Retired
<1>10. CASE \E j \in Kiosks : DeleteKiosk(j)
  <2>1. Out(kiosk'[k].status)
    BY <1>1, <1>2, <1>10 DEF DeleteKiosk, TypeOK, Row, Out
  <2> QED
    BY <1>9, <1>10, <2>1 DEF DeleteKiosk
<1>11. CASE SweepRevives \/ \E a \in Alerts : SweepMarks(a)
  <2>1. kiosk'[k] = kiosk[k]
    BY <1>1, <1>11 DEF SweepRevives, Revived, SweepMarks, Marked, Out
  <2> QED
    BY <1>1, <1>9, <1>11, <2>1 DEF SweepRevives, SweepMarks
<1>12. CASE \E a \in Alerts : AlertStamps(a)
  <2>1. kiosk'[k].status = kiosk[k].status
    BY <1>2, <1>12 DEF AlertStamps, Row
  <2> QED
    BY <1>1, <1>9, <1>12, <2>1 DEF AlertStamps
<1>13. CASE Tick
  <2>1. kiosk'[k].status = kiosk[k].status
    BY <1>2, <1>13 DEF Tick, Aged, Row
  <2> QED
    BY <1>1, <1>9, <1>13, <2>1 DEF Tick
<1>14. CASE Crash
  BY <1>1, <1>14 DEF Crash, Retired
<1>15. CASE SweepFinds \/ \E a \in Alerts : AlertReads(a) \/ AlertMails(a)
  BY <1>3, <1>15 DEF SweepFinds, AlertReads, AlertMails
<1> QED
  BY <1>3, <1>5, <1>6, <1>7, <1>8, <1>10, <1>11, <1>12, <1>13, <1>14, <1>15 DEF Next, vars

\* Neither heartbeats nor sweeps nor other edits put a kiosk back that is out of service.
THEOREM StaysOutHolds == Spec => StaysOut
<1>1. IInv /\ [Next]_vars =>
        [\A k \in Kiosks : Retired(k) =>
            \/ Retired(k)'
            \/ \E h \in Editors, status \in {"active", "offline"} :
                  UpdateStatus(h, k, status)]_vars
  BY RetiredStep DEF IInv
<1> QED
  BY <1>1, Invariance, PTL DEF Spec, StaysOut
=================================================================================
