------------------------- MODULE EventRemindersProofs -------------------------
(***************************************************************************)
(* The reminder engine for any number of servers, reconciliations, dates   *)
(* and recipients: types, the claim that is exclusive while it is fresh,   *)
(* the cause of every duplicate mail, and the finality of settled rows.    *)
(***************************************************************************)
EXTENDS EventReminders, TLAPS

(* The locks of reconciliations: no row is held twice, and a row held to be *)
(* cancelled can still be cancelled, because nobody else writes it.         *)
LockInv ==
  /\ \A i \in Reconcilers : \A j \in Reconcilers \ {i} : rec[i].held \cap rec[j].held = {}
  /\ \A i \in Reconcilers :
       /\ rec[i].stage \in {"idle", "start", "loaded"} => rec[i].held = {}
       /\ rec[i].stage = "upsert" => rec[i].todo \subseteq rec[i].desired
       /\ \A r \in rec[i].held \ rec[i].desired : Stray(ledger[r])

(* Every claim old enough to be taken back is remembered as slow.           *)
AgedIsSlow == \A r \in Rows : ledger[r].aged => r \in slow

(* The row being handled is no longer among those left, an idle worker      *)
(* holds nothing, and a handled row exists.                                 *)
WorkerInv ==
  \A w \in Workers :
    /\ worker[w].row \notin worker[w].left
    /\ worker[w].phase = "idle" => worker[w] = Idle
    /\ worker[w].phase = "next" <=> (worker[w].row = NoRow /\ worker[w].phase # "idle")

(* The statuses a fresh claim may have while its worker still holds it: a   *)
(* row whose result was recorded is held until its failing audit row is     *)
(* dealt with.                                                              *)
FreshClaim ==
  \A w \in Workers : \A r \in Holds(w) \ slow :
    ledger[r].status \in
      IF worker[w].phase = "failing" /\ r = worker[w].row
      THEN {"PROCESSING", "SENT", "SKIPPED"} ELSE {"PROCESSING"}

Alone == \A w \in Workers : \A v \in Workers \ {w} : (Holds(w) \cap Holds(v)) \subseteq slow

(* A row with one mail and no doubt about it is either recorded, or still   *)
(* PROCESSING with its worker about to record it or gone.                   *)
OneMail ==
  \A r \in Rows \ (slow \cup doubtful) :
    /\ sends[r] \in {0, 1}
    /\ sends[r] = 1 =>
         /\ ledger[r].status \in {"PROCESSING", "SENT"}
         /\ \A w \in Workers : r \in Holds(w) =>
              /\ worker[w].row = r /\ worker[w].phase \in {"sent", "failing"}
              /\ worker[w].phase = "failing" => ledger[r].status = "SENT"

IInv == TypeOK /\ LockInv /\ AgedIsSlow /\ WorkerInv /\ FreshClaim /\ Alone /\ OneMail

-----------------------------------------------------------------------------
(* Type correctness.                                                        *)

LEMMA FreshTypes == Pending \in Reminder /\ Absent \in Reminder
<1>1. 0 \in 0..MaxAttempts
  BY BoundsAssumption
<1>2. QED
  BY <1>1, ZenonT(20) DEF Absent, Pending, NewReminder, Reminder, Statuses

LEMMA InitTypes == Init => TypeOK
<1> SUFFICES ASSUME Init PROVE TypeOK
  OBVIOUS
<1>1. Pending \in Reminder /\ Absent \in Reminder
  BY FreshTypes
<1>2. ledger \in [Rows -> Reminder]
  BY <1>1 DEF Init
<1>3. worker \in [Workers -> Run]
  BY DEF Init, Idle, Run
<1>4. rec \in [Reconcilers -> Reconciliation]
  BY DEF Init, NoReconciliation, Reconciliation
<1>5. QED
  BY <1>2, <1>3, <1>4, BoundsAssumption DEF Init, TypeOK

(* The run of a worker stays well-typed when it goes on to its next row.    *)
LEMMA ResumeType ==
  ASSUME NEW left \in SUBSET Rows
  PROVE  Resume(left) \in Run
  BY DEF Resume, Idle, Run

(* So does the ledger when a worker closes a row.                           *)
LEMMA CloseType ==
  ASSUME TypeOK, NEW r \in Rows, NEW s \in {"SENT", "SKIPPED", "FAILED", "CANCELLED"}
  PROVE  Close(r, s) \in [Rows -> Reminder]
  BY DEF TypeOK, Close, Reminder, Statuses

LEMMA RecoveredType ==
  ASSUME TypeOK
  PROVE  Recovered \in [Rows -> Reminder]
  BY DEF TypeOK, Recovered, Reminder, Statuses

(* An active worker handles a row.                                          *)
LEMMA HandledRow ==
  ASSUME TypeOK, WorkerInv, NEW w \in Workers,
         worker[w].phase \notin {"idle", "next"}
  PROVE  worker[w].row \in Rows
<1>1. worker[w] \in Run
  BY DEF TypeOK
<1>2. QED
  BY <1>1 DEF WorkerInv, Run

(* What is spent stays within its bound.                                    *)
LEMMA SpendingType ==
  ASSUME TypeOK
  PROVE  /\ Fault => faults' \in 0..Faults
         /\ edits > 0 => edits - 1 \in 0..Edits
         /\ moves > 0 => moves - 1 \in 0..Moves
  BY BoundsAssumption DEF TypeOK, Fault

(* A reconciliation that starts or ends stays well-typed.                   *)
LEMMA StartType ==
  ASSUME TypeOK, NEW i \in Reconcilers, Start(i)
  PROVE  rec' \in [Reconcilers -> Reconciliation]
<1>1. rec[i] \in Reconciliation
  BY DEF TypeOK
<1>2. [rec[i] EXCEPT !.stage = "start"] \in Reconciliation
  BY <1>1 DEF Reconciliation
<1>3. rec' = [rec EXCEPT ![i] = [rec[i] EXCEPT !.stage = "start"]]
  BY DEF Start, TypeOK
<1>4. QED
  BY <1>2, <1>3 DEF TypeOK

LEMMA TypeStep == TypeOK /\ WorkerInv /\ [Next]_vars => TypeOK'
<1> SUFFICES ASSUME TypeOK, WorkerInv, [Next]_vars PROVE TypeOK'
  OBVIOUS
<1> USE DEF source, history
<1>1. ASSUME NEW i \in Reconcilers, NEW e \in Dates \cup {Cancelled}, ChangeEvent(i, e)
      PROVE  TypeOK'
  BY <1>1, SpendingType, StartType DEF TypeOK, ChangeEvent
<1>2. ASSUME NEW i \in Reconcilers, NEW a \in SUBSET Recipients, ChangePreferences(i, a)
      PROVE  TypeOK'
  BY <1>2, SpendingType, StartType DEF TypeOK, ChangePreferences
<1>3. ASSUME NEW a \in SUBSET Recipients, ChangeUsers(a) PROVE TypeOK'
  BY <1>3, SpendingType DEF TypeOK, ChangeUsers
<1>4. ASSUME NEW s \in Slots, Passes(s) PROVE TypeOK'
  BY <1>4 DEF TypeOK, Passes
<1>5. ASSUME NEW r \in Rows, ComeDue(r) \/ Age(r) \/ Retry(r) PROVE TypeOK'
  <2>1. /\ [ledger[r] EXCEPT !.due = TRUE] \in Reminder
        /\ [ledger[r] EXCEPT !.aged = TRUE] \in Reminder
        /\ [ledger[r] EXCEPT !.status = "PENDING", !.due = TRUE] \in Reminder
    BY DEF TypeOK, Reminder, Statuses
  <2>2. ledger' \in [Rows -> Reminder]
    BY <1>5, <2>1 DEF TypeOK, ComeDue, Age, Retry
  <2>3. QED
    BY <1>5, <2>2, SpendingType DEF TypeOK, ComeDue, Age, Retry
<1>6. ASSUME NEW w \in Workers, Claim(w) PROVE TypeOK'
  <2>1. PICK b \in Batches(Recovered) :
          /\ ledger' = [r \in Rows |->
                          IF r \in b
                          THEN [status |-> "PROCESSING", attempts |-> Recovered[r].attempts + 1,
                                due |-> FALSE, aged |-> FALSE]
                          ELSE Recovered[r]]
          /\ worker' = [worker EXCEPT ![w] = IF b = {} THEN Idle
                                             ELSE [phase |-> "next", row |-> NoRow, left |-> b]]
    BY <1>6 DEF Claim
  <2>2. b \in SUBSET Rows /\ \A r \in b : Claimable(Recovered[r])
    BY DEF Batches
  <2>3. ASSUME NEW r \in Rows PROVE ledger'[r] \in Reminder
    <3>1. Recovered[r] \in Reminder
      BY RecoveredType
    <3>2. CASE r \in b
      <4>1. Recovered[r].attempts \in 0..MaxAttempts /\ Recovered[r].attempts < MaxAttempts
        BY <3>1, <3>2, <2>2 DEF Reminder, Claimable
      <4>2. Recovered[r].attempts + 1 \in 0..MaxAttempts
        BY <4>1, BoundsAssumption
      <4>3. QED
        BY <4>2, <3>2, <2>1 DEF Reminder, Statuses
    <3>3. QED
      BY <2>1, <3>1, <3>2
  <2>4. ledger' \in [Rows -> Reminder]
    BY <2>1, <2>3
  <2>5. worker' \in [Workers -> Run]
    BY <2>1, <2>2 DEF TypeOK, Run, Idle
  <2>6. QED
    BY <1>6, <2>4, <2>5 DEF TypeOK, Claim
<1>7. ASSUME NEW w \in Workers, Work(w) PROVE TypeOK'
  <2>0. worker[w] \in Run /\ Resume(worker[w].left) \in Run
    BY ResumeType DEF TypeOK, Run
  <2>1. CASE Check(w)
    BY <2>0, <2>1 DEF TypeOK, Check, Become, Run
  <2>2. CASE CancelRow(w)
    <3>1. ledger' \in [Rows -> Reminder]
      BY <2>2, HandledRow, CloseType DEF CancelRow
    <3>2. QED
      BY <2>0, <2>2, <3>1 DEF TypeOK, CancelRow, Become
  <2>3. CASE Send(w)
    <3>1. worker[w].row \in Rows
      BY <2>3, HandledRow DEF Send
    <3>2. worker' \in [Workers -> Run]
      BY <2>0, <2>3 DEF TypeOK, Send, Become, Enter, Run
    <3>4. sends' \in [Rows -> Nat]
      BY <2>3, <3>1 DEF TypeOK, Send, Accepted
    <3>5. faults' \in 0..Faults /\ doubtful' \subseteq Rows
      BY <2>3, <3>1, SpendingType DEF TypeOK, Send
    <3>6. QED
      BY <2>3, <3>1, <3>2, <3>4, <3>5 DEF TypeOK, Send
  <2>4. CASE Record(w)
    <3>1. worker[w].row \in Rows
      BY <2>4, HandledRow DEF Record
    <3>2. ledger' \in [Rows -> Reminder]
      BY <2>4, <3>1, CloseType DEF Record, Outcome, TypeOK
    <3>3. worker' \in [Workers -> Run]
      BY <2>0, <2>4 DEF TypeOK, Record, Become, Enter, Run
    <3>4. QED
      BY <2>4, <3>1, <3>2, <3>3, SpendingType DEF TypeOK, Record
  <2>5. CASE MarkFailure(w)
    <3>1. worker[w].row \in Rows
      BY <2>5, HandledRow DEF MarkFailure
    <3>2. ledger' \in [Rows -> Reminder]
      BY <2>5, <3>1, CloseType DEF MarkFailure, TypeOK
    <3>3. worker' \in [Workers -> Run]
      BY <2>0, <2>5 DEF TypeOK, MarkFailure, Become, Idle, Run
    <3>4. QED
      BY <2>5, <3>2, <3>3, SpendingType DEF TypeOK, MarkFailure
  <2>6. QED
    BY <1>7, <2>1, <2>2, <2>3, <2>4, <2>5 DEF Work
<1>8. ASSUME NEW w \in Workers, RunThrows(w) \/ Crash(w) PROVE TypeOK'
  <2>1. worker' \in [Workers -> Run]
    BY <1>8 DEF TypeOK, RunThrows, Crash, Become, Idle, Run
  <2>2. QED
    BY <1>8, <2>1, SpendingType DEF TypeOK, RunThrows, Crash
<1>9. ASSUME NEW i \in Reconcilers, Sweep(i) PROVE TypeOK'
  BY <1>9, StartType DEF TypeOK, Sweep
<1>10. ASSUME NEW i \in Reconcilers, Abort(i) PROVE TypeOK'
  <2>1. NoReconciliation \in Reconciliation
    BY DEF NoReconciliation, Reconciliation
  <2>2. QED
    BY <1>10, <2>1, SpendingType DEF TypeOK, Abort
<1>11. ASSUME NEW i \in Reconcilers, Reconcile(i) PROVE TypeOK'
  <2>0. rec[i] \in Reconciliation /\ NoReconciliation \in Reconciliation
    BY DEF TypeOK, NoReconciliation, Reconciliation
  <2>1. CASE LoadEvent(i)
    BY <2>0, <2>1 DEF TypeOK, LoadEvent, Reconciling, Reconciliation
  <2>2. CASE LoadPreferences(i)
    <3>1. SlotsFor(rec[i].date) \X audience \in SUBSET Rows
      BY <2>0, ScheduleAssumption DEF SlotsFor, Rows, TypeOK, Reconciliation
    <3>2. QED
      BY <2>0, <2>2, <3>1 DEF TypeOK, LoadPreferences, Reconciling, Reconciliation
  <2>3. CASE Upsert(i)
    <3>1. PICK r \in rec[i].todo :
            Reconciling(i, [rec[i] EXCEPT !.todo = @ \ {r}, !.held = @ \cup {r}])
      BY <2>3 DEF Upsert, NextLocks
    <3>2. [rec[i] EXCEPT !.todo = @ \ {r}, !.held = @ \cup {r}] \in Reconciliation
      BY <2>0 DEF Reconciliation
    <3>3. QED
      BY <3>1, <3>2 DEF TypeOK, Reconciling
  <2>4. CASE BeginCancel(i)
    BY <2>0, <2>4 DEF TypeOK, BeginCancel, Reconciling, Reconciliation
  <2>5. CASE CancelStray(i)
    <3>1. PICK r \in rec[i].todo :
            Reconciling(i, [rec[i] EXCEPT !.todo = @ \ {r},
                              !.held = IF Stray(ledger[r]) THEN @ \cup {r} ELSE @])
      BY <2>5 DEF CancelStray, NextLocks
    <3>2. [rec[i] EXCEPT !.todo = @ \ {r},
             !.held = IF Stray(ledger[r]) THEN @ \cup {r} ELSE @] \in Reconciliation
      BY <2>0 DEF Reconciliation
    <3>3. QED
      BY <3>1, <3>2 DEF TypeOK, Reconciling
  <2>6. CASE Commit(i)
    <3>1. \A r \in Rows : Written(i, r) \in Reminder
      <4>1. SUFFICES ASSUME NEW r \in Rows PROVE Written(i, r) \in Reminder
        OBVIOUS
      <4>2. [ledger[r] EXCEPT !.status = "CANCELLED", !.due = FALSE, !.aged = FALSE] \in Reminder
        BY DEF TypeOK, Reminder, Statuses
      <4>3. QED
        BY <4>2, FreshTypes DEF TypeOK, Written
    <3>2. QED
      BY <2>0, <2>6, <3>1 DEF TypeOK, Commit
  <2>7. CASE DeadlockVictim(i)
    BY <2>0, <2>7 DEF TypeOK, DeadlockVictim, Reconciling
  <2>8. QED
    BY <1>11, <2>1, <2>2, <2>3, <2>4, <2>5, <2>6, <2>7 DEF Reconcile
<1>12. CASE UNCHANGED vars
  BY <1>12 DEF TypeOK, vars
<1>13. QED
  BY <1>1, <1>2, <1>3, <1>4, <1>5, <1>6, <1>7, <1>8, <1>9, <1>10, <1>11, <1>12 DEF Next

-----------------------------------------------------------------------------
(* Locks, claims and mails.                                                 *)

ClaimInv == AgedIsSlow /\ WorkerInv /\ FreshClaim /\ Alone /\ OneMail

LEMMA InitInv == Init => LockInv /\ ClaimInv
<1> SUFFICES ASSUME Init PROVE LockInv /\ ClaimInv
  OBVIOUS
<1>1. LockInv
  BY DEF Init, LockInv, NoReconciliation
<1>2. \A r \in Rows : ~ledger[r].aged /\ sends[r] = 0
  BY DEF Init, Absent, Pending, NewReminder
<1>3. \A w \in Workers : worker[w] = Idle /\ Holds(w) = {}
  BY DEF Init, Holds, Idle
<1>4. QED
  BY <1>1, <1>2, <1>3 DEF ClaimInv, AgedIsSlow, WorkerInv, FreshClaim, Alone, OneMail, Idle

(* Steps that leave the ledger, the workers and the mails alone.            *)
LEMMA CalmStep ==
  ASSUME ClaimInv, UNCHANGED <<ledger, worker, history>>
  PROVE  ClaimInv'
  BY DEF ClaimInv, AgedIsSlow, WorkerInv, FreshClaim, Alone, OneMail, Holds, history

(* Steps of other actors keep the locks if they leave the rows locked to be *)
(* cancelled such that they can be cancelled.                               *)
LEMMA LocksKept ==
  ASSUME LockInv, UNCHANGED rec,
         \A r \in Rows : Locked(r) /\ Stray(ledger[r]) => Stray(ledger'[r]),
         TypeOK
  PROVE  LockInv'
<1>1. \A i \in Reconcilers : \A r \in rec[i].held : r \in Rows /\ Locked(r)
  BY DEF TypeOK, Reconciliation, Locked
<1>2. QED
  BY <1>1 DEF LockInv, Stray

(* A reconciliation changes its own record.                                 *)
LEMMA LocksChanged ==
  ASSUME TypeOK, LockInv, NEW i \in Reconcilers, NEW n \in Reconciliation,
         rec' = [rec EXCEPT ![i] = n],
         \A j \in Reconcilers \ {i} : n.held \cap rec[j].held = {},
         n.stage \in {"idle", "start", "loaded"} => n.held = {},
         n.stage = "upsert" => n.todo \subseteq n.desired,
         \A r \in n.held \ n.desired : Stray(ledger'[r]),
         \A j \in Reconcilers \ {i} : \A r \in rec[j].held :
           Stray(ledger[r]) => Stray(ledger'[r])
  PROVE  LockInv'
<1>1. \A j \in Reconcilers : rec'[j] = IF j = i THEN n ELSE rec[j]
  BY DEF TypeOK
<1>2. \A j \in Reconcilers : \A k \in Reconcilers \ {j} : rec'[j].held \cap rec'[k].held = {}
  BY <1>1 DEF LockInv
<1>3. ASSUME NEW j \in Reconcilers
      PROVE  /\ rec'[j].stage \in {"idle", "start", "loaded"} => rec'[j].held = {}
             /\ rec'[j].stage = "upsert" => rec'[j].todo \subseteq rec'[j].desired
             /\ \A r \in rec'[j].held \ rec'[j].desired : Stray(ledger'[r])
  BY <1>1 DEF LockInv
<1>4. QED
  BY <1>2, <1>3 DEF LockInv, Stray

LEMMA NoReconciliationFacts ==
  /\ NoReconciliation \in Reconciliation
  /\ NoReconciliation.held = {} /\ NoReconciliation.stage = "idle"
  BY DEF NoReconciliation, Reconciliation

(* What Close does to each row.                                             *)
LEMMA CloseFacts ==
  ASSUME TypeOK, NEW r \in Rows, NEW s \in {"SENT", "SKIPPED", "FAILED", "CANCELLED"},
         ledger' = Close(r, s)
  PROVE  /\ \A q \in Rows \ {r} : ledger'[q] = ledger[q]
         /\ ledger[r].status # "PROCESSING" => ledger'[r] = ledger[r]
         /\ ledger[r].status = "PROCESSING" => ledger'[r].status = s /\ ~ledger'[r].aged
  BY DEF TypeOK, Close, Reminder

(* What a worker holds once it goes on.                                     *)
LEMMA ResumeFacts ==
  ASSUME NEW left \in SUBSET Rows
  PROVE  /\ Resume(left).left = left /\ Resume(left).row = NoRow
         /\ Resume(left).phase = IF left = {} THEN "idle" ELSE "next"
         /\ Resume(left).phase = "idle" => Resume(left) = Idle
  BY DEF Resume, Idle

LEMMA CloseKeepsLocks ==
  ASSUME TypeOK, LockInv, NEW r \in Rows, NEW s \in {"SENT", "SKIPPED", "FAILED", "CANCELLED"},
         ~Locked(r), ledger' = Close(r, s), UNCHANGED rec
  PROVE  LockInv'
  BY CloseFacts, LocksKept DEF Stray

(* A worker that only gives rows up keeps claims apart.                     *)
LEMMA HoldsLess ==
  ASSUME TypeOK, ClaimInv, NEW w \in Workers, NEW n \in Run,
         worker' = [worker EXCEPT ![w] = n], slow' = slow,
         n.left \cup ({n.row} \ {NoRow}) \subseteq Holds(w),
         n.row \notin n.left, n.phase = "idle" => n = Idle,
         n.phase = "next" <=> (n.row = NoRow /\ n.phase # "idle")
  PROVE  /\ worker'[w] = n /\ Holds(w)' = n.left \cup ({n.row} \ {NoRow})
         /\ \A v \in Workers \ {w} : worker'[v] = worker[v] /\ Holds(v)' = Holds(v)
         /\ Alone' /\ WorkerInv'
<1>1. worker'[w] = n /\ \A v \in Workers \ {w} : worker'[v] = worker[v]
  BY DEF TypeOK
<1>2. Holds(w)' = n.left \cup ({n.row} \ {NoRow}) /\ \A v \in Workers \ {w} : Holds(v)' = Holds(v)
  BY <1>1 DEF Holds
<1>3. Alone'
  BY <1>2 DEF Alone, ClaimInv
<1>4. WorkerInv'
  BY <1>1 DEF WorkerInv, ClaimInv
<1>5. QED
  BY <1>1, <1>2, <1>3, <1>4

(* A worker closes its row, or fails to, and gives it up.                   *)
LEMMA GiveUpRow ==
  ASSUME TypeOK, ClaimInv, NEW w \in Workers, NEW n \in Run,
         NEW s \in {"SENT", "SKIPPED", "FAILED", "CANCELLED"},
         worker[w].row \in Rows, worker[w].phase \notin {"idle", "next"},
         ledger' = ledger \/ ledger' = Close(worker[w].row, s),
         worker' = [worker EXCEPT ![w] = n],
         UNCHANGED history,
         n = Idle \/ n = Resume(worker[w].left),
         worker[w].phase = "sent" => s = "SENT"
  PROVE  ClaimInv'
<1> DEFINE r == worker[w].row
<1>0. worker[w] \in Run /\ worker[w].left \in SUBSET Rows
  BY DEF TypeOK, Run
<1>1. /\ n.row = NoRow /\ n.left \subseteq worker[w].left
      /\ n.phase = "idle" => n = Idle
      /\ n.phase \in {"idle", "next"}
      /\ n.phase = "next" <=> (n.row = NoRow /\ n.phase # "idle")
      /\ NoRow \notin n.left
  BY <1>0, ResumeFacts, RowsAssumption DEF Idle
<1>2. Holds(w) = worker[w].left \cup {r} /\ r \notin worker[w].left
  BY RowsAssumption DEF Holds, ClaimInv, WorkerInv
<1>3. /\ worker'[w] = n /\ Holds(w)' \subseteq Holds(w) \ {r}
      /\ \A v \in Workers \ {w} : worker'[v] = worker[v] /\ Holds(v)' = Holds(v)
      /\ Alone' /\ WorkerInv'
  BY <1>1, <1>2, HoldsLess DEF history
<1>4. /\ \A q \in Rows \ {r} : ledger'[q] = ledger[q]
      /\ ledger[r].status # "PROCESSING" => ledger'[r] = ledger[r]
      /\ ledger[r].status = "PROCESSING" => ledger'[r] = ledger[r] \/ (ledger'[r].status = s /\ ~ledger'[r].aged)
  BY CloseFacts
<1>5. AgedIsSlow'
  BY <1>4 DEF AgedIsSlow, ClaimInv, history
<1>6. ASSUME NEW v \in Workers, NEW q \in Holds(v)' \ slow'
      PROVE  /\ q \in Rows /\ q # r /\ ledger'[q] = ledger[q] /\ q \in Holds(v)
             /\ v # w \/ (worker[w].row # q /\ worker'[w].row # q)
  <2>1. q \in Holds(v) /\ q \notin slow
    BY <1>3, <1>6 DEF history
  <2>2. q \in Rows
    BY <2>1 DEF Holds, TypeOK, Run
  <2>3. q # r
    BY <1>2, <1>3, <1>6, <2>1 DEF Alone, ClaimInv
  <2>4. QED
    BY <1>1, <1>3, <1>4, <2>1, <2>2, <2>3, RowsAssumption
<1>7. FreshClaim'
  <2>1. SUFFICES ASSUME NEW v \in Workers, NEW q \in Holds(v)' \ slow'
                 PROVE  (ledger[q].status \in
                           IF worker[v].phase = "failing" /\ q = worker[v].row
                           THEN {"PROCESSING", "SENT", "SKIPPED"} ELSE {"PROCESSING"})'
    BY DEF FreshClaim
  <2>2. q \notin slow /\ q \in Holds(v)
    BY <1>6 DEF history
  <2>3. QED
    BY <1>3, <1>6, <2>2 DEF FreshClaim, ClaimInv
<1>8. OneMail'
  <2>1. SUFFICES ASSUME NEW q \in Rows \ (slow \cup doubtful)
                 PROVE  /\ sends[q] \in {0, 1}
                        /\ sends[q] = 1 =>
                             /\ ledger'[q].status \in {"PROCESSING", "SENT"}
                             /\ \A v \in Workers : q \in Holds(v)' =>
                                  /\ worker'[v].row = q /\ worker'[v].phase \in {"sent", "failing"}
                                  /\ worker'[v].phase = "failing" => ledger'[q].status = "SENT"
    BY DEF OneMail, history
  <2>2. sends[q] \in {0, 1}
    BY DEF OneMail, ClaimInv
  <2>3. ASSUME sends[q] = 1 PROVE ledger'[q].status \in {"PROCESSING", "SENT"}
    <3>1. CASE q # r
      BY <1>4, <2>3, <3>1 DEF OneMail, ClaimInv
    <3>2. CASE q = r
      <4>1. worker[w].phase \in {"sent", "failing"} /\ (worker[w].phase = "failing" => ledger[q].status = "SENT")
        BY <1>2, <2>3, <3>2 DEF OneMail, ClaimInv
      <4>2. QED
        BY <1>4, <2>3, <3>2, <4>1 DEF OneMail, ClaimInv
    <3>3. QED
      BY <3>1, <3>2
  <2>4. ASSUME sends[q] = 1, NEW v \in Workers, q \in Holds(v)'
        PROVE  /\ worker'[v].row = q /\ worker'[v].phase \in {"sent", "failing"}
               /\ worker'[v].phase = "failing" => ledger'[q].status = "SENT"
    <3>1. q \in Holds(v) /\ q # r /\ ledger'[q] = ledger[q]
      BY <1>6, <2>4 DEF history
    <3>2. worker[v].row = q
      BY <2>4, <3>1 DEF OneMail, ClaimInv
    <3>3. v # w
      BY <3>1, <3>2
    <3>4. QED
      BY <1>3, <2>4, <3>1, <3>3 DEF OneMail, ClaimInv
  <2>5. QED
    BY <2>2, <2>3, <2>4
<1>9. QED
  BY <1>3, <1>5, <1>7, <1>8 DEF ClaimInv

(* Steps that change the ledger alone: fresh claims and recorded results    *)
(* stay as they are.                                                        *)
LEMMA LedgerStep ==
  ASSUME TypeOK, ClaimInv, UNCHANGED <<worker, sends, doubtful>>,
         slow \subseteq slow', AgedIsSlow',
         \A r \in Rows \ slow' :
           ledger[r].status \in {"PROCESSING", "SENT", "SKIPPED"}
             => ledger'[r].status = ledger[r].status
  PROVE  ClaimInv'
<1>1. \A w \in Workers : Holds(w)' = Holds(w) /\ Holds(w) \subseteq Rows
  BY DEF Holds, TypeOK, Run
<1>2. WorkerInv' /\ Alone'
  BY <1>1 DEF ClaimInv, WorkerInv, Alone
<1>3. FreshClaim'
  <2>1. SUFFICES ASSUME NEW w \in Workers, NEW r \in Holds(w) \ slow'
                 PROVE  (ledger[r].status \in
                           IF worker[w].phase = "failing" /\ r = worker[w].row
                           THEN {"PROCESSING", "SENT", "SKIPPED"} ELSE {"PROCESSING"})'
    BY <1>1 DEF FreshClaim
  <2>2. r \in Rows \ slow' /\ r \in Holds(w) \ slow
    BY <1>1
  <2>3. ledger[r].status \in
          IF worker[w].phase = "failing" /\ r = worker[w].row
          THEN {"PROCESSING", "SENT", "SKIPPED"} ELSE {"PROCESSING"}
    BY <2>2 DEF FreshClaim, ClaimInv
  <2>4. QED
    BY <2>2, <2>3
<1>4. OneMail'
  BY <1>1 DEF OneMail, ClaimInv
<1>5. QED
  BY <1>2, <1>3, <1>4 DEF ClaimInv

(* The passing of time and a manual retry.                                  *)
LEMMA RowStep ==
  ASSUME TypeOK, LockInv, ClaimInv, NEW r \in Rows, ComeDue(r) \/ Age(r) \/ Retry(r)
  PROVE  LockInv' /\ ClaimInv'
<1> USE DEF history, source
<1>1. \A q \in Rows \ {r} : ledger'[q] = ledger[q]
  BY DEF ComeDue, Age, Retry, TypeOK
<1>2. /\ ComeDue(r) => ledger'[r].status = ledger[r].status /\ ledger'[r].aged = ledger[r].aged
      /\ Age(r) => ledger'[r].status = ledger[r].status /\ ledger'[r].aged /\ r \in slow'
      /\ Retry(r) => /\ ledger[r].status = "FAILED" /\ ledger'[r].aged = ledger[r].aged
                     /\ ledger'[r].status = "PENDING"
  BY DEF ComeDue, Age, Retry, TypeOK, Reminder
<1>3. /\ UNCHANGED <<worker, sends, doubtful, rec>> /\ slow \subseteq slow'
  BY DEF ComeDue, Age, Retry
<1>4. AgedIsSlow'
  BY <1>1, <1>2, <1>3 DEF AgedIsSlow, ClaimInv
<1>5. ClaimInv'
  BY <1>1, <1>2, <1>3, <1>4, LedgerStep
<1>6. \A q \in Rows : Stray(ledger[q]) => Stray(ledger'[q])
  BY <1>1, <1>2 DEF Stray
<1>7. QED
  BY <1>3, <1>5, <1>6, LocksKept

-----------------------------------------------------------------------------
(* Reconciliations.                                                         *)

(* One that starts holds no row.                                            *)
LEMMA StartKeeps ==
  ASSUME TypeOK, LockInv, ClaimInv, NEW i \in Reconcilers, Start(i),
         UNCHANGED <<ledger, worker, history>>
  PROVE  LockInv' /\ ClaimInv'
<1> DEFINE n == [rec[i] EXCEPT !.stage = "start"]
<1>1. rec[i] \in Reconciliation /\ rec[i].held = {}
  BY DEF TypeOK, Start, LockInv
<1>2. n \in Reconciliation /\ n.held = {} /\ n.stage = "start"
  BY <1>1 DEF Reconciliation
<1>3. rec' = [rec EXCEPT ![i] = n]
  BY DEF Start, TypeOK
<1>4. LockInv'
  BY <1>2, <1>3, LocksChanged
<1>5. QED
  BY <1>4, CalmStep

(* One that ends without a commit gives its locks up.                       *)
LEMMA EndKeeps ==
  ASSUME TypeOK, LockInv, ClaimInv, NEW i \in Reconcilers,
         rec' = [rec EXCEPT ![i] = NoReconciliation],
         UNCHANGED <<ledger, worker, history>>
  PROVE  LockInv' /\ ClaimInv'
<1>1. LockInv'
  BY NoReconciliationFacts, LocksChanged
<1>2. QED
  BY <1>1, CalmStep

(* A row that was committed by a reconciliation: a reminder it cancels was  *)
(* not claimed, or claimed too long ago, and nothing else changes but the   *)
(* rows it inserts.                                                         *)
LEMMA CommitFacts ==
  ASSUME TypeOK, LockInv, NEW i \in Reconcilers, Commit(i), NEW r \in Rows
  PROVE  /\ ledger'[r].status # ledger[r].status =>
              /\ ledger[r].status = "absent" \/ Stray(ledger[r])
              /\ r \in rec[i].held
         /\ ledger'[r].aged => ledger[r].aged
         /\ ledger[r].status \in {"SENT", "SKIPPED", "CANCELLED"} => ledger'[r] = ledger[r]
         /\ r \notin rec[i].held => ledger'[r] = ledger[r]
<1>1. ledger'[r] = Written(i, r)
  BY DEF Commit
<1>2. ledger[r] \in Reminder
  BY DEF TypeOK
<1>3. CASE r \notin rec[i].held
  <2>1. ledger'[r] = ledger[r]
    BY <1>1, <1>3 DEF Written
  <2>2. QED
    BY <1>3, <2>1
<1>4. CASE r \in rec[i].held \ rec[i].desired
  <2>1. Stray(ledger[r])
    BY <1>4 DEF LockInv
  <2>2. ledger'[r] = [ledger[r] EXCEPT !.status = "CANCELLED", !.due = FALSE, !.aged = FALSE]
    BY <1>1, <1>4 DEF Written
  <2>3. ledger[r].status \notin {"SENT", "SKIPPED", "CANCELLED"}
    BY <2>1 DEF Stray
  <2>4. ledger'[r].aged = FALSE
    BY <1>2, <2>2 DEF Reminder
  <2>5. QED
    BY <1>4, <2>1, <2>3, <2>4
<1>5. CASE r \in rec[i].held /\ r \in rec[i].desired
  <2>1. ledger'[r] = IF ledger[r].status = "absent" THEN Pending ELSE ledger[r]
    BY <1>1, <1>5 DEF Written
  <2>2. ~Pending.aged
    BY DEF Pending, NewReminder
  <2>3. QED
    BY <1>5, <2>1, <2>2
<1>6. QED
  BY <1>3, <1>4, <1>5

LEMMA CommitKeeps ==
  ASSUME TypeOK, LockInv, ClaimInv, NEW i \in Reconcilers, Commit(i)
  PROVE  LockInv' /\ ClaimInv'
<1>1. UNCHANGED <<worker, sends, doubtful, slow>> /\ rec' = [rec EXCEPT ![i] = NoReconciliation]
  BY DEF Commit, history
<1>2. AgedIsSlow'
  BY <1>1, CommitFacts DEF AgedIsSlow, ClaimInv
<1>3. \A r \in Rows \ slow' :
        ledger[r].status \in {"PROCESSING", "SENT", "SKIPPED"}
          => ledger'[r].status = ledger[r].status
  BY <1>1, CommitFacts DEF Stray, AgedIsSlow, ClaimInv
<1>4. ClaimInv'
  BY <1>1, <1>2, <1>3, LedgerStep
<1>5. \A j \in Reconcilers \ {i} : \A r \in rec[j].held : ledger'[r] = ledger[r]
  <2>1. SUFFICES ASSUME NEW j \in Reconcilers \ {i}, NEW r \in rec[j].held
                 PROVE  ledger'[r] = ledger[r]
    OBVIOUS
  <2>2. r \in Rows /\ r \notin rec[i].held
    BY DEF TypeOK, Reconciliation, LockInv
  <2>3. QED
    BY <2>2, CommitFacts
<1>6. LockInv'
  BY <1>1, <1>5, NoReconciliationFacts, LocksChanged
<1>7. QED
  BY <1>4, <1>6

LEMMA ReconcileKeeps ==
  ASSUME TypeOK, LockInv, ClaimInv, NEW i \in Reconcilers, Reconcile(i)
  PROVE  LockInv' /\ ClaimInv'
<1>0. rec[i] \in Reconciliation
  BY DEF TypeOK
<1>1. ASSUME NEW n \in Reconciliation, Reconciling(i, n),
             \A j \in Reconcilers \ {i} : n.held \cap rec[j].held = {},
             n.stage \in {"idle", "start", "loaded"} => n.held = {},
             n.stage = "upsert" => n.todo \subseteq n.desired,
             \A r \in n.held \ n.desired : Stray(ledger[r])
      PROVE  LockInv' /\ ClaimInv'
  <2>1. UNCHANGED <<ledger, worker, history>> /\ rec' = [rec EXCEPT ![i] = n]
    BY <1>1 DEF Reconciling
  <2>2. LockInv'
    BY <1>1, <2>1, LocksChanged
  <2>3. QED
    BY <2>1, <2>2, CalmStep
<1>2. CASE LoadEvent(i)
  <2> DEFINE n == [rec[i] EXCEPT !.stage = "loaded", !.date = event]
  <2>1. n \in Reconciliation /\ n.held = {} /\ n.stage = "loaded"
    BY <1>0, <1>2 DEF LoadEvent, TypeOK, Reconciliation, LockInv
  <2>2. Reconciling(i, n)
    BY <1>2 DEF LoadEvent
  <2> HIDE DEF n
  <2>3. QED
    BY <1>1, <2>1, <2>2
<1>3. CASE LoadPreferences(i)
  <2> DEFINE d == SlotsFor(rec[i].date) \X audience
             n == [rec[i] EXCEPT !.stage = "upsert", !.desired = d, !.todo = d]
  <2>1. d \in SUBSET Rows
    BY <1>0, ScheduleAssumption DEF SlotsFor, Rows, TypeOK, Reconciliation
  <2>2. Reconciling(i, n) /\ rec[i].held = {}
    BY <1>3 DEF LoadPreferences, LockInv
  <2> HIDE DEF d
  <2>3. n \in Reconciliation /\ n.held = {} /\ n.stage = "upsert" /\ n.todo = n.desired
    BY <1>0, <2>1, <2>2 DEF Reconciliation
  <2> HIDE DEF n
  <2>4. QED
    BY <1>1, <2>2, <2>3
<1>4. CASE Upsert(i)
  <2>1. PICK r \in rec[i].todo :
          /\ ~HeldByOther(i, r)
          /\ Reconciling(i, [rec[i] EXCEPT !.todo = @ \ {r}, !.held = @ \cup {r}])
    BY <1>4 DEF Upsert, NextLocks
  <2> DEFINE n == [rec[i] EXCEPT !.todo = @ \ {r}, !.held = @ \cup {r}]
  <2>2. /\ n \in Reconciliation /\ n.stage = rec[i].stage /\ n.desired = rec[i].desired
        /\ n.todo = rec[i].todo \ {r} /\ n.held = rec[i].held \cup {r}
    BY <1>0 DEF Reconciliation
  <2>3. Reconciling(i, n)
    BY <2>1
  <2> HIDE DEF n
  <2>4. n.stage = "upsert" /\ n.todo \subseteq n.desired /\ r \in n.desired
    BY <1>4, <2>2 DEF Upsert, LockInv
  <2>5. \A q \in n.held \ n.desired : Stray(ledger[q])
    BY <2>2, <2>4 DEF LockInv
  <2>6. \A j \in Reconcilers \ {i} : n.held \cap rec[j].held = {}
    BY <2>1, <2>2 DEF LockInv, HeldByOther
  <2>7. QED
    BY <1>1, <2>2, <2>3, <2>4, <2>5, <2>6
<1>5. CASE BeginCancel(i)
  <2> DEFINE n == [rec[i] EXCEPT !.stage = "cancel",
                                 !.todo = {r \in Rows \ rec[i].desired : Stray(ledger[r])}]
  <2>1. n \in Reconciliation /\ n.stage = "cancel" /\ n.desired = rec[i].desired /\ n.held = rec[i].held
    BY <1>0 DEF Reconciliation
  <2>2. Reconciling(i, n)
    BY <1>5 DEF BeginCancel
  <2> HIDE DEF n
  <2>3. /\ \A q \in n.held \ n.desired : Stray(ledger[q])
        /\ \A j \in Reconcilers \ {i} : n.held \cap rec[j].held = {}
    BY <2>1 DEF LockInv
  <2>4. QED
    BY <1>1, <2>1, <2>2, <2>3
<1>6. CASE CancelStray(i)
  <2>1. PICK r \in rec[i].todo :
          /\ ~HeldByOther(i, r)
          /\ Reconciling(i, [rec[i] EXCEPT !.todo = @ \ {r},
                               !.held = IF Stray(ledger[r]) THEN @ \cup {r} ELSE @])
    BY <1>6 DEF CancelStray, NextLocks
  <2> DEFINE n == [rec[i] EXCEPT !.todo = @ \ {r},
                     !.held = IF Stray(ledger[r]) THEN @ \cup {r} ELSE @]
  <2>2. /\ n \in Reconciliation /\ n.stage = "cancel" /\ n.desired = rec[i].desired
        /\ n.held = IF Stray(ledger[r]) THEN rec[i].held \cup {r} ELSE rec[i].held
    BY <1>0, <1>6 DEF Reconciliation, CancelStray
  <2>3. Reconciling(i, n)
    BY <2>1
  <2> HIDE DEF n
  <2>4. \A q \in n.held \ n.desired : Stray(ledger[q])
    BY <2>2 DEF LockInv
  <2>5. \A j \in Reconcilers \ {i} : n.held \cap rec[j].held = {}
    BY <2>1, <2>2 DEF LockInv, HeldByOther
  <2>6. QED
    BY <1>1, <2>2, <2>3, <2>4, <2>5
<1>7. CASE Commit(i)
  BY <1>7, CommitKeeps
<1>8. CASE DeadlockVictim(i)
  BY <1>8, EndKeeps DEF DeadlockVictim, Reconciling
<1>9. QED
  BY <1>2, <1>3, <1>4, <1>5, <1>6, <1>7, <1>8 DEF Reconcile

-----------------------------------------------------------------------------
(* Workers.                                                                 *)

(* A batch that was claimed was held by nobody who claimed it recently.     *)
LEMMA ClaimedUnheld ==
  ASSUME TypeOK, ClaimInv, NEW r \in Rows, r \notin slow, NEW v \in Workers,
         Claimable(Recovered[r])
  PROVE  r \notin Holds(v) /\ Recovered[r] = ledger[r]
<1>1. r \notin Abandoned
  BY DEF Abandoned, ClaimInv, AgedIsSlow
<1>2. Recovered[r] = ledger[r]
  BY <1>1 DEF Recovered
<1>3. ledger[r].status \in {"PENDING", "FAILED"}
  BY <1>2 DEF Claimable
<1>4. QED
  BY <1>2, <1>3 DEF FreshClaim, ClaimInv

LEMMA ClaimKeeps ==
  ASSUME TypeOK, LockInv, ClaimInv, NEW w \in Workers, Claim(w)
  PROVE  LockInv' /\ ClaimInv'
<1>1. PICK b \in Batches(Recovered) :
        /\ ledger' = [r \in Rows |->
                        IF r \in b
                        THEN [status |-> "PROCESSING", attempts |-> Recovered[r].attempts + 1,
                              due |-> FALSE, aged |-> FALSE]
                        ELSE Recovered[r]]
        /\ worker' = [worker EXCEPT ![w] = IF b = {} THEN Idle
                                           ELSE [phase |-> "next", row |-> NoRow, left |-> b]]
  BY DEF Claim
<1>2. b \in SUBSET Rows /\ \A r \in b : Claimable(Recovered[r]) /\ ~Locked(r)
  BY DEF Batches
<1>3. /\ UNCHANGED <<rec, sends, doubtful, slow>> /\ worker[w] = Idle
      /\ \A r \in Abandoned : ~Locked(r)
  BY DEF Claim, history
<1>4. \A r \in Rows : r \notin Abandoned => Recovered[r] = ledger[r]
  BY DEF Recovered
<1>5. \A r \in Abandoned : r \in Rows /\ r \in slow /\ Recovered[r].status = "FAILED" /\ ~Recovered[r].aged
  BY DEF Abandoned, Recovered, ClaimInv, AgedIsSlow, TypeOK, Reminder
<1>6. /\ \A r \in b : ledger'[r].status = "PROCESSING" /\ ~ledger'[r].aged
      /\ \A r \in Rows \ (b \cup Abandoned) : ledger'[r] = ledger[r]
      /\ \A r \in Rows \ b : ledger'[r] = Recovered[r]
  BY <1>1, <1>2, <1>4
<1>7. LockInv'
  <2>1. \A r \in Rows : Locked(r) => ledger'[r] = ledger[r]
    BY <1>2, <1>3, <1>6
  <2>2. QED
    BY <1>3, <2>1, LocksKept
<1>8. AgedIsSlow'
  BY <1>3, <1>4, <1>5, <1>6 DEF AgedIsSlow, ClaimInv
<1>9. /\ worker'[w] = IF b = {} THEN Idle ELSE [phase |-> "next", row |-> NoRow, left |-> b]
      /\ \A v \in Workers \ {w} : worker'[v] = worker[v]
  BY <1>1 DEF TypeOK
<1>10. /\ worker'[w].row = NoRow /\ worker'[w].left = b
       /\ worker'[w].phase = IF b = {} THEN "idle" ELSE "next"
       /\ b = {} => worker'[w] = Idle
  BY <1>9 DEF Idle
<1>11. /\ Holds(w)' = b /\ \A v \in Workers \ {w} : Holds(v)' = Holds(v)
  BY <1>9, <1>10 DEF Holds
<1>12. WorkerInv'
  <2>1. NoRow \notin b
    BY <1>2, RowsAssumption
  <2>2. QED
    BY <1>9, <1>10, <2>1 DEF WorkerInv, ClaimInv
<1>13. \A r \in b \ slow : \A v \in Workers : r \notin Holds(v)
  BY <1>2, ClaimedUnheld
<1>14. Alone'
  BY <1>3, <1>11, <1>13 DEF Alone, ClaimInv
<1>15. \A v \in Workers : Holds(v) \subseteq Rows
  BY DEF Holds, TypeOK, Run
<1>16. FreshClaim'
  <2>1. SUFFICES ASSUME NEW v \in Workers, NEW r \in Holds(v)' \ slow'
                 PROVE  (ledger[r].status \in
                           IF worker[v].phase = "failing" /\ r = worker[v].row
                           THEN {"PROCESSING", "SENT", "SKIPPED"} ELSE {"PROCESSING"})'
    BY DEF FreshClaim
  <2>2. r \notin slow
    BY <1>3
  <2>3. CASE v = w
    BY <1>6, <1>11, <2>3
  <2>4. CASE v # w
    <3>1. r \in Holds(v) /\ worker'[v] = worker[v]
      BY <1>9, <1>11, <2>4
    <3>2. r \in Rows \ (b \cup Abandoned)
      BY <1>3, <1>5, <1>13, <1>15, <2>2, <3>1
    <3>3. QED
      BY <1>6, <2>2, <3>1, <3>2 DEF FreshClaim, ClaimInv
  <2>5. QED
    BY <2>3, <2>4
<1>17. OneMail'
  <2>1. SUFFICES ASSUME NEW r \in Rows \ (slow \cup doubtful)
                 PROVE  /\ sends[r] \in {0, 1}
                        /\ sends[r] = 1 =>
                             /\ ledger'[r].status \in {"PROCESSING", "SENT"}
                             /\ \A v \in Workers : r \in Holds(v)' =>
                                  /\ worker'[v].row = r /\ worker'[v].phase \in {"sent", "failing"}
                                  /\ worker'[v].phase = "failing" => ledger'[r].status = "SENT"
    BY <1>3 DEF OneMail
  <2>2. CASE r \in b
    <3>1. ledger[r].status \in {"PENDING", "FAILED"}
      BY <1>2, <1>4, <1>5, <2>2 DEF Claimable
    <3>2. QED
      BY <3>1 DEF OneMail, ClaimInv
  <2>3. CASE r \notin b
    <3>1. ledger'[r] = ledger[r]
      BY <1>5, <1>6, <2>3
    <3>2. \A v \in Workers : r \in Holds(v)' => v # w /\ r \in Holds(v) /\ worker'[v] = worker[v]
      BY <1>9, <1>11, <2>3
    <3>3. QED
      BY <3>1, <3>2 DEF OneMail, ClaimInv
  <2>4. QED
    BY <2>2, <2>3
<1>18. QED
  BY <1>7, <1>8, <1>12, <1>14, <1>16, <1>17 DEF ClaimInv


(* A claimed row that its worker has not come to, or only begun to check,   *)
(* has had no mail.                                                         *)
LEMMA NoMailYet ==
  ASSUME ClaimInv, NEW w \in Workers, NEW r \in Rows \ (slow \cup doubtful), r \in Holds(w),
         worker[w].row # r \/ worker[w].phase \notin {"sent", "failing"}
  PROVE  sends[r] = 0
  BY DEF ClaimInv, OneMail

LEMMA CheckKeeps ==
  ASSUME TypeOK, LockInv, ClaimInv, NEW w \in Workers, Check(w)
  PROVE  LockInv' /\ ClaimInv'
<1>1. PICK r \in worker[w].left :
        worker' = [worker EXCEPT ![w] = [phase |-> IF StillWanted(r) THEN "sending" ELSE "cancelling",
                                         row |-> r, left |-> worker[w].left \ {r}]]
  BY DEF Check, Become
<1> DEFINE n == [phase |-> IF StillWanted(r) THEN "sending" ELSE "cancelling",
                 row |-> r, left |-> worker[w].left \ {r}]
<1>2. worker[w] \in Run /\ worker[w].phase = "next" /\ worker[w].row = NoRow
  BY DEF Check, TypeOK, ClaimInv, WorkerInv
<1>3. r \in Rows /\ r # NoRow
  BY <1>2, RowsAssumption DEF Run
<1>4. /\ n \in Run /\ n.row = r /\ n.left = worker[w].left \ {r}
      /\ n.phase \in {"sending", "cancelling"}
  BY <1>2, <1>3 DEF Run
<1>5. worker' = [worker EXCEPT ![w] = n]
  BY <1>1
<1> HIDE DEF n
<1>6. UNCHANGED <<ledger, sends, doubtful, slow, rec>>
  BY DEF Check, history
<1>7. Holds(w) = worker[w].left /\ n.left \cup ({n.row} \ {NoRow}) = worker[w].left
  BY <1>2, <1>3, <1>4 DEF Holds
<1>8. /\ worker'[w] = n /\ Holds(w)' = Holds(w)
      /\ \A v \in Workers \ {w} : worker'[v] = worker[v] /\ Holds(v)' = Holds(v)
      /\ Alone' /\ WorkerInv'
  <2>1. /\ n.left \cup ({n.row} \ {NoRow}) \subseteq Holds(w) /\ n.row \notin n.left
        /\ n.phase = "idle" => n = Idle
        /\ n.phase = "next" <=> (n.row = NoRow /\ n.phase # "idle")
    BY <1>3, <1>4, <1>7
  <2>2. QED
    BY <1>4, <1>5, <1>6, <1>7, <2>1, HoldsLess
<1>9. FreshClaim'
  <2>1. SUFFICES ASSUME NEW v \in Workers, NEW q \in Holds(v) \ slow
                 PROVE  (ledger[q].status \in
                           IF worker[v].phase = "failing" /\ q = worker[v].row
                           THEN {"PROCESSING", "SENT", "SKIPPED"} ELSE {"PROCESSING"})'
    BY <1>6, <1>8 DEF FreshClaim
  <2>2. CASE v = w
    BY <1>2, <1>6, <2>2 DEF FreshClaim, ClaimInv
  <2>3. CASE v # w
    BY <1>6, <1>8, <2>3 DEF FreshClaim, ClaimInv
  <2>4. QED
    BY <2>2, <2>3
<1>10. OneMail'
  <2>1. SUFFICES ASSUME NEW q \in Rows \ (slow \cup doubtful)
                 PROVE  /\ sends[q] \in {0, 1}
                        /\ sends[q] = 1 =>
                             /\ ledger[q].status \in {"PROCESSING", "SENT"}
                             /\ \A v \in Workers : q \in Holds(v) =>
                                  /\ worker'[v].row = q /\ worker'[v].phase \in {"sent", "failing"}
                                  /\ worker'[v].phase = "failing" => ledger[q].status = "SENT"
    BY <1>6, <1>8 DEF OneMail
  <2>2. q \in Holds(w) => sends[q] = 0
    BY <1>2, NoMailYet
  <2>3. QED
    BY <1>8, <2>2 DEF OneMail, ClaimInv
<1>11. QED
  BY <1>6, <1>8, <1>9, <1>10, LocksKept DEF ClaimInv, AgedIsSlow

(* A worker that ends its run holds nothing any more.                       *)
LEMMA DropKeeps ==
  ASSUME TypeOK, LockInv, ClaimInv, NEW w \in Workers, Become(w, Idle),
         UNCHANGED <<ledger, rec, history>>
  PROVE  LockInv' /\ ClaimInv'
<1>1. Idle \in Run /\ Idle.left = {} /\ Idle.row = NoRow /\ Idle.phase = "idle"
  BY DEF Idle, Run
<1>2. worker' = [worker EXCEPT ![w] = Idle] /\ UNCHANGED <<sends, doubtful, slow>>
  BY DEF Become, history
<1>3. /\ worker'[w] = Idle /\ Holds(w)' = {}
      /\ \A v \in Workers \ {w} : worker'[v] = worker[v] /\ Holds(v)' = Holds(v)
      /\ Alone' /\ WorkerInv'
  <2>1. Idle.left \cup ({Idle.row} \ {NoRow}) = {}
    BY <1>1
  <2>2. /\ Idle.row \notin Idle.left
        /\ Idle.phase = "next" <=> (Idle.row = NoRow /\ Idle.phase # "idle")
    BY <1>1
  <2>3. QED
    BY <1>1, <1>2, <2>1, <2>2, HoldsLess
<1>4. FreshClaim' /\ OneMail' /\ AgedIsSlow'
  BY <1>2, <1>3 DEF FreshClaim, OneMail, AgedIsSlow, ClaimInv
<1>5. QED
  BY <1>3, <1>4, LocksKept DEF ClaimInv

(* A worker that enters another phase of handling its row holds the same    *)
(* rows.                                                                    *)
LEMMA EnterFacts ==
  ASSUME TypeOK, ClaimInv, NEW w \in Workers, NEW p \in {"sent", "skipped", "failing"},
         worker[w].phase \notin {"idle", "next"}, Enter(w, p), slow' = slow
  PROVE  /\ worker[w].row \in Rows /\ worker[w].row \in Holds(w)
         /\ worker'[w].phase = p /\ worker'[w].row = worker[w].row
         /\ \A v \in Workers \ {w} : worker'[v] = worker[v]
         /\ \A v \in Workers : Holds(v)' = Holds(v) /\ Holds(v) \subseteq Rows
         /\ Alone' /\ WorkerInv'
<1> DEFINE n == [worker[w] EXCEPT !.phase = p]
<1>1. worker[w] \in Run /\ worker[w].row \in Rows
  BY HandledRow DEF TypeOK, ClaimInv
<1>2. worker[w].row # NoRow /\ worker[w].row \notin worker[w].left
  BY <1>1, RowsAssumption DEF ClaimInv, WorkerInv
<1>3. n \in Run /\ n.phase = p /\ n.row = worker[w].row /\ n.left = worker[w].left
  BY <1>1 DEF Run
<1>4. worker' = [worker EXCEPT ![w] = n]
  BY DEF Enter, Become
<1> HIDE DEF n
<1>5. Holds(w) = n.left \cup ({n.row} \ {NoRow}) /\ worker[w].row \in Holds(w)
  BY <1>2, <1>3 DEF Holds
<1>6. /\ worker'[w] = n /\ Holds(w)' = Holds(w)
      /\ \A v \in Workers \ {w} : worker'[v] = worker[v] /\ Holds(v)' = Holds(v)
      /\ Alone' /\ WorkerInv'
  BY <1>2, <1>3, <1>4, <1>5, HoldsLess
<1>7. \A v \in Workers : Holds(v) \subseteq Rows
  BY DEF Holds, TypeOK, Run
<1>8. QED
  BY <1>1, <1>3, <1>5, <1>6, <1>7

(* Steps after which the worker still handles its row: claims stay fresh    *)
(* and apart if the row's status, its mails and the phase agree.            *)
LEMMA EnterKeeps ==
  ASSUME TypeOK, ClaimInv, NEW w \in Workers, NEW p \in {"sent", "skipped", "failing"},
         worker[w].phase \notin {"idle", "next"}, Enter(w, p), slow' = slow, AgedIsSlow',
         \A q \in Rows \ {worker[w].row} : ledger'[q] = ledger[q] /\ sends'[q] = sends[q],
         doubtful \subseteq doubtful' /\ doubtful' \subseteq doubtful \cup {worker[w].row},
         worker[w].row \notin slow =>
           ledger'[worker[w].row].status \in
             IF p = "failing" THEN {"PROCESSING", "SENT", "SKIPPED"} ELSE {"PROCESSING"},
         worker[w].row \notin slow \cup doubtful' =>
           /\ sends'[worker[w].row] \in {0, 1}
           /\ sends'[worker[w].row] = 1 =>
                /\ p \in {"sent", "failing"}
                /\ ledger'[worker[w].row].status = IF p = "failing" THEN "SENT" ELSE "PROCESSING"
  PROVE  ClaimInv'
<1> DEFINE r == worker[w].row
<1>1. /\ r \in Rows /\ r \in Holds(w)
      /\ worker'[w].phase = p /\ worker'[w].row = r
      /\ \A v \in Workers \ {w} : worker'[v] = worker[v]
      /\ \A v \in Workers : Holds(v)' = Holds(v) /\ Holds(v) \subseteq Rows
      /\ Alone' /\ WorkerInv'
  BY EnterFacts
<1>2. r \notin slow => \A v \in Workers \ {w} : r \notin Holds(v)
  BY <1>1 DEF Alone, ClaimInv
<1>3. FreshClaim'
  <2>1. SUFFICES ASSUME NEW v \in Workers, NEW q \in Holds(v) \ slow
                 PROVE  (ledger[q].status \in
                           IF worker[v].phase = "failing" /\ q = worker[v].row
                           THEN {"PROCESSING", "SENT", "SKIPPED"} ELSE {"PROCESSING"})'
    BY <1>1 DEF FreshClaim
  <2>2. q \in Rows
    BY <1>1
  <2>3. CASE q = r
    BY <1>1, <1>2, <2>3
  <2>4. CASE q # r /\ v = w
    <3>1. ledger[q].status = "PROCESSING"
      BY <2>4 DEF FreshClaim, ClaimInv
    <3>2. QED
      BY <2>2, <2>4, <3>1
  <2>5. CASE q # r /\ v # w
    BY <1>1, <2>2, <2>5 DEF FreshClaim, ClaimInv
  <2>6. QED
    BY <2>3, <2>4, <2>5
<1>4. OneMail'
  <2>1. SUFFICES ASSUME NEW q \in Rows \ (slow \cup doubtful')
                 PROVE  /\ sends'[q] \in {0, 1}
                        /\ sends'[q] = 1 =>
                             /\ ledger'[q].status \in {"PROCESSING", "SENT"}
                             /\ \A v \in Workers : q \in Holds(v) =>
                                  /\ worker'[v].row = q /\ worker'[v].phase \in {"sent", "failing"}
                                  /\ worker'[v].phase = "failing" => ledger'[q].status = "SENT"
    BY <1>1 DEF OneMail
  <2>2. CASE q = r
    BY <1>1, <1>2, <2>2
  <2>3. CASE q # r
    <3>1. q \in Holds(w) => sends[q] = 0
      BY <2>3, NoMailYet
    <3>2. QED
      BY <1>1, <2>3, <3>1 DEF OneMail, ClaimInv
  <2>4. QED
    BY <2>2, <2>3
<1>5. QED
  BY <1>1, <1>3, <1>4 DEF ClaimInv

LEMMA SendKeeps ==
  ASSUME TypeOK, LockInv, ClaimInv, NEW w \in Workers, Send(w)
  PROVE  LockInv' /\ ClaimInv'
<1> DEFINE r == worker[w].row
<1>0. worker[w].phase = "sending" /\ UNCHANGED <<ledger, rec, slow>>
  BY DEF Send, source
<1>1. r \in Rows /\ worker[w].row # NoRow /\ r \in Holds(w)
  BY <1>0, HandledRow, RowsAssumption DEF ClaimInv, Holds
<1>2. r \notin slow => ledger[r].status = "PROCESSING"
  BY <1>0, <1>1 DEF FreshClaim, ClaimInv
<1>3. r \notin slow \cup doubtful => sends[r] = 0
  BY <1>0, <1>1, NoMailYet
<1>4. AgedIsSlow' /\ LockInv'
  BY <1>0, LocksKept DEF AgedIsSlow, ClaimInv
<1>5. /\ Accepted(r) => /\ \A q \in Rows \ {r} : sends'[q] = sends[q]
                        /\ sends'[r] = sends[r] + 1
  BY <1>1 DEF Accepted, TypeOK
<1>6. CASE Accepted(r) /\ Enter(w, "sent") /\ UNCHANGED <<faults, doubtful>>
  <2>1. \A q \in Rows \ {r} : ledger'[q] = ledger[q] /\ sends'[q] = sends[q]
    BY <1>0, <1>5, <1>6
  <2>2. r \notin slow \cup doubtful' => sends'[r] = 1
    BY <1>3, <1>5, <1>6
  <2>3. QED
    BY <1>0, <1>2, <1>4, <1>6, <2>1, <2>2, EnterKeeps
<1>7. ASSUME NEW p \in {"skipped", "failing"}, Enter(w, p), UNCHANGED <<faults, sends, doubtful>>
      PROVE  ClaimInv'
  <2>1. r \notin slow \cup doubtful' => sends'[r] = 0
    BY <1>3, <1>7
  <2>2. QED
    BY <1>0, <1>2, <1>4, <1>7, <2>1, EnterKeeps
<1>8. CASE Accepted(r) /\ Enter(w, "failing") /\ doubtful' = doubtful \cup {r}
  <2>1. \A q \in Rows \ {r} : ledger'[q] = ledger[q] /\ sends'[q] = sends[q]
    BY <1>0, <1>5, <1>8
  <2>2. QED
    BY <1>0, <1>2, <1>4, <1>8, <2>1, EnterKeeps
<1>9. QED
  BY <1>4, <1>6, <1>7, <1>8 DEF Send

LEMMA RecordKeeps ==
  ASSUME TypeOK, LockInv, ClaimInv, NEW w \in Workers, Record(w)
  PROVE  LockInv' /\ ClaimInv'
<1> DEFINE r == worker[w].row
<1>0. /\ worker[w].phase \in {"sent", "skipped"} /\ UNCHANGED <<rec, sends, slow>> /\ ~Locked(r)
      /\ Outcome(w) \in {"SENT", "SKIPPED"} /\ (worker[w].phase = "sent" => Outcome(w) = "SENT")
  BY DEF Record, source, Outcome
<1>1. r \in Rows /\ worker[w].row # NoRow /\ r \in Holds(w)
  BY <1>0, HandledRow, RowsAssumption DEF ClaimInv, Holds
<1>2. r \notin slow => ledger[r].status = "PROCESSING"
  BY <1>0, <1>1 DEF FreshClaim, ClaimInv
<1>3. r \notin slow \cup doubtful =>
        sends[r] \in {0, 1} /\ (sends[r] = 1 => worker[w].phase = "sent")
  BY <1>0, <1>1 DEF OneMail, ClaimInv
<1>4. CASE ledger' = Close(r, Outcome(w)) /\ Become(w, Resume(worker[w].left)) /\ UNCHANGED doubtful
  <2>1. Resume(worker[w].left) \in Run
    BY ResumeType DEF TypeOK, Run
  <2>2. ClaimInv'
    BY <1>0, <1>1, <1>4, <2>1, GiveUpRow DEF Become, history
  <2>3. QED
    BY <1>0, <1>1, <1>4, <2>2, CloseKeepsLocks
<1>5. CASE ledger' = Close(r, Outcome(w)) /\ Enter(w, "failing") /\ UNCHANGED doubtful
  <2>1. /\ \A q \in Rows \ {r} : ledger'[q] = ledger[q]
        /\ ledger[r].status # "PROCESSING" => ledger'[r] = ledger[r]
        /\ ledger[r].status = "PROCESSING" => ledger'[r].status = Outcome(w) /\ ~ledger'[r].aged
    BY <1>0, <1>1, <1>5, CloseFacts
  <2>2. AgedIsSlow'
    BY <1>0, <2>1 DEF AgedIsSlow, ClaimInv
  <2>3. ClaimInv'
    <3>1. r \notin slow => ledger'[r].status \in {"SENT", "SKIPPED"}
      BY <1>0, <1>2, <2>1
    <3>2. r \notin slow \cup doubtful' =>
            sends'[r] \in {0, 1} /\ (sends'[r] = 1 => ledger'[r].status = "SENT")
      BY <1>0, <1>2, <1>3, <1>5, <2>1
    <3>3. QED
      BY <1>0, <1>5, <2>1, <2>2, <3>1, <3>2, EnterKeeps
  <2>4. QED
    BY <1>0, <1>1, <1>5, <2>3, CloseKeepsLocks
<1>6. CASE Enter(w, "failing") /\ doubtful' = doubtful \cup {r} /\ UNCHANGED ledger
  <2>1. AgedIsSlow' /\ LockInv'
    BY <1>0, <1>6, LocksKept DEF AgedIsSlow, ClaimInv
  <2>2. ClaimInv'
    BY <1>0, <1>2, <1>6, <2>1, EnterKeeps
  <2>3. QED
    BY <2>1, <2>2
<1>7. QED
  BY <1>4, <1>5, <1>6 DEF Record

LEMMA WorkKeeps ==
  ASSUME TypeOK, LockInv, ClaimInv, NEW w \in Workers, Work(w)
  PROVE  LockInv' /\ ClaimInv'
<1>0. worker[w] \in Run /\ Idle \in Run /\ Resume(worker[w].left) \in Run
  BY ResumeType DEF TypeOK, Run, Idle
<1>1. CASE CancelRow(w)
  <2>1. /\ worker[w].phase = "cancelling" /\ worker[w].row \in Rows /\ ~Locked(worker[w].row)
        /\ ledger' = Close(worker[w].row, "CANCELLED") /\ UNCHANGED <<rec, history>>
        /\ worker' = [worker EXCEPT ![w] = Resume(worker[w].left)]
    BY <1>1, HandledRow DEF CancelRow, Become, ClaimInv
  <2>2. ClaimInv'
    BY <1>0, <2>1, GiveUpRow
  <2>3. QED
    BY <2>1, <2>2, CloseKeepsLocks
<1>2. CASE MarkFailure(w)
  <2>1. /\ worker[w].phase = "failing" /\ worker[w].row \in Rows /\ ~Locked(worker[w].row)
        /\ UNCHANGED <<rec, history>>
    BY <1>2, HandledRow DEF MarkFailure, ClaimInv
  <2>2. CASE ledger' = Close(worker[w].row, "FAILED")
    <3>1. PICK n \in {Idle, Resume(worker[w].left)} : worker' = [worker EXCEPT ![w] = n]
      BY <1>2 DEF MarkFailure, Become
    <3>2. ClaimInv'
      BY <1>0, <2>1, <2>2, <3>1, GiveUpRow
    <3>3. QED
      BY <2>1, <2>2, <3>2, CloseKeepsLocks
  <2>3. CASE UNCHANGED ledger /\ Become(w, Idle)
    BY <2>1, <2>3, DropKeeps
  <2>4. QED
    BY <1>2, <2>2, <2>3 DEF MarkFailure
<1>3. QED
  BY <1>1, <1>2, CheckKeeps, SendKeeps, RecordKeeps DEF Work

-----------------------------------------------------------------------------
(* The invariant.                                                           *)

LEMMA InvStep == IInv /\ [Next]_vars => IInv'
<1> SUFFICES ASSUME TypeOK, LockInv, ClaimInv, [Next]_vars PROVE LockInv' /\ ClaimInv'
  BY TypeStep DEF IInv, ClaimInv
<1> USE DEF source
<1>1. ASSUME NEW i \in Reconcilers, Start(i), UNCHANGED <<ledger, worker, history>>
      PROVE  LockInv' /\ ClaimInv'
  BY <1>1, StartKeeps
<1>2. ASSUME NEW i \in Reconcilers, Abort(i) PROVE LockInv' /\ ClaimInv'
  BY <1>2, EndKeeps DEF Abort
<1>3. ASSUME NEW i \in Reconcilers, NEW e \in Dates \cup {Cancelled}, ChangeEvent(i, e)
      PROVE  LockInv' /\ ClaimInv'
  BY <1>1, <1>3 DEF ChangeEvent
<1>4. ASSUME NEW i \in Reconcilers, NEW a \in SUBSET Recipients, ChangePreferences(i, a)
      PROVE  LockInv' /\ ClaimInv'
  BY <1>1, <1>4 DEF ChangePreferences
<1>5. ASSUME NEW i \in Reconcilers, Sweep(i) PROVE LockInv' /\ ClaimInv'
  BY <1>1, <1>5 DEF Sweep
<1>6. ASSUME UNCHANGED <<ledger, worker, rec, history>> PROVE LockInv' /\ ClaimInv'
  BY <1>6, CalmStep, LocksKept
<1>7. ASSUME NEW w \in Workers, RunThrows(w) \/ Crash(w) PROVE LockInv' /\ ClaimInv'
  BY <1>7, DropKeeps DEF RunThrows, Crash
<1>8. CASE UNCHANGED vars
  BY <1>6, <1>8 DEF vars
<1>9. ASSUME NEW a \in SUBSET Recipients, ChangeUsers(a) PROVE LockInv' /\ ClaimInv'
  BY <1>6, <1>9 DEF ChangeUsers
<1>10. ASSUME NEW s \in Slots, Passes(s) PROVE LockInv' /\ ClaimInv'
  BY <1>6, <1>10 DEF Passes
<1>11. QED
  BY <1>2, <1>3, <1>4, <1>5, <1>7, <1>8, <1>9, <1>10,
     RowStep, ReconcileKeeps, ClaimKeeps, WorkKeeps DEF Next

LEMMA Invariance == Spec => []IInv
<1>1. Init => IInv
  BY InitTypes, InitInv DEF IInv, ClaimInv
<1>2. QED
  BY <1>1, InvStep, PTL DEF Spec

(* Every variable stays in its domain, and no reminder is claimed more than *)
(* MaxAttempts times (claimBatch).                                          *)
THEOREM TypeCorrect == Spec => []TypeOK
<1>1. IInv => TypeOK
  BY DEF IInv
<1>2. QED
  BY <1>1, Invariance, PTL

(* Whatever the servers and the reconciliations do, a claim that is younger *)
(* than fifteen minutes is its worker's alone (claimBatch, processRow,      *)
(* reconcileEventReminders).                                                *)
THEOREM Exclusive == Spec => []ClaimIsExclusive
<1>1. IInv => ClaimIsExclusive
  BY DEF IInv, ClaimIsExclusive, FreshClaim, Alone
<1>2. QED
  BY <1>1, Invariance, PTL

(* A reminder is mailed a second time only after a claim of it grew older   *)
(* than fifteen minutes or a mail of it went out unrecorded (processRow,    *)
(* markFailure).                                                            *)
THEOREM DuplicatesHaveACause == Spec => []DuplicatesExplained
<1>1. IInv => DuplicatesExplained
  BY DEF IInv, DuplicatesExplained, OneMail
<1>2. QED
  BY <1>1, Invariance, PTL

(* A reminder that was sent, skipped or cancelled is never touched again    *)
(* (the status tests of claimBatch, processRow, markFailure,                *)
(* retryEventReminders and reconcileEventReminders).                        *)
THEOREM SettledForGood == Spec => SettledIsFinal
<1> DEFINE Final(r) == ledger[r].status \in {"SENT", "SKIPPED", "CANCELLED"} => ledger'[r] = ledger[r]
<1>1. IInv /\ [Next]_vars => \A r \in Rows : Final(r)
  <2> SUFFICES ASSUME TypeOK, LockInv, ClaimInv, [Next]_vars, NEW r \in Rows,
                      ledger[r].status \in {"SENT", "SKIPPED", "CANCELLED"}
               PROVE  ledger'[r] = ledger[r]
    BY DEF IInv, ClaimInv
  <2> USE DEF source
  <2>1. ASSUME UNCHANGED ledger PROVE ledger'[r] = ledger[r]
    BY <2>1
  <2>2. ASSUME NEW q \in Rows, ComeDue(q) \/ Age(q) \/ Retry(q) PROVE ledger'[r] = ledger[r]
    BY <2>2 DEF ComeDue, Age, Retry, TypeOK
  <2>3. ASSUME NEW q \in Rows, NEW s \in {"SENT", "SKIPPED", "FAILED", "CANCELLED"},
               ledger' = Close(q, s)
        PROVE  ledger'[r] = ledger[r]
    BY <2>3, CloseFacts
  <2>4. ASSUME NEW w \in Workers, Claim(w) PROVE ledger'[r] = ledger[r]
    <3>1. r \notin Abandoned
      BY DEF Abandoned
    <3>2. Recovered[r] = ledger[r] /\ ~Claimable(Recovered[r])
      BY <3>1 DEF Recovered, Claimable
    <3>3. QED
      BY <2>4, <3>2 DEF Claim, Batches
  <2>5. ASSUME NEW w \in Workers, Work(w) PROVE ledger'[r] = ledger[r]
    <3>1. worker[w].phase \notin {"idle", "next"} => worker[w].row \in Rows
      BY HandledRow DEF ClaimInv
    <3>2. CASE CancelRow(w) \/ Record(w) \/ MarkFailure(w)
      BY <2>1, <2>3, <3>1, <3>2 DEF CancelRow, Record, MarkFailure, Outcome
    <3>3. QED
      BY <2>1, <2>5, <3>2 DEF Work, Check, Send
  <2>6. ASSUME NEW i \in Reconcilers, Reconcile(i) PROVE ledger'[r] = ledger[r]
    BY <2>1, <2>6, CommitFacts
       DEF Reconcile, LoadEvent, LoadPreferences, Upsert, BeginCancel, CancelStray,
           DeadlockVictim, Reconciling
  <2>7. CASE UNCHANGED vars
    BY <2>7 DEF vars
  <2>8. QED
    BY <2>1, <2>2, <2>4, <2>5, <2>6, <2>7
       DEF Next, ChangeEvent, ChangePreferences, ChangeUsers, Passes, Sweep, Abort,
           RunThrows, Crash
<1>2. IInv /\ [Next]_vars => [\A r \in Rows : Final(r)]_vars
  BY <1>1
<1>3. QED
  BY <1>2, Invariance, PTL DEF Spec, SettledIsFinal
=============================================================================
