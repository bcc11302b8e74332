---------------------------- MODULE EventReminders ----------------------------
(***************************************************************************)
(* The reminder engine of the compliance calendar                          *)
(* (eventReminder.service.js, eventReminderScheduler.service.js): the      *)
(* ledger of one event's reminders.  Edits of the event or of its          *)
(* preferences start reconciliations that insert the reminders now wanted  *)
(* and cancel the others; the scheduler of every server claims due         *)
(* reminders in batches, checks each against the event and sends it.       *)
(* Workers crash, are slow and lose statements; reconciliations overlap.   *)
(***************************************************************************)
EXTENDS Naturals, FiniteSets

CONSTANTS
  Workers,      \* servers that run the scheduler
  Reconcilers,  \* bound: reconciliations under way at once
  Dates,        \* dates the event may have
  Cancelled,    \* the event has no date, or is completed, cancelled or deleted
  Slots,        \* (reminder type, scheduled_at) pairs
  ScheduleOf,   \* calculateReminderSchedule: the slots of a date
  Recipients,   \* (channel, recipient_key) pairs
  BatchSize,    \* reminders claimed at once
  MaxAttempts,  \* claims of one reminder
  NoRow,        \* no reminder is being handled
  Moves,        \* bound: changes of the event
  Edits,        \* bound: saved preferences and manual retries
  Faults        \* bound: crashes, failed statements, unannounced changes

Rows == Slots \X Recipients

ASSUME BoundsAssumption ==
  /\ BatchSize \in Nat \ {0} /\ MaxAttempts \in Nat \ {0}
  /\ Moves \in Nat /\ Edits \in Nat /\ Faults \in Nat
ASSUME ScheduleAssumption ==
  /\ ScheduleOf \in [Dates -> SUBSET Slots] /\ Cancelled \notin Dates
ASSUME RowsAssumption == NoRow \notin Rows /\ IsFiniteSet(Rows)

VARIABLES
  event,     \* the date of the event, or Cancelled
  audience,  \* who is to be reminded
  over,      \* slots whose usefulness has passed
  ledger,    \* event_reminders
  worker,    \* the scheduler run of a server
  rec,       \* reconciliations
  moves,     \* changes of the event still to come
  edits,     \* preferences saves and retries still to come
  faults,    \* faults still to come
  sends,     \* history: mails accepted for a reminder
  doubtful,  \* history: reminders with a mail that went out unrecorded
  slow       \* history: reminders with a claim older than fifteen minutes

source == <<event, audience, over, moves, edits>>
history == <<sends, doubtful, slow>>
vars == <<source, ledger, worker, rec, faults, history>>

NewReminder(status) == [status |-> status, attempts |-> 0, due |-> FALSE, aged |-> FALSE]
Absent == NewReminder("absent")
Pending == NewReminder("PENDING")
Idle == [phase |-> "idle", row |-> NoRow, left |-> {}]
NoReconciliation == [stage |-> "idle", date |-> Cancelled, desired |-> {}, todo |-> {}, held |-> {}]

Fault == faults > 0 /\ faults' = faults - 1

\* Rows that an uncommitted reconciliation has inserted or locked.
Locked(r) == \E i \in Reconcilers : r \in rec[i].held

-----------------------------------------------------------------------------
(* The event, its preferences and the passing of time.                      *)

Start(i) ==
  /\ rec[i].stage = "idle"
  /\ rec' = [rec EXCEPT ![i].stage = "start"]

\* The event is moved, closed or reopened and its reconciliation is queued.
ChangeEvent(i, e) ==
  /\ moves > 0 /\ moves' = moves - 1
  /\ event' = e /\ e # event
  /\ Start(i)
  /\ UNCHANGED <<audience, over, edits, ledger, worker, faults, history>>

\* Preferences are saved and reconciled.
ChangePreferences(i, a) ==
  /\ edits > 0 /\ edits' = edits - 1
  /\ audience' = a /\ a # audience
  /\ Start(i)
  /\ UNCHANGED <<event, over, moves, ledger, worker, faults, history>>

\* A user is deactivated or loses the site: nothing is reconciled.
ChangeUsers(a) ==
  /\ Fault
  /\ audience' = a /\ a # audience
  /\ UNCHANGED <<event, over, moves, edits, ledger, worker, rec, history>>

\* usefulUntil passes.
Passes(s) ==
  /\ over' = over \cup {s} /\ s \notin over
  /\ UNCHANGED <<event, audience, moves, edits, ledger, worker, rec, faults, history>>

\* next_attempt_at and scheduled_at pass.
ComeDue(r) ==
  /\ ledger[r].status \in {"PENDING", "FAILED"} /\ ~ledger[r].due
  /\ ledger' = [ledger EXCEPT ![r].due = TRUE]
  /\ UNCHANGED <<source, worker, rec, faults, history>>

\* Fifteen minutes pass since last_attempt_at.
Age(r) ==
  /\ ledger[r].status = "PROCESSING" /\ ~ledger[r].aged
  /\ ledger' = [ledger EXCEPT ![r].aged = TRUE]
  /\ slow' = slow \cup {r}
  /\ UNCHANGED <<source, worker, rec, faults, sends, doubtful>>

-----------------------------------------------------------------------------
(* The scheduler: claimBatch and processRow.                                *)

\* Mutant: no claim is taken back from a worker that died.
AbandonedKept == {}

\* Mutant: claims are taken back without looking at their age.
AbandonedAtOnce == {r \in Rows : ledger[r].status = "PROCESSING"}

Abandoned == {r \in Rows : ledger[r].status = "PROCESSING" /\ ledger[r].aged}

\* The ledger after the claims of workers that died are given back.
Recovered ==
  [r \in Rows |-> IF r \in Abandoned
                  THEN [ledger[r] EXCEPT !.status = "FAILED", !.due = TRUE, !.aged = FALSE]
                  ELSE ledger[r]]

Claimable(row) ==
  row.status \in {"PENDING", "FAILED"} /\ row.attempts < MaxAttempts /\ row.due

\* A full batch of the claimable rows; which are oldest is left open.
Batches(l) ==
  LET open == {r \in Rows : Claimable(l[r]) /\ ~Locked(r)}
  IN {b \in SUBSET open : b = open \/ Cardinality(b) = BatchSize}

Claim(w) ==
  /\ worker[w] = Idle
  /\ \A r \in Abandoned : ~Locked(r)
  /\ \E b \in Batches(Recovered) :
       /\ Cardinality(b) <= BatchSize /\ b \cup Abandoned # {}
       /\ ledger' = [r \in Rows |->
                       IF r \in b
                       THEN [status |-> "PROCESSING", attempts |-> Recovered[r].attempts + 1,
                             due |-> FALSE, aged |-> FALSE]
                       ELSE Recovered[r]]
       /\ worker' = [worker EXCEPT ![w] = IF b = {} THEN Idle
                                          ELSE [phase |-> "next", row |-> NoRow, left |-> b]]
  /\ UNCHANGED <<source, rec, faults, history>>

Resume(left) == IF left = {} THEN Idle ELSE [phase |-> "next", row |-> NoRow, left |-> left]
Become(w, next) == worker' = [worker EXCEPT ![w] = next]
Enter(w, phase) == Become(w, [worker[w] EXCEPT !.phase = phase])

\* Mutant: the UPDATE is not limited to rows still PROCESSING.
CloseAlways(r, status) ==
  [ledger EXCEPT ![r] = [@ EXCEPT !.status = status, !.due = FALSE, !.aged = FALSE]]

\* Every UPDATE of the worker is limited to rows still PROCESSING.
Close(r, status) ==
  IF ledger[r].status = "PROCESSING"
  THEN [ledger EXCEPT ![r] = [@ EXCEPT !.status = status, !.due = FALSE, !.aged = FALSE]]
  ELSE ledger

\* The event is loaded and the row's slot compared with its schedule.
StillWanted(r) == event # Cancelled /\ r[1] \in ScheduleOf[event] \ over

Check(w) ==
  /\ worker[w].phase = "next"
  /\ \E r \in worker[w].left :
       Become(w, [phase |-> IF StillWanted(r) THEN "sending" ELSE "cancelling",
                  row |-> r, left |-> worker[w].left \ {r}])
  /\ UNCHANGED <<source, ledger, rec, faults, history>>

CancelRow(w) ==
  /\ worker[w].phase = "cancelling" /\ ~Locked(worker[w].row)
  /\ ledger' = Close(worker[w].row, "CANCELLED")
  /\ Become(w, Resume(worker[w].left))
  /\ UNCHANGED <<source, rec, faults, history>>

Accepted(r) == sends' = [sends EXCEPT ![r] = @ + 1]

Send(w) ==
  /\ worker[w].phase = "sending"
  /\ \/ Accepted(worker[w].row) /\ Enter(w, "sent") /\ UNCHANGED <<faults, doubtful>>
     \/ Enter(w, "skipped") /\ UNCHANGED <<faults, sends, doubtful>>
     \/ Enter(w, "failing") /\ UNCHANGED <<faults, sends, doubtful>>
     \/ /\ Fault                           \* accepted, but the answer is lost
        /\ Accepted(worker[w].row) /\ Enter(w, "failing")
        /\ doubtful' = doubtful \cup {worker[w].row}
  /\ UNCHANGED <<source, ledger, rec, slow>>

Outcome(w) == IF worker[w].phase = "sent" THEN "SENT" ELSE "SKIPPED"

Record(w) ==
  /\ worker[w].phase \in {"sent", "skipped"} /\ ~Locked(worker[w].row)
  /\ \/ /\ ledger' = Close(worker[w].row, Outcome(w))
        /\ Become(w, Resume(worker[w].left))
        /\ UNCHANGED <<faults, doubtful>>
     \/ /\ Fault                           \* the audit row fails
        /\ ledger' = Close(worker[w].row, Outcome(w))
        /\ Enter(w, "failing") /\ UNCHANGED doubtful
     \/ /\ Fault                           \* the UPDATE fails
        /\ Enter(w, "failing")
        /\ doubtful' = doubtful \cup {worker[w].row} /\ UNCHANGED ledger
  /\ UNCHANGED <<source, rec, sends, slow>>

\* markFailure and its audit row; an error here ends the whole run.
MarkFailure(w) ==
  /\ worker[w].phase = "failing" /\ ~Locked(worker[w].row)
  /\ \/ ledger' = Close(worker[w].row, "FAILED") /\ Become(w, Resume(worker[w].left)) /\ UNCHANGED faults
     \/ Fault /\ ledger' = Close(worker[w].row, "FAILED") /\ Become(w, Idle)
     \/ Fault /\ UNCHANGED ledger /\ Become(w, Idle)
  /\ UNCHANGED <<source, rec, history>>

\* An error outside the try block ends the run; the rest stays PROCESSING.
RunThrows(w) ==
  /\ worker[w].phase \in {"next", "cancelling"}
  /\ Fault /\ Become(w, Idle)
  /\ UNCHANGED <<source, ledger, rec, history>>

Crash(w) ==
  /\ worker[w] # Idle
  /\ Fault /\ Become(w, Idle)
  /\ UNCHANGED <<source, ledger, rec, history>>

\* retryEventReminders.
Retry(r) ==
  /\ edits > 0 /\ edits' = edits - 1
  /\ ledger[r].status = "FAILED" /\ ledger[r].attempts < MaxAttempts /\ ~Locked(r)
  /\ ledger' = [ledger EXCEPT ![r].status = "PENDING", ![r].due = TRUE]
  /\ UNCHANGED <<event, audience, over, moves, worker, rec, faults, history>>

-----------------------------------------------------------------------------
(* reconcileEventReminders.                                                 *)

\* reconcileFutureEvents, run by the scheduler every six hours.
Sweep(i) ==
  /\ event # Cancelled /\ ~(ScheduleOf[event] \subseteq over)
  /\ Start(i)
  /\ UNCHANGED <<source, ledger, worker, faults, history>>

Reconciling(i, next) ==
  /\ rec' = [rec EXCEPT ![i] = next]
  /\ UNCHANGED <<source, ledger, worker, faults, history>>

LoadEvent(i) ==
  /\ rec[i].stage = "start"
  /\ Reconciling(i, [rec[i] EXCEPT !.stage = "loaded", !.date = event])

\* Mutant: reminders are kept for the deadlines that have passed.
SlotsPassed(date) == IF date = Cancelled THEN {} ELSE ScheduleOf[date] \cap over

SlotsFor(date) == IF date = Cancelled THEN {} ELSE ScheduleOf[date] \ over

\* Preferences and recipients are read after the event; BEGIN.
LoadPreferences(i) ==
  LET desired == SlotsFor(rec[i].date) \X audience
  IN /\ rec[i].stage = "loaded"
     /\ Reconciling(i, [rec[i] EXCEPT !.stage = "upsert", !.desired = desired, !.todo = desired])

HeldByOther(i, r) == \E j \in Reconcilers \ {i} : r \in rec[j].held

\* The rows to lock next: the loops over the schedule and its recipients take
\* the same rows in the same order, the cancelling UPDATE any order.
NextLocks(i) ==
  {r \in rec[i].todo : rec[i].stage = "upsert" => r = CHOOSE q \in rec[i].todo : TRUE}

\* INSERT ... ON CONFLICT DO UPDATE: the row is inserted, or locked as it is.
Upsert(i) ==
  /\ rec[i].stage = "upsert"
  /\ \E r \in NextLocks(i) :
       /\ ~HeldByOther(i, r)
       /\ Reconciling(i, [rec[i] EXCEPT !.todo = @ \ {r}, !.held = @ \cup {r}])

\* Mutant: a reminder is cancelled under the worker that just claimed it.
StrayProcessing(row) == row.status \in {"PENDING", "FAILED", "PROCESSING"}

Stray(row) ==
  row.status \in {"PENDING", "FAILED"} \/ (row.status = "PROCESSING" /\ row.aged)

\* The rows the cancelling UPDATE sees: committed ones only.
BeginCancel(i) ==
  /\ rec[i].stage = "upsert" /\ rec[i].todo = {}
  /\ Reconciling(i, [rec[i] EXCEPT !.stage = "cancel",
                                   !.todo = {r \in Rows \ rec[i].desired : Stray(ledger[r])}])

\* It waits for each row's lock and looks at the row again.
CancelStray(i) ==
  /\ rec[i].stage = "cancel"
  /\ \E r \in NextLocks(i) :
       /\ ~HeldByOther(i, r)
       /\ Reconciling(i, [rec[i] EXCEPT !.todo = @ \ {r},
                            !.held = IF Stray(ledger[r]) THEN @ \cup {r} ELSE @])

Written(i, r) ==
  CASE r \notin rec[i].held -> ledger[r]
    [] r \in rec[i].held \ rec[i].desired ->
         [ledger[r] EXCEPT !.status = "CANCELLED", !.due = FALSE, !.aged = FALSE]
    [] OTHER -> IF ledger[r].status = "absent" THEN Pending ELSE ledger[r]

Commit(i) ==
  /\ rec[i].stage = "cancel" /\ rec[i].todo = {}
  /\ ledger' = [r \in Rows |-> Written(i, r)]
  /\ rec' = [rec EXCEPT ![i] = NoReconciliation]
  /\ UNCHANGED <<source, worker, faults, history>>

\* A statement fails or the process dies: rolled back and only logged.
Abort(i) ==
  /\ rec[i].stage # "idle"
  /\ Fault
  /\ rec' = [rec EXCEPT ![i] = NoReconciliation]
  /\ UNCHANGED <<source, ledger, worker, history>>

Waits(i) == NextLocks(i) # {} /\ \A r \in NextLocks(i) : HeldByOther(i, r)

\* Two reconciliations wait for one another: one is rolled back.
DeadlockVictim(i) ==
  /\ Waits(i)
  /\ \A j \in Reconcilers \ {i} : rec[j].held \cap NextLocks(i) # {} => Waits(j)
  /\ Reconciling(i, NoReconciliation)

-----------------------------------------------------------------------------
Init ==
  /\ event \in Dates /\ audience = Recipients /\ over = {}
  /\ moves = Moves /\ edits = Edits /\ faults = Faults
  /\ ledger = [r \in Rows |-> IF r[1] \in ScheduleOf[event] THEN Pending ELSE Absent]
  /\ worker = [w \in Workers |-> Idle]
  /\ rec = [i \in Reconcilers |-> NoReconciliation]
  /\ sends = [r \in Rows |-> 0] /\ doubtful = {} /\ slow = {}

Work(w) == Check(w) \/ CancelRow(w) \/ Send(w) \/ Record(w) \/ MarkFailure(w)
Reconcile(i) ==
  \/ LoadEvent(i) \/ LoadPreferences(i) \/ Upsert(i) \/ BeginCancel(i)
  \/ CancelStray(i) \/ Commit(i) \/ DeadlockVictim(i)

Next ==
  \/ \E i \in Reconcilers :
       \/ \E e \in Dates \cup {Cancelled} : ChangeEvent(i, e)
       \/ \E a \in SUBSET Recipients : ChangePreferences(i, a)
       \/ Sweep(i) \/ Reconcile(i) \/ Abort(i)
  \/ \E a \in SUBSET Recipients : ChangeUsers(a)
  \/ \E s \in Slots : Passes(s)
  \/ \E r \in Rows : ComeDue(r) \/ Age(r) \/ Retry(r)
  \/ \E w \in Workers : Claim(w) \/ Work(w) \/ RunThrows(w) \/ Crash(w)

Spec == Init /\ [][Next]_vars

\* Servers keep polling, time passes, PostgreSQL grants a lock in the order
\* of the requests, and the sweep comes round every six hours.
FairSpec ==
  /\ Spec
  /\ \A r \in Rows : WF_vars(ComeDue(r)) /\ WF_vars(Age(r))
  /\ \A w \in Workers : SF_vars(Claim(w)) /\ SF_vars(Work(w))
  /\ \A i \in Reconcilers : SF_vars(Reconcile(i))
  /\ WF_vars(\E i \in Reconcilers : Sweep(i))

-----------------------------------------------------------------------------
Statuses == {"absent", "PENDING", "PROCESSING", "SENT", "SKIPPED", "FAILED", "CANCELLED"}

Reminder == [status : Statuses, attempts : 0..MaxAttempts, due : BOOLEAN, aged : BOOLEAN]
Run ==
  [phase : {"idle", "next", "cancelling", "sending", "sent", "skipped", "failing"},
   row : Rows \cup {NoRow}, left : SUBSET Rows]
Reconciliation ==
  [stage : {"idle", "start", "loaded", "upsert", "cancel"}, date : Dates \cup {Cancelled},
   desired : SUBSET Rows, todo : SUBSET Rows, held : SUBSET Rows]

\* Every variable stays in its domain; no reminder is claimed more than
\* MaxAttempts times (attempt_count < 3 in claimBatch).
TypeOK ==
  /\ event \in Dates \cup {Cancelled} /\ audience \subseteq Recipients /\ over \subseteq Slots
  /\ moves \in 0..Moves /\ edits \in 0..Edits /\ faults \in 0..Faults
  /\ ledger \in [Rows -> Reminder]
  /\ worker \in [Workers -> Run]
  /\ rec \in [Reconcilers -> Reconciliation]
  /\ sends \in [Rows -> Nat] /\ doubtful \subseteq Rows /\ slow \subseteq Rows

\* The rows a scheduler run has claimed and not yet dealt with.
Holds(w) == worker[w].left \cup ({worker[w].row} \ {NoRow})

\* A claim is exclusive for fifteen minutes: until a row has been claimed
\* that long no other worker works on it and neither a worker nor a
\* reconciliation settles it (FOR UPDATE SKIP LOCKED and the age test of
\* claimBatch and reconcileEventReminders).
ClaimIsExclusive ==
  \A w \in Workers : \A r \in Holds(w) \ slow :
    /\ \A v \in Workers \ {w} : r \notin Holds(v)
    /\ worker[w].phase # "failing" \/ r # worker[w].row => ledger[r].status = "PROCESSING"

\* A second mail goes out for a reminder only after a claim grew older than
\* fifteen minutes or a mail went out without being recorded.
DuplicatesExplained ==
  \A r \in Rows : sends[r] > 1 => r \in slow \cup doubtful

\* A reminder that was sent, skipped or cancelled is never touched again.
SettledIsFinal ==
  [][\A r \in Rows : ledger[r].status \in {"SENT", "SKIPPED", "CANCELLED"}
                       => ledger'[r] = ledger[r]]_vars

Settled(r) ==
  \/ ledger[r].status \in {"absent", "SENT", "SKIPPED", "CANCELLED"}
  \/ ledger[r].status = "FAILED" /\ ledger[r].attempts = MaxAttempts

\* Crashes, lost batches and stray reminders notwithstanding, every reminder
\* is settled in the end: none stays PROCESSING, none waits for ever.
EveryReminderSettles == <>[](\A r \in Rows : Settled(r))

WantedRows == SlotsFor(event) \X audience

\* However reconciliations overlap, fail or lose a deadlock, the ledger ends
\* with a row for every reminder wanted (the sweep of reconcileFutureEvents).
EventuallyCovered == <>[](\A r \in WantedRows : ledger[r].status # "absent")
=============================================================================
