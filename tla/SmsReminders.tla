------------------------------ MODULE SmsReminders ------------------------------
(***************************************************************************)
(* Payment text messages (smsReminder.service.js,                          *)
(* plotPaymentNotification.service.js, utils/sqs.js, workers/smsWorker.js).*)
(* A run inserts a row of sms_reminder_log per message, its dedupe key     *)
(* decides whether the message is new, hands the new ones to SQS in        *)
(* batches and marks those SQS refused.  Workers poll the queue, send,     *)
(* mark the row and delete the message.  A message is named by its key:    *)
(* QueuedOnce shows that no key is handed over twice.                      *)
(***************************************************************************)
EXTENDS Naturals, FiniteSets

CONSTANTS
  Keys,       \* dedupe keys of one site
  Due,        \* the reminders of an automatic run; the others are receipts
  Runs,       \* runs under way: hourly ticks and approvals of payments
  Workers,    \* worker processes
  BatchSize,  \* entries of a SendMessageBatch
  PollSize,   \* MaxNumberOfMessages
  Faults      \* bound: failures of the database, SQS, the provider and processes

ASSUME KeysAssumption == IsFiniteSet(Keys) /\ Due \subseteq Keys
ASSUME SizesAssumption == BatchSize \in Nat \ {0} /\ PollSize \in Nat \ {0}
ASSUME FaultsAssumption == Faults \in Nat

VARIABLES
  row,       \* sms_reminder_log.status
  queue,     \* the message of a key in SQS
  receipt,   \* workers whose receipt handle is the latest of a key
  run,       \* a run: what it has to insert, to hand over and to mark
  worker,    \* a worker: the messages of its poll and what it is doing
  handed,    \* times a key was accepted by SQS
  delivered, \* keys whose message the provider took
  refused,   \* keys a run was told SQS did not take
  rejected,  \* keys the provider rejected for good
  stranded,  \* keys whose run ended between the row and the queue
  faults

api == <<row, run, refused, stranded>>
sqs == <<queue, receipt, handed>>
provider == <<worker, delivered, rejected>>
vars == <<api, sqs, provider, faults>>

Fault == faults > 0 /\ faults' = faults - 1

-----------------------------------------------------------------------------
(* A run: queueRemindersForSite, or notifyApprovedPlotPayment for one.      *)

Ended == [stage |-> "ended", todo |-> {}, jobs |-> {}, marks |-> {}]

Start(r, todo) ==
  /\ run[r] = Ended
  /\ run' = [run EXCEPT ![r] = [Ended EXCEPT !.stage = "inserting", !.todo = todo]]
  /\ UNCHANGED <<row, refused, stranded, sqs, provider, faults>>

\* A tick of the hour, or the approval of a payment: the rest is the same.
Tick(r) == Start(r, Due)
Notify(r) == \E k \in Keys \ Due : Start(r, {k})

\* Mutant: no conflict clause, or a key that is new on every run.
EachRunAnew(k) == TRUE

\* INSERT ... ON CONFLICT (site_id, dedupe_key) DO NOTHING
IsNew(k) == row[k] = "absent"

Insert(r, k) ==
  /\ run[r].stage = "inserting" /\ k \in run[r].todo
  /\ IF IsNew(k)
     THEN /\ row' = [row EXCEPT ![k] = "queued"]
          /\ run' = [run EXCEPT ![r].todo = @ \ {k}, ![r].jobs = @ \cup {k}]
     ELSE /\ UNCHANGED row
          /\ run' = [run EXCEPT ![r].todo = @ \ {k}]
  /\ UNCHANGED <<refused, stranded, sqs, provider, faults>>

StartQueueing(r) ==
  /\ run[r].stage = "inserting" /\ run[r].todo = {}
  /\ run' = [run EXCEPT ![r].stage = "queueing"]
  /\ UNCHANGED <<row, refused, stranded, sqs, provider, faults>>

Chunks(jobs) == {B \in SUBSET jobs :
                   Cardinality(B) = IF Cardinality(jobs) < BatchSize THEN Cardinality(jobs) ELSE BatchSize}

\* One batch: SQS takes some entries and names the others, or the call throws
\* and every entry counts as failed whatever SQS took.
SendBatch(r, B, taken, named) ==
  /\ named = B \ taken \/ named = B
  /\ queue' = [k \in Keys |-> IF k \in taken THEN "visible" ELSE queue[k]]
  /\ handed' = [k \in Keys |-> IF k \in taken THEN handed[k] + 1 ELSE handed[k]]
  /\ refused' = refused \cup named
  /\ run' = [run EXCEPT ![r].jobs = @ \ B, ![r].marks = @ \cup named]
  /\ IF named = {} THEN UNCHANGED faults ELSE Fault

\* enqueueSms
Enqueue(r) ==
  /\ run[r].stage = "queueing" /\ run[r].jobs # {}
  /\ \E B \in Chunks(run[r].jobs) : \E taken \in SUBSET B, named \in SUBSET B :
       SendBatch(r, B, taken, named)
  /\ UNCHANGED <<row, receipt, stranded, provider>>

\* Mutant: the refused entries are counted and not marked.
NothingMarked(r) == {}

ToMark(r) == run[r].marks

Mark(r) ==
  /\ run[r].stage = "queueing" /\ run[r].jobs = {}
  /\ IF ToMark(r) = {}
     THEN run' = [run EXCEPT ![r] = Ended] /\ UNCHANGED row
     ELSE \E k \in ToMark(r) : /\ row' = [row EXCEPT ![k] = "failed"]
                               /\ run' = [run EXCEPT ![r].marks = @ \ {k}]
  /\ UNCHANGED <<refused, stranded, sqs, provider, faults>>

\* The database fails, or the process ends: the run is not taken up again.
RunBreaks(r) ==
  /\ run[r] # Ended /\ Fault
  /\ run' = [run EXCEPT ![r] = Ended]
  /\ stranded' = stranded \cup run[r].jobs \cup run[r].marks
  /\ UNCHANGED <<row, refused, sqs, provider>>

-----------------------------------------------------------------------------
(* A worker: poll and handle.                                               *)

Idle == [batch |-> {}, stage |-> "polling", item |-> {}]
Holds(w, k) == k \in worker[w].batch
Working(w, k, stage) == worker[w].stage = stage /\ worker[w].item = {k}
MayStart(w, k) == worker[w].stage = "sending" /\ Holds(w, k)

Receive(w) ==
  /\ worker[w] = Idle
  /\ \E S \in SUBSET {k \in Keys : queue[k] = "visible"} :
       /\ S # {} /\ Cardinality(S) <= PollSize
       /\ worker' = [worker EXCEPT ![w] = [Idle EXCEPT !.batch = S, !.stage = "sending"]]
       /\ queue' = [k \in Keys |-> IF k \in S THEN "hidden" ELSE queue[k]]
       /\ receipt' = [k \in Keys |-> IF k \in S THEN {w} ELSE receipt[k]]
  /\ UNCHANGED <<api, handed, delivered, rejected, faults>>

\* The visibility timeout ends: of a message no worker holds, or early for one
\* whose batch takes longer.
Expire(k) ==
  /\ queue[k] = "hidden"
  /\ IF \E w \in Workers : Holds(w, k) THEN Fault ELSE UNCHANGED faults
  /\ queue' = [queue EXCEPT ![k] = "visible"]
  /\ UNCHANGED <<api, receipt, handed, provider>>

Drop(w, k) ==
  [worker EXCEPT ![w] = IF @.batch = {k} THEN Idle
                        ELSE [Idle EXCEPT !.batch = worker[w].batch \ {k}, !.stage = "sending"]]
Handle(w, k, stage) == worker' = [worker EXCEPT ![w].stage = stage, ![w].item = {k}]

\* sendSms: taken; rejected for good; or an error that may hide an acceptance.
Send(w, k) ==
  /\ MayStart(w, k)
  /\ \/ /\ delivered' = delivered \cup {k}
        /\ Handle(w, k, "sent")
        /\ UNCHANGED <<rejected, faults>>
     \/ /\ rejected' = rejected \cup {k}
        /\ Handle(w, k, "failed")
        /\ UNCHANGED <<delivered, faults>>
     \/ /\ Fault
        /\ delivered' \in {delivered, delivered \cup {k}}
        /\ worker' = Drop(w, k)
        /\ UNCHANGED rejected
  /\ UNCHANGED <<api, sqs>>

Marked(outcome) == outcome

\* markLog
Record(w, k) ==
  /\ \E outcome \in {"sent", "failed"} :
       /\ Working(w, k, outcome)
       /\ row' = [row EXCEPT ![k] = Marked(outcome)]
  /\ Handle(w, k, "deleting")
  /\ UNCHANGED <<run, refused, stranded, sqs, delivered, rejected, faults>>

\* Mutant: the poll deletes what it read before it handles it.
DeletedEarly(w, k) == MayStart(w, k)

\* Mutant: a rejected message is not done.
DeletedIfDelivered(w, k) == Working(w, k, "deleting") /\ k \in delivered

MayDelete(w, k) == Working(w, k, "deleting")

\* A receipt handle that is not the latest may delete nothing.
Delete(w, k) ==
  /\ MayDelete(w, k)
  /\ \/ queue' = [queue EXCEPT ![k] = "deleted"]
     \/ w \notin receipt[k] /\ UNCHANGED queue
  /\ worker' = Drop(w, k)
  /\ UNCHANGED <<api, receipt, handed, delivered, rejected, faults>>

\* The database or SQS fails, which ends the poll, or the process ends.
WorkerBreaks(w) ==
  /\ worker[w] # Idle /\ Fault
  /\ worker' = [worker EXCEPT ![w] = Idle]
  /\ UNCHANGED <<api, sqs, delivered, rejected>>

-----------------------------------------------------------------------------
Init ==
  /\ row = [k \in Keys |-> "absent"]
  /\ queue = [k \in Keys |-> "none"]
  /\ receipt = [k \in Keys |-> {}]
  /\ run = [r \in Runs |-> Ended]
  /\ worker = [w \in Workers |-> Idle]
  /\ handed = [k \in Keys |-> 0]
  /\ delivered = {} /\ refused = {} /\ rejected = {} /\ stranded = {}
  /\ faults = Faults

RunStep(r) == (\E k \in Keys : Insert(r, k)) \/ StartQueueing(r) \/ Enqueue(r) \/ Mark(r)
Consume(w) == Receive(w) \/ \E k \in Keys : Send(w, k) \/ Record(w, k) \/ Delete(w, k)

Next ==
  \/ \E r \in Runs : Tick(r) \/ Notify(r) \/ RunStep(r) \/ RunBreaks(r)
  \/ \E w \in Workers : Consume(w) \/ WorkerBreaks(w)
  \/ \E k \in Keys : Expire(k)

Spec == Init /\ [][Next]_vars

\* The hourly tick comes again, runs and workers go on, SQS shows a message
\* again when its timeout is over.
Fairness ==
  /\ \A r \in Runs : WF_vars(Tick(r)) /\ WF_vars(RunStep(r))
  /\ \A w \in Workers : WF_vars(Consume(w))
  /\ \A k \in Keys : WF_vars(Expire(k))

FairSpec == Spec /\ Fairness

-----------------------------------------------------------------------------
(* Properties.                                                              *)

RunRecord == [stage : {"ended", "inserting", "queueing"}, todo : SUBSET Keys,
              jobs : SUBSET Keys, marks : SUBSET Keys]
Poll == [batch : SUBSET Keys, stage : {"polling", "sending", "sent", "failed", "deleting"},
         item : SUBSET Keys]

\* The variables have their types.
TypeOK ==
  /\ row \in [Keys -> {"absent", "queued", "sent", "failed"}]
  /\ queue \in [Keys -> {"none", "visible", "hidden", "deleted"}]
  /\ receipt \in [Keys -> SUBSET Workers]
  /\ run \in [Runs -> RunRecord] /\ worker \in [Workers -> Poll]
  /\ handed \in [Keys -> Nat]
  /\ delivered \subseteq Keys /\ refused \subseteq Keys /\ rejected \subseteq Keys /\ stranded \subseteq Keys
  /\ faults \in 0..Faults

\* "The dedupe key makes a double tick harmless": however runs and ticks
\* overlap, SQS takes a message of one key once.
QueuedOnce == \A k \in Keys : handed[k] <= 1

\* The status of a row is the truth about one attempt: sent when the provider
\* took the message, failed when SQS or the provider is known to have refused.
StatusHasCause ==
  \A k \in Keys : /\ row[k] = "sent" => k \in delivered
                  /\ row[k] = "failed" => k \in refused \cup rejected

\* A row left at queued has its message in SQS, a run that is about to hand it
\* over or mark it, or lost its run in between; deleting needs an outcome.
NoneLeftQueued ==
  \A k \in Keys : row[k] = "queued" =>
    \/ queue[k] \in {"visible", "hidden"}
    \/ \E r \in Runs : k \in run[r].jobs \cup run[r].marks
    \/ k \in stranded

\* sms_reminder_log tells the truth about every message.
LogIsTrue == StatusHasCause /\ NoneLeftQueued

\* "A message is only deleted once it is either delivered or permanently
\* rejected."
DeletedIsDecided == \A k \in Keys : queue[k] = "deleted" => k \in delivered \cup rejected

\* Every message SQS takes is delivered or rejected and leaves the queue,
\* whatever fails on the way.
QueueDrains == \A k \in Keys : queue[k] = "visible" ~> queue[k] = "deleted"
=============================================================================
