--------------------------- MODULE SmsRemindersProofs ---------------------------
(***************************************************************************)
(* Proofs about payment text messages, for any number of keys, runs,       *)
(* workers and faults: no key is handed to SQS twice, the log tells the    *)
(* truth about every message, and only decided messages are deleted.       *)
(***************************************************************************)
EXTENDS SmsReminders, TLAPS

\* A run about to hand a key over is the only one, and the first.
HandoversAreFirst ==
  /\ \A k \in Keys : row[k] = "absent" => handed[k] = 0
  /\ \A r \in Runs : \A k \in run[r].jobs :
       /\ handed[k] = 0 /\ row[k] # "absent"
       /\ \A q \in Runs \ {r} : k \notin run[q].jobs

\* A run marks nothing that it was not told SQS refused.
MarksAreRefused == \A r \in Runs : run[r].marks \subseteq refused

\* What a worker is about to record happened, what it is about to delete is
\* decided and recorded.
OutcomesAreReal ==
  \A w \in Workers, k \in Keys :
    /\ Working(w, k, "sent") => k \in delivered
    /\ Working(w, k, "failed") => k \in rejected
    /\ Working(w, k, "deleting") => k \in delivered \cup rejected /\ row[k] \in {"sent", "failed"}

Safe ==
  /\ HandoversAreFirst /\ QueuedOnce /\ MarksAreRefused /\ OutcomesAreReal
  /\ StatusHasCause /\ NoneLeftQueued /\ DeletedIsDecided
IInv == TypeOK /\ Safe

LEMMA EndedType == Ended \in RunRecord /\ Ended.jobs = {} /\ Ended.marks = {}
BY DEF Ended, RunRecord

LEMMA IdleType == Idle \in Poll /\ Idle.stage = "polling"
BY DEF Idle, Poll

LEMMA InitIInv == Init => IInv
<1> SUFFICES ASSUME Init PROVE IInv
  OBVIOUS
<1>1. TypeOK
  BY FaultsAssumption, EndedType, IdleType DEF Init, TypeOK
<1>2. HandoversAreFirst /\ QueuedOnce /\ MarksAreRefused
  BY EndedType DEF Init, HandoversAreFirst, QueuedOnce, MarksAreRefused
<1>3. OutcomesAreReal /\ StatusHasCause /\ NoneLeftQueued /\ DeletedIsDecided
  BY IdleType DEF Init, OutcomesAreReal, Working, StatusHasCause, NoneLeftQueued, DeletedIsDecided
<1>4. QED
  BY <1>1, <1>2, <1>3 DEF IInv, Safe

-----------------------------------------------------------------------------
(* Types, and what the steps write to runs and workers.                     *)

\* The run of r becomes n, all else it does not name stays.
RunBecomes(r, n) == n \in RunRecord /\ run' = [run EXCEPT ![r] = n]
PollBecomes(w, n) == n \in Poll /\ worker' = [worker EXCEPT ![w] = n]

LEMMA RunWritten ==
  ASSUME TypeOK, NEW r \in Runs, NEW n, RunBecomes(r, n)
  PROVE  run' \in [Runs -> RunRecord] /\ run'[r] = n /\ \A q \in Runs \ {r} : run'[q] = run[q]
BY DEF TypeOK, RunBecomes

LEMMA PollWritten ==
  ASSUME TypeOK, NEW w \in Workers, NEW n, PollBecomes(w, n)
  PROVE  worker' \in [Workers -> Poll] /\ worker'[w] = n /\ \A v \in Workers \ {w} : worker'[v] = worker[v]
BY DEF TypeOK, PollBecomes

LEMMA StartRun ==
  ASSUME TypeOK, NEW r \in Runs, Tick(r) \/ Notify(r)
  PROVE  \E n : RunBecomes(r, n) /\ run[r] = Ended /\ n.jobs = {} /\ n.marks = {}
<1>1. PICK todo \in SUBSET Keys : Start(r, todo)
  BY KeysAssumption DEF Tick, Notify
<1> DEFINE n == [Ended EXCEPT !.stage = "inserting", !.todo = todo]
<1>2. n \in RunRecord /\ n.jobs = {} /\ n.marks = {}
  BY DEF Ended, RunRecord
<1>3. QED
  BY <1>1, <1>2 DEF Start, RunBecomes

LEMMA InsertRun ==
  ASSUME TypeOK, NEW r \in Runs, NEW k \in Keys, Insert(r, k)
  PROVE  \E n : /\ RunBecomes(r, n) /\ n.marks = run[r].marks
                /\ n.jobs = IF IsNew(k) THEN run[r].jobs \cup {k} ELSE run[r].jobs
<1> DEFINE n == IF IsNew(k) THEN [run[r] EXCEPT !.todo = @ \ {k}, !.jobs = @ \cup {k}]
                ELSE [run[r] EXCEPT !.todo = @ \ {k}]
<1>1. run[r] \in RunRecord
  BY DEF TypeOK
<1>2. /\ n \in RunRecord /\ n.marks = run[r].marks
      /\ n.jobs = IF IsNew(k) THEN run[r].jobs \cup {k} ELSE run[r].jobs
  BY <1>1 DEF RunRecord
<1>3. run' = [run EXCEPT ![r] = n]
  BY DEF Insert, TypeOK
<1>4. QED
  BY <1>2, <1>3 DEF RunBecomes

LEMMA QueueingRun ==
  ASSUME TypeOK, NEW r \in Runs, StartQueueing(r)
  PROVE  \E n : RunBecomes(r, n) /\ n.jobs = run[r].jobs /\ n.marks = run[r].marks
<1> DEFINE n == [run[r] EXCEPT !.stage = "queueing"]
<1>1. run[r] \in RunRecord
  BY DEF TypeOK
<1>2. n \in RunRecord /\ n.jobs = run[r].jobs /\ n.marks = run[r].marks
  BY <1>1 DEF RunRecord
<1>3. QED
  BY <1>2 DEF StartQueueing, TypeOK, RunBecomes

LEMMA MarkRun ==
  ASSUME TypeOK, NEW r \in Runs, Mark(r)
  PROVE  \E n : /\ RunBecomes(r, n) /\ n.jobs = run[r].jobs
                /\ \/ run[r].marks = {} /\ n.marks = {} /\ UNCHANGED row
                   \/ \E k \in run[r].marks : /\ n.marks = run[r].marks \ {k}
                                              /\ row' = [row EXCEPT ![k] = "failed"]
<1>1. run[r] \in RunRecord
  BY DEF TypeOK
<1>2. CASE ToMark(r) = {}
  BY <1>2, EndedType DEF Mark, RunBecomes, ToMark
<1>3. ASSUME NEW k \in run[r].marks, row' = [row EXCEPT ![k] = "failed"],
             run' = [run EXCEPT ![r].marks = @ \ {k}]
      PROVE  \E n : /\ RunBecomes(r, n) /\ n.jobs = run[r].jobs /\ n.marks = run[r].marks \ {k}
                    /\ row' = [row EXCEPT ![k] = "failed"]
  <2> DEFINE n == [run[r] EXCEPT !.marks = @ \ {k}]
  <2>1. n \in RunRecord /\ n.jobs = run[r].jobs /\ n.marks = run[r].marks \ {k}
    BY <1>1 DEF RunRecord
  <2>2. run' = [run EXCEPT ![r] = n]
    BY <1>3
  <2>3. QED
    BY <1>3, <2>1, <2>2 DEF RunBecomes
<1>4. QED
  BY <1>2, <1>3 DEF Mark, ToMark

\* One batch B of a run's messages: SQS took some, the run is told of others.
Sent(r, B, taken, named) ==
  /\ B \subseteq run[r].jobs /\ taken \subseteq B
  /\ named = B \ taken \/ named = B
  /\ queue' = [k \in Keys |-> IF k \in taken THEN "visible" ELSE queue[k]]
  /\ handed' = [k \in Keys |-> IF k \in taken THEN handed[k] + 1 ELSE handed[k]]
  /\ refused' = refused \cup named
  /\ \E n : RunBecomes(r, n) /\ n.jobs = run[r].jobs \ B /\ n.marks = run[r].marks \cup named

LEMMA EnqueueRun ==
  ASSUME TypeOK, NEW r \in Runs, Enqueue(r)
  PROVE  \E B, taken, named : Sent(r, B, taken, named)
<1>1. PICK B \in Chunks(run[r].jobs) :
        \E taken \in SUBSET B, named \in SUBSET B : SendBatch(r, B, taken, named)
  BY DEF Enqueue
<1>2. PICK taken \in SUBSET B, named \in SUBSET B : SendBatch(r, B, taken, named)
  BY <1>1
<1> DEFINE n == [run[r] EXCEPT !.jobs = @ \ B, !.marks = @ \cup named]
<1>3. run[r] \in RunRecord /\ B \subseteq run[r].jobs
  BY DEF TypeOK, Chunks
<1>4. n \in RunRecord /\ n.jobs = run[r].jobs \ B /\ n.marks = run[r].marks \cup named
  BY <1>2, <1>3 DEF RunRecord
<1>5. run' = [run EXCEPT ![r] = n]
  BY <1>2 DEF SendBatch
<1>6. RunBecomes(r, n)
  BY <1>4, <1>5 DEF RunBecomes
<1> HIDE DEF n
<1>7. QED
  BY <1>2, <1>3, <1>4, <1>6 DEF Sent, SendBatch

LEMMA RunTypes ==
  ASSUME TypeOK, NEW r \in Runs, Tick(r) \/ Notify(r) \/ RunStep(r) \/ RunBreaks(r)
  PROVE  TypeOK'
<1>1. \E n : RunBecomes(r, n)
  <2>1. CASE Tick(r) \/ Notify(r)
    BY <2>1, StartRun
  <2>2. CASE \E k \in Keys : Insert(r, k)
    BY <2>2, InsertRun
  <2>3. CASE Enqueue(r)
    BY <2>3, EnqueueRun DEF Sent
  <2>4. CASE StartQueueing(r) \/ Mark(r)
    BY <2>4, QueueingRun, MarkRun
  <2>5. CASE RunBreaks(r)
    BY <2>5, EndedType DEF RunBreaks, RunBecomes
  <2>6. QED
    BY <2>1, <2>2, <2>3, <2>4, <2>5 DEF RunStep
<1> run' \in [Runs -> RunRecord]
  BY <1>1, RunWritten
<1>2. CASE Tick(r) \/ Notify(r) \/ StartQueueing(r)
  BY <1>2 DEF Tick, Notify, Start, StartQueueing, TypeOK, sqs, provider
<1>3. CASE \E k \in Keys : Insert(r, k)
  BY <1>3 DEF Insert, TypeOK, sqs, provider
<1>4. CASE Enqueue(r)
  <2>1. PICK B, taken, named : Sent(r, B, taken, named)
    BY <1>4, EnqueueRun
  <2>2. run[r].jobs \subseteq Keys
    BY DEF TypeOK, RunRecord
  <2>3. queue' \in [Keys -> {"none", "visible", "hidden", "deleted"}] /\ handed' \in [Keys -> Nat]
    BY <2>1 DEF Sent, TypeOK
  <2>4. refused' \subseteq Keys
    BY <2>1, <2>2 DEF Sent, TypeOK
  <2>5. faults' \in 0..Faults
    BY <1>4, FaultsAssumption DEF Enqueue, SendBatch, Fault, TypeOK
  <2>6. QED
    BY <1>4, <2>3, <2>4, <2>5 DEF Enqueue, TypeOK, provider
<1>5. CASE Mark(r)
  <2>1. run[r].marks \subseteq Keys
    BY DEF TypeOK, RunRecord
  <2>2. row' \in [Keys -> {"absent", "queued", "sent", "failed"}]
    BY <1>5, <2>1, MarkRun DEF TypeOK
  <2>3. QED
    BY <1>5, <2>2 DEF Mark, TypeOK, sqs, provider
<1>6. CASE RunBreaks(r)
  <2>1. run[r].jobs \subseteq Keys /\ run[r].marks \subseteq Keys
    BY DEF TypeOK, RunRecord
  <2>2. QED
    BY <1>6, <2>1, FaultsAssumption DEF RunBreaks, Fault, TypeOK, sqs, provider
<1>7. QED
  BY <1>2, <1>3, <1>4, <1>5, <1>6 DEF RunStep

\* Every step of a worker but its poll moves on one message, or lets go.
LEMMA WorkerMoves ==
  ASSUME TypeOK, NEW w \in Workers, NEW k \in Keys
  PROVE  /\ \A stage \in {"sent", "failed", "deleting"} : Handle(w, k, stage) =>
              \E n : PollBecomes(w, n) /\ n.stage = stage /\ n.item = {k}
         /\ worker' = Drop(w, k) =>
              \E n : PollBecomes(w, n) /\ n.stage \in {"sending", "polling"}
<1>1. worker[w] \in Poll
  BY DEF TypeOK
<1>2. ASSUME NEW stage \in {"sent", "failed", "deleting"}, Handle(w, k, stage)
      PROVE  \E n : PollBecomes(w, n) /\ n.stage = stage /\ n.item = {k}
  <2> DEFINE n == [worker[w] EXCEPT !.stage = stage, !.item = {k}]
  <2>1. n \in Poll /\ n.stage = stage /\ n.item = {k}
    BY <1>1 DEF Poll
  <2>2. QED
    BY <1>2, <2>1 DEF Handle, PollBecomes
<1>3. ASSUME worker' = Drop(w, k)
      PROVE  \E n : PollBecomes(w, n) /\ n.stage \in {"sending", "polling"}
  <2> DEFINE n == IF worker[w].batch = {k} THEN Idle
                  ELSE [Idle EXCEPT !.batch = worker[w].batch \ {k}, !.stage = "sending"]
  <2>1. n \in Poll /\ n.stage \in {"sending", "polling"}
    BY <1>1 DEF Poll, Idle
  <2>2. QED
    BY <1>3, <2>1 DEF Drop, PollBecomes
<1>4. QED
  BY <1>2, <1>3

LEMMA ReceivePoll ==
  ASSUME TypeOK, NEW w \in Workers, Receive(w)
  PROVE  \E n, S : /\ PollBecomes(w, n) /\ n.stage = "sending" /\ S \subseteq Keys
                   /\ queue' = [k \in Keys |-> IF k \in S THEN "hidden" ELSE queue[k]]
                   /\ receipt' = [k \in Keys |-> IF k \in S THEN {w} ELSE receipt[k]]
<1>1. PICK S \in SUBSET Keys :
        /\ worker' = [worker EXCEPT ![w] = [Idle EXCEPT !.batch = S, !.stage = "sending"]]
        /\ queue' = [k \in Keys |-> IF k \in S THEN "hidden" ELSE queue[k]]
        /\ receipt' = [k \in Keys |-> IF k \in S THEN {w} ELSE receipt[k]]
  BY DEF Receive
<1> DEFINE n == [Idle EXCEPT !.batch = S, !.stage = "sending"]
<1>2. n \in Poll /\ n.stage = "sending"
  BY DEF Poll, Idle
<1>3. QED
  BY <1>1, <1>2 DEF PollBecomes

LEMMA WorkerTypes ==
  ASSUME TypeOK, NEW w \in Workers, Consume(w) \/ WorkerBreaks(w)
  PROVE  TypeOK'
<1>1. CASE Receive(w)
  <2>1. PICK n, S : /\ PollBecomes(w, n) /\ n.stage = "sending" /\ S \subseteq Keys
                    /\ queue' = [k \in Keys |-> IF k \in S THEN "hidden" ELSE queue[k]]
                    /\ receipt' = [k \in Keys |-> IF k \in S THEN {w} ELSE receipt[k]]
    BY <1>1, ReceivePoll
  <2>2. worker' \in [Workers -> Poll]
    BY <2>1, PollWritten
  <2>3. QED
    BY <1>1, <2>1, <2>2 DEF Receive, TypeOK, api
<1>2. ASSUME NEW k \in Keys, Send(w, k) PROVE TypeOK'
  <2>1. worker' \in [Workers -> Poll]
    BY <1>2, WorkerMoves, PollWritten DEF Send
  <2>2. QED
    BY <1>2, <2>1, FaultsAssumption DEF Send, Fault, TypeOK, api, sqs
<1>3. ASSUME NEW k \in Keys, Record(w, k) PROVE TypeOK'
  <2>1. worker' \in [Workers -> Poll]
    BY <1>3, WorkerMoves, PollWritten DEF Record
  <2>2. QED
    BY <1>3, <2>1 DEF Record, Marked, TypeOK, sqs
<1>4. ASSUME NEW k \in Keys, Delete(w, k) PROVE TypeOK'
  <2>1. worker' \in [Workers -> Poll]
    BY <1>4, WorkerMoves, PollWritten DEF Delete
  <2>2. QED
    BY <1>4, <2>1 DEF Delete, TypeOK, api
<1>5. CASE WorkerBreaks(w)
  <2>1. worker' \in [Workers -> Poll]
    BY <1>5, IdleType, PollWritten DEF WorkerBreaks, PollBecomes
  <2>2. QED
    BY <1>5, <2>1, FaultsAssumption DEF WorkerBreaks, Fault, TypeOK, api, sqs
<1>6. QED
  BY <1>1, <1>2, <1>3, <1>4, <1>5 DEF Consume

LEMMA TypeStep == TypeOK /\ [Next]_vars => TypeOK'
<1> SUFFICES ASSUME TypeOK, [Next]_vars PROVE TypeOK'
  OBVIOUS
<1>1. ASSUME NEW k \in Keys, Expire(k) PROVE TypeOK'
  BY <1>1, FaultsAssumption DEF Expire, TypeOK, api, provider, Fault
<1>2. CASE UNCHANGED vars
  BY <1>2 DEF TypeOK, vars, api, sqs, provider
<1>3. QED
  BY <1>1, <1>2, RunTypes, WorkerTypes DEF Next

-----------------------------------------------------------------------------
(* Runs.                                                                    *)

LEMMA InsertKeeps == ASSUME IInv, NEW r \in Runs, NEW k \in Keys, Insert(r, k)
                     PROVE  Safe'
<1>0. TypeOK
  BY DEF IInv
<1>1. /\ UNCHANGED <<refused, stranded, queue, handed, worker, delivered, rejected>>
      /\ row' = IF IsNew(k) THEN [row EXCEPT ![k] = "queued"] ELSE row
  BY DEF Insert, sqs, provider
<1>2. PICK n : /\ RunBecomes(r, n) /\ n.marks = run[r].marks
               /\ n.jobs = IF IsNew(k) THEN run[r].jobs \cup {k} ELSE run[r].jobs
  BY <1>0, InsertRun
<1>3. /\ \A q \in Runs : run'[q].marks = run[q].marks
      /\ \A q \in Runs \ {r} : run'[q].jobs = run[q].jobs
      /\ run'[r].jobs = IF IsNew(k) THEN run[r].jobs \cup {k} ELSE run[r].jobs
  BY <1>0, <1>2, RunWritten
<1>4. /\ \A q \in Keys : row'[q] = row[q] \/ (q = k /\ row[q] = "absent" /\ row'[q] = "queued"
                                               /\ run'[r].jobs = run[r].jobs \cup {k})
      /\ \/ run'[r].jobs = run[r].jobs
         \/ row[k] = "absent" /\ row'[k] = "queued" /\ run'[r].jobs = run[r].jobs \cup {k}
  <2>1. CASE IsNew(k)
    <3>1. row[k] = "absent" /\ run'[r].jobs = run[r].jobs \cup {k}
      BY <2>1, <1>3 DEF IsNew
    <3>2. row' = [row EXCEPT ![k] = "queued"]
      BY <2>1, <1>1
    <3>3. QED
      BY <1>0, <3>1, <3>2 DEF TypeOK
  <2>2. CASE ~IsNew(k)
    BY <2>2, <1>1, <1>3
  <2>3. QED
    BY <2>1, <2>2
<1>5. HandoversAreFirst'
  <2>1. \A q \in Keys : row'[q] = "absent" => row[q] = "absent"
    BY <1>4
  <2>2. \A p \in Runs : \A q \in run'[p].jobs : q \in run[p].jobs \/ (p = r /\ q = k /\ row[k] = "absent")
    BY <1>3, <1>4
  <2>3. \A p \in Runs : run[p].jobs \subseteq Keys
    BY <1>0 DEF TypeOK, RunRecord
  <2>4. \A p \in Runs : row[k] = "absent" => k \notin run[p].jobs
    BY DEF IInv, Safe, HandoversAreFirst
  <2>5. \A p \in Runs : \A q \in run'[p].jobs : handed'[q] = 0 /\ row'[q] # "absent"
    BY <1>1, <1>4, <2>1, <2>2, <2>3 DEF IInv, Safe, HandoversAreFirst
  <2>6. \A p \in Runs : \A q \in run'[p].jobs : \A v \in Runs \ {p} : q \notin run'[v].jobs
    BY <2>2, <2>4 DEF IInv, Safe, HandoversAreFirst
  <2>7. QED
    BY <1>1, <2>1, <2>5, <2>6 DEF IInv, Safe, HandoversAreFirst
<1>6. QueuedOnce' /\ MarksAreRefused' /\ DeletedIsDecided'
  BY <1>1, <1>3 DEF IInv, Safe, QueuedOnce, MarksAreRefused, DeletedIsDecided
<1>7. OutcomesAreReal' /\ StatusHasCause'
  BY <1>1, <1>4 DEF IInv, Safe, OutcomesAreReal, Working, StatusHasCause
<1>8. NoneLeftQueued'
  BY <1>1, <1>3, <1>4 DEF IInv, Safe, NoneLeftQueued
<1>9. QED
  BY <1>5, <1>6, <1>7, <1>8 DEF Safe

LEMMA EnqueueKeeps == ASSUME IInv, NEW r \in Runs, Enqueue(r)
                      PROVE  Safe'
<1>0. TypeOK
  BY DEF IInv
<1>1. PICK B, taken, named : Sent(r, B, taken, named)
  BY <1>0, EnqueueRun
<1>2. B \subseteq run[r].jobs /\ run[r].jobs \subseteq Keys
  BY <1>0, <1>1 DEF Sent, TypeOK, RunRecord
<1>3. /\ run'[r].jobs = run[r].jobs \ B /\ run'[r].marks = run[r].marks \cup named
      /\ \A q \in Runs \ {r} : run'[q] = run[q]
      /\ UNCHANGED <<row, stranded, worker, delivered, rejected>>
  BY <1>0, <1>1, RunWritten DEF Enqueue, provider, Sent
<1> USE DEF Sent
<1>4. HandoversAreFirst'
  <2>1. \A q \in Runs : \A k \in run'[q].jobs : k \in run[q].jobs /\ k \notin B
    BY <1>2, <1>3 DEF IInv, Safe, HandoversAreFirst
  <2>2. \A k \in Keys : k \notin B => handed'[k] = handed[k]
    BY <1>1
  <2>3. \A k \in Keys : row'[k] = "absent" => handed'[k] = 0
    BY <1>2, <1>3, <2>2 DEF IInv, Safe, HandoversAreFirst
  <2>4. \A q \in Runs : run[q].jobs \subseteq Keys
    BY <1>0 DEF TypeOK, RunRecord
  <2>5. ASSUME NEW q \in Runs, NEW k \in run'[q].jobs
        PROVE  /\ handed'[k] = 0 /\ row'[k] # "absent"
               /\ \A p \in Runs \ {q} : k \notin run'[p].jobs
    BY <1>3, <2>1, <2>2, <2>4 DEF IInv, Safe, HandoversAreFirst
  <2>6. QED
    BY <2>3, <2>5 DEF HandoversAreFirst
<1>5. QueuedOnce'
  BY <1>1, <1>2 DEF IInv, Safe, QueuedOnce, HandoversAreFirst, TypeOK
<1>6. MarksAreRefused'
  BY <1>1, <1>3 DEF IInv, Safe, MarksAreRefused
<1>7. OutcomesAreReal' /\ StatusHasCause'
  BY <1>1, <1>3 DEF IInv, Safe, OutcomesAreReal, Working, StatusHasCause
<1>8. NoneLeftQueued'
  <2> SUFFICES ASSUME NEW k \in Keys, row'[k] = "queued"
               PROVE  \/ queue'[k] \in {"visible", "hidden"}
                      \/ \E q \in Runs : k \in run'[q].jobs \cup run'[q].marks
                      \/ k \in stranded'
    BY DEF NoneLeftQueued
  <2>1. CASE k \in B
    BY <1>1, <1>3, <2>1
  <2>2. CASE k \notin B
    BY <1>1, <1>3, <2>2 DEF IInv, Safe, NoneLeftQueued
  <2>3. QED
    BY <2>1, <2>2
<1>9. DeletedIsDecided'
  BY <1>1, <1>3 DEF IInv, Safe, DeletedIsDecided
<1>10. QED
  BY <1>4, <1>5, <1>6, <1>7, <1>8, <1>9 DEF Safe

LEMMA MarkKeeps == ASSUME IInv, NEW r \in Runs, Mark(r)
                   PROVE  Safe'
<1>0. TypeOK
  BY DEF IInv
<1>1. UNCHANGED <<refused, stranded, queue, handed, worker, delivered, rejected>>
  BY DEF Mark, sqs, provider
<1>2. \A q \in Runs : run'[q].jobs = run[q].jobs /\ run'[q].marks \subseteq run[q].marks
  BY <1>0, MarkRun, RunWritten
<1>3. \A k \in Keys : \/ row'[k] = row[k] /\ \A q \in Runs : k \in run[q].marks => k \in run'[q].marks
                      \/ row'[k] = "failed" /\ k \in refused
  BY <1>0, MarkRun, RunWritten DEF TypeOK, IInv, Safe, MarksAreRefused
<1>4. HandoversAreFirst' /\ QueuedOnce'
  <2>1. \A k \in Keys : row'[k] = "absent" => row[k] = "absent"
    BY <1>3
  <2>2. \A q \in Runs : run[q].jobs \subseteq Keys
    BY <1>0 DEF TypeOK, RunRecord
  <2>3. QED
    BY <1>1, <1>2, <1>3, <2>1, <2>2 DEF IInv, Safe, HandoversAreFirst, QueuedOnce
<1>5. MarksAreRefused' /\ DeletedIsDecided'
  BY <1>1, <1>2 DEF IInv, Safe, MarksAreRefused, DeletedIsDecided
<1>6. OutcomesAreReal' /\ StatusHasCause'
  BY <1>1, <1>3 DEF IInv, Safe, OutcomesAreReal, Working, StatusHasCause
<1>7. NoneLeftQueued'
  BY <1>1, <1>2, <1>3 DEF IInv, Safe, NoneLeftQueued
<1>8. QED
  BY <1>4, <1>5, <1>6, <1>7 DEF Safe

LEMMA RunKeeps == ASSUME IInv, NEW r \in Runs, Tick(r) \/ Notify(r) \/ RunStep(r) \/ RunBreaks(r)
                  PROVE  Safe'
<1>1. ASSUME UNCHANGED <<row, refused, queue, handed, worker, delivered, rejected>>,
             \A q \in Runs : run'[q].jobs \subseteq run[q].jobs /\ run'[q].marks \subseteq run[q].marks,
             stranded \subseteq stranded',
             \A q \in Runs : run[q].jobs \cup run[q].marks \subseteq run'[q].jobs \cup run'[q].marks \cup stranded'
      PROVE  Safe'
  <2>1. HandoversAreFirst' /\ QueuedOnce' /\ MarksAreRefused'
    BY <1>1 DEF IInv, Safe, HandoversAreFirst, QueuedOnce, MarksAreRefused
  <2>2. OutcomesAreReal' /\ StatusHasCause' /\ DeletedIsDecided'
    BY <1>1 DEF IInv, Safe, OutcomesAreReal, Working, StatusHasCause, DeletedIsDecided
  <2>3. NoneLeftQueued'
    BY <1>1 DEF IInv, Safe, NoneLeftQueued
  <2>4. QED
    BY <2>1, <2>2, <2>3 DEF Safe
<1>2. TypeOK
  BY DEF IInv
<1>3. CASE Tick(r) \/ Notify(r)
  <2>1. UNCHANGED <<row, refused, stranded, queue, handed, worker, delivered, rejected>>
    BY <1>3 DEF Tick, Notify, Start, sqs, provider
  <2>2. \A q \in Runs : run'[q].jobs = run[q].jobs /\ run'[q].marks = run[q].marks
    BY <1>2, <1>3, StartRun, RunWritten, EndedType
  <2>3. QED
    BY <1>1, <2>1, <2>2
<1>4. CASE StartQueueing(r)
  <2>1. UNCHANGED <<row, refused, stranded, queue, handed, worker, delivered, rejected>>
    BY <1>4 DEF StartQueueing, sqs, provider
  <2>2. \A q \in Runs : run'[q].jobs = run[q].jobs /\ run'[q].marks = run[q].marks
    BY <1>2, <1>4, QueueingRun, RunWritten
  <2>3. QED
    BY <1>1, <2>1, <2>2
<1>5. CASE RunBreaks(r)
  <2>1. /\ UNCHANGED <<row, refused, queue, handed, worker, delivered, rejected>>
        /\ stranded' = stranded \cup run[r].jobs \cup run[r].marks
    BY <1>5 DEF RunBreaks, sqs, provider
  <2>2. run'[r] = Ended /\ \A q \in Runs \ {r} : run'[q] = run[q]
    BY <1>2, <1>5, EndedType, RunWritten DEF RunBreaks, RunBecomes
  <2>3. QED
    BY <1>1, <2>1, <2>2, EndedType
<1>6. QED
  BY <1>3, <1>4, <1>5, InsertKeeps, EnqueueKeeps, MarkKeeps DEF RunStep

-----------------------------------------------------------------------------
(* Workers and SQS.                                                         *)

LEMMA ReceiveKeeps == ASSUME IInv, NEW w \in Workers, Receive(w)
                      PROVE  Safe'
<1>1. /\ UNCHANGED <<row, run, refused, stranded, handed, delivered, rejected>>
      /\ \A k \in Keys : queue'[k] = queue[k] \/ queue'[k] = "hidden"
      /\ \A v \in Workers : worker'[v] = worker[v] \/ worker'[v].stage = "sending"
  <2>1. PICK n, S : /\ PollBecomes(w, n) /\ n.stage = "sending" /\ S \subseteq Keys
                    /\ queue' = [k \in Keys |-> IF k \in S THEN "hidden" ELSE queue[k]]
                    /\ receipt' = [k \in Keys |-> IF k \in S THEN {w} ELSE receipt[k]]
    BY ReceivePoll DEF IInv
  <2>2. \A v \in Workers : worker'[v] = worker[v] \/ worker'[v].stage = "sending"
    BY <2>1, PollWritten DEF IInv
  <2>3. QED
    BY <2>1, <2>2 DEF Receive, api
<1>2. HandoversAreFirst' /\ QueuedOnce' /\ MarksAreRefused'
  BY <1>1 DEF IInv, Safe, HandoversAreFirst, QueuedOnce, MarksAreRefused
<1>3. OutcomesAreReal' /\ StatusHasCause' /\ DeletedIsDecided'
  BY <1>1 DEF IInv, Safe, OutcomesAreReal, Working, StatusHasCause, DeletedIsDecided
<1>4. NoneLeftQueued'
  BY <1>1 DEF IInv, Safe, NoneLeftQueued
<1>5. QED
  BY <1>2, <1>3, <1>4 DEF Safe

LEMMA SendKeeps == ASSUME IInv, NEW w \in Workers, NEW k \in Keys, Send(w, k)
                   PROVE  Safe'
<1>1. /\ UNCHANGED <<row, run, refused, stranded, queue, handed>>
      /\ delivered \subseteq delivered' /\ rejected \subseteq rejected'
  BY DEF Send, api, sqs
<1>2. \A v \in Workers : \/ worker'[v] = worker[v]
                         \/ worker'[v].stage \in {"sending", "polling"}
                         \/ worker'[v].stage = "sent" /\ worker'[v].item = {k} /\ k \in delivered'
                         \/ worker'[v].stage = "failed" /\ worker'[v].item = {k} /\ k \in rejected'
  BY WorkerMoves, PollWritten DEF Send, IInv
<1>3. HandoversAreFirst' /\ QueuedOnce' /\ MarksAreRefused'
  BY <1>1 DEF IInv, Safe, HandoversAreFirst, QueuedOnce, MarksAreRefused
<1>4. OutcomesAreReal' /\ StatusHasCause' /\ DeletedIsDecided'
  BY <1>1, <1>2 DEF IInv, Safe, OutcomesAreReal, Working, StatusHasCause, DeletedIsDecided
<1>5. NoneLeftQueued'
  BY <1>1 DEF IInv, Safe, NoneLeftQueued
<1>6. QED
  BY <1>3, <1>4, <1>5 DEF Safe

LEMMA RecordKeeps == ASSUME IInv, NEW w \in Workers, NEW k \in Keys, Record(w, k)
                     PROVE  Safe'
<1>1. UNCHANGED <<run, refused, stranded, queue, handed, delivered, rejected>>
  BY DEF Record, sqs
<1>2. \A q \in Keys : \/ row'[q] = row[q]
                      \/ q = k /\ row'[q] = "sent" /\ q \in delivered
                      \/ q = k /\ row'[q] = "failed" /\ q \in rejected
  BY DEF Record, Marked, IInv, Safe, OutcomesAreReal, TypeOK
<1>3. row'[k] \in {"sent", "failed"} /\ k \in delivered \cup rejected
  BY DEF Record, Marked, IInv, Safe, OutcomesAreReal, TypeOK
<1>4. \A v \in Workers : \/ worker'[v] = worker[v]
                         \/ worker'[v].stage = "deleting" /\ worker'[v].item = {k}
  BY WorkerMoves, PollWritten DEF Record, IInv
<1>5. HandoversAreFirst' /\ QueuedOnce' /\ MarksAreRefused'
  <2>1. \A q \in Keys : row'[q] = "absent" => row[q] = "absent"
    BY <1>2
  <2>2. \A q \in Runs : run[q].jobs \subseteq Keys
    BY DEF IInv, TypeOK, RunRecord
  <2>3. QED
    BY <1>1, <1>2, <2>1, <2>2 DEF IInv, Safe, HandoversAreFirst, QueuedOnce, MarksAreRefused
<1>6. OutcomesAreReal'
  BY <1>1, <1>2, <1>3, <1>4 DEF IInv, Safe, OutcomesAreReal, Working
<1>7. StatusHasCause' /\ DeletedIsDecided'
  BY <1>1, <1>2 DEF IInv, Safe, StatusHasCause, DeletedIsDecided
<1>8. NoneLeftQueued'
  BY <1>1, <1>2 DEF IInv, Safe, NoneLeftQueued
<1>9. QED
  BY <1>5, <1>6, <1>7, <1>8 DEF Safe

LEMMA DeleteKeeps == ASSUME IInv, NEW w \in Workers, NEW k \in Keys, Delete(w, k)
                     PROVE  Safe'
<1>1. UNCHANGED <<row, run, refused, stranded, handed, delivered, rejected>>
  BY DEF Delete, api
<1>2. k \in delivered \cup rejected /\ row[k] \in {"sent", "failed"}
  BY DEF Delete, MayDelete, IInv, Safe, OutcomesAreReal
<1>3. \A q \in Keys : queue'[q] = queue[q] \/ q = k
  BY DEF Delete, IInv, TypeOK
<1>4. \A v \in Workers : worker'[v] = worker[v] \/ worker'[v].stage \in {"sending", "polling"}
  BY WorkerMoves, PollWritten DEF Delete, IInv
<1>5. HandoversAreFirst' /\ QueuedOnce' /\ MarksAreRefused'
  BY <1>1 DEF IInv, Safe, HandoversAreFirst, QueuedOnce, MarksAreRefused
<1>6. OutcomesAreReal' /\ StatusHasCause'
  BY <1>1, <1>4 DEF IInv, Safe, OutcomesAreReal, Working, StatusHasCause
<1>7. DeletedIsDecided' /\ NoneLeftQueued'
  BY <1>1, <1>2, <1>3 DEF IInv, Safe, DeletedIsDecided, NoneLeftQueued
<1>8. QED
  BY <1>5, <1>6, <1>7 DEF Safe

LEMMA SafeStep == IInv /\ [Next]_vars => Safe'
<1> SUFFICES ASSUME IInv, [Next]_vars PROVE Safe'
  OBVIOUS
<1>1. ASSUME NEW w \in Workers, WorkerBreaks(w) PROVE Safe'
  <2>1. UNCHANGED <<api, sqs, delivered, rejected>>
    BY <1>1 DEF WorkerBreaks
  <2>2. \A v \in Workers : worker'[v] = worker[v] \/ worker'[v].stage = "polling"
    BY <1>1, IdleType, PollWritten DEF WorkerBreaks, PollBecomes, IInv
  <2>3. QED
    BY <2>1, <2>2 DEF api, sqs, IInv, Safe, HandoversAreFirst, QueuedOnce, MarksAreRefused,
       OutcomesAreReal, Working, StatusHasCause, DeletedIsDecided, NoneLeftQueued
<1>2. ASSUME NEW k \in Keys, Expire(k) PROVE Safe'
  <2>1. UNCHANGED <<api, handed, provider>>
        /\ \A q \in Keys : queue'[q] = queue[q] \/ queue'[q] = "visible"
    BY <1>2 DEF Expire, IInv, TypeOK
  <2>2. QED
    BY <2>1 DEF api, provider, IInv, Safe, HandoversAreFirst, QueuedOnce, MarksAreRefused,
       OutcomesAreReal, Working, StatusHasCause, DeletedIsDecided, NoneLeftQueued
<1>3. CASE UNCHANGED vars
  BY <1>3 DEF vars, api, sqs, provider, IInv, Safe, HandoversAreFirst, QueuedOnce, MarksAreRefused,
     OutcomesAreReal, Working, StatusHasCause, DeletedIsDecided, NoneLeftQueued
<1>4. QED
  BY <1>1, <1>2, <1>3, RunKeeps, ReceiveKeeps, SendKeeps, RecordKeeps, DeleteKeeps DEF Next, Consume

LEMMA Invariance == Spec => []IInv
<1>1. IInv /\ [Next]_vars => IInv'
  BY TypeStep, SafeStep DEF IInv
<1>2. QED
  BY <1>1, InitIInv, PTL DEF Spec

-----------------------------------------------------------------------------
\* Rows, messages, runs and workers stay in their domains.
THEOREM TypeCorrect == Spec => []TypeOK
<1>1. IInv => TypeOK
  BY DEF IInv
<1>2. QED
  BY <1>1, Invariance, PTL

\* However many ticks and approvals overlap, enqueueSms gets a dedupe key past
\* SQS once.
THEOREM HandedOverOnce == Spec => []QueuedOnce
<1>1. IInv => QueuedOnce
  BY DEF IInv, Safe
<1>2. QED
  BY <1>1, Invariance, PTL

\* sms_reminder_log never claims an outcome that nobody saw, and forgets no
\* message except those of a run that ended before it could mark them.
THEOREM LogStaysTrue == Spec => []LogIsTrue
<1>1. IInv => LogIsTrue
  BY DEF IInv, Safe, LogIsTrue
<1>2. QED
  BY <1>1, Invariance, PTL

\* The worker deletes no message that is neither delivered nor rejected.
THEOREM OnlyDecidedDeleted == Spec => []DeletedIsDecided
<1>1. IInv => DeletedIsDecided
  BY DEF IInv, Safe
<1>2. QED
  BY <1>1, Invariance, PTL
=============================================================================
