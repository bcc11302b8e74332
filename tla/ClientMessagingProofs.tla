------------------------- MODULE ClientMessagingProofs -------------------------
(***************************************************************************)
(* Proofs about message campaigns, for any number of deliveries, workers,  *)
(* receives and faults: who may send a delivery, when it can be sent       *)
(* twice, and that the promise of MessageDelivery is kept as long as       *)
(* workers are in time and no answer is lost.                              *)
(***************************************************************************)
EXTENDS ClientMessaging, FiniteSetTheorems, TLAPS

\* Only one worker is between the claim of a delivery and its last word on it.
OneSender ==
  \A v, w \in Workers : Sending(v) /\ Sending(w) /\ Job(v) = Job(w) => v = w

\* A delivery that may still be sent was accepted before only if that is in doubt.
AcceptedOnce ==
  \A d \in Deliveries :
    d \notin doubtful =>
      /\ accepted[d] <= 1
      /\ row[d] = "QUEUED" => accepted[d] = 0
      /\ \A w \in Workers : Job(w) = d /\ worker[w].stage \in {"sending", "failing"}
                              => accepted[d] = 0

IInv == TypeOK /\ QueuedIsFree /\ OneSender /\ AcceptedOnce

WorkerRecord == [stage : Stages, job : Deliveries \cup {None}, final : BOOLEAN,
                 current : BOOLEAN, delete : BOOLEAN, sent : Nat, failed : Nat, pending : Nat]

LEMMA Counted ==
  ASSUME NEW status PROVE Count(status) \in Nat
<1>1. IsFiniteSet({d \in Deliveries : row[d] \in status})
  BY RetiredAssumption, FS_Subset
<1>2. QED
  BY <1>1, FS_CardinalityType DEF Count

LEMMA InitIInv == Init => IInv
  BY NoneAssumption, BoundsAssumption
  DEF Init, IInv, TypeOK, QueuedIsFree, OneSender, AcceptedOnce, Idle, Sending, Claimed, Holds, Job,
      Statuses, Verdicts, Stages

\* A step in which one worker moves on and nothing breaks a type elsewhere.
LEMMA WorkerTypes ==
  ASSUME TypeOK, NEW w \in Workers, NEW n \in WorkerRecord, Become(w, n),
         n.job = None <=> n.stage = "idle"
  PROVE  /\ worker' \in [Workers -> WorkerRecord]
         /\ \A v \in Workers : worker'[v] = IF v = w THEN n ELSE worker[v]
         /\ \A v \in Workers : worker'[v].job = None <=> worker'[v].stage = "idle"
  BY DEF TypeOK, WorkerRecord, Become

LEMMA WorkerFields ==
  ASSUME TypeOK, NEW w \in Workers
  PROVE  /\ worker[w] \in WorkerRecord /\ Idle \in WorkerRecord
         /\ worker[w].stage # "idle" => Job(w) \in Deliveries
         /\ \A stage \in Stages :
              LET n == [worker[w] EXCEPT !.stage = stage]
              IN  /\ n \in WorkerRecord /\ n.stage = stage /\ n.job = Job(w)
                  /\ n.delete = worker[w].delete
         /\ \A stage \in Stages, b \in BOOLEAN :
              LET n == [worker[w] EXCEPT !.stage = stage, !.delete = b]
              IN  /\ n \in WorkerRecord /\ n.stage = stage /\ n.job = Job(w)
         /\ \A stage \in Stages, b \in BOOLEAN :
              LET n == [worker[w] EXCEPT !.stage = stage, !.final = b]
              IN  /\ n \in WorkerRecord /\ n.stage = stage /\ n.job = Job(w)
         /\ Idle.stage = "idle" /\ Idle.job = None
<1>1. worker[w] \in WorkerRecord
  BY DEF TypeOK, WorkerRecord
<1>2. Idle \in WorkerRecord /\ Idle.stage = "idle" /\ Idle.job = None
  BY DEF Idle, WorkerRecord, Stages
<1>3. worker[w].stage # "idle" => Job(w) \in Deliveries
  BY <1>1, NoneAssumption DEF TypeOK, WorkerRecord, Job
<1>4. QED
  BY <1>1, <1>2, <1>3 DEF WorkerRecord, Job

\* What the safety argument needs of a step of worker w to the record n: rows and
\* acceptances change at its delivery only, and whoever enters the claim finds
\* the delivery queued.
SenderStep(w, n) ==
  /\ Become(w, n)
  /\ n.job \in {None, Job(w)} \/ n.stage \notin Claimed
  /\ \A d \in Deliveries : d # Job(w) => row'[d] = row[d] /\ accepted'[d] = accepted[d]
  /\ doubtful \subseteq doubtful'
  /\ n.stage \in Claimed =>
       /\ row'[n.job] # "QUEUED"
       /\ Sending(w) \/ row[n.job] = "QUEUED"
  /\ Job(w) \in Deliveries /\ row'[Job(w)] = "QUEUED" =>
       row[Job(w)] = "QUEUED" \/ (Sending(w) /\ n.stage = "recounting")
  /\ Job(w) \in Deliveries /\ Job(w) \notin doubtful' =>
       /\ accepted'[Job(w)] <= 1
       /\ accepted'[Job(w)] # accepted[Job(w)] => Sending(w)
       /\ row'[Job(w)] = "QUEUED" => accepted'[Job(w)] = 0
       /\ n.stage \in {"sending", "failing"} => accepted'[Job(w)] = 0

LEMMA SenderKeeps ==
  ASSUME IInv, NEW w \in Workers, NEW n \in WorkerRecord, SenderStep(w, n), TypeOK',
         n.job = None <=> n.stage = "idle"
  PROVE  IInv'
<1> USE DEF SenderStep
<1>1. \A v \in Workers : worker'[v] = IF v = w THEN n ELSE worker[v]
  BY WorkerTypes DEF IInv
<1>2. \A v \in Workers : v # w => (Sending(v)' <=> Sending(v)) /\ Job(v)' = Job(v)
  BY <1>1 DEF Sending, Job
<1>3. (Sending(w)' <=> n.stage \in Claimed)
      /\ Job(w)' = n.job
  BY <1>1 DEF Sending, Job
<1>4. \A v \in Workers : Sending(v) => Job(v) \in Deliveries /\ row[Job(v)] # "QUEUED"
  BY WorkerFields DEF IInv, QueuedIsFree, Sending, Claimed, Holds, Job
<1>5. Sending(w)' => n.job \in Deliveries /\ n.job = Job(w)
  BY <1>3, NoneAssumption DEF WorkerRecord, Claimed
<1>6. ASSUME NEW v \in Workers, v # w, Sending(v), Sending(w)' PROVE Job(v) # n.job
  BY <1>3, <1>4, <1>5, <1>6 DEF IInv, OneSender
<1>7. OneSender'
  BY <1>2, <1>3, <1>6 DEF IInv, OneSender
<1>8. QueuedIsFree'
  <2> SUFFICES ASSUME NEW d \in Deliveries, NEW v \in Workers, Sending(v)', Job(v)' = d
              PROVE  row'[d] # "QUEUED"
    BY DEF QueuedIsFree, Holds, Job
  <2>1. CASE v = w
    BY <1>3, <2>1
  <2>2. CASE v # w
    <3>1. Sending(v) /\ Job(v) = d /\ row[d] # "QUEUED"
      BY <1>2, <1>4, <2>2
    <3>2. CASE d # Job(w)
      BY <3>1, <3>2
    <3>3. CASE d = Job(w)
      BY <2>2, <3>1, <3>3 DEF IInv, OneSender
    <3>4. QED
      BY <3>2, <3>3
  <2>3. QED
    BY <2>1, <2>2
<1>9. AcceptedOnce'
  <2> SUFFICES ASSUME NEW d \in Deliveries, d \notin doubtful'
              PROVE  /\ accepted'[d] <= 1
                     /\ row'[d] = "QUEUED" => accepted'[d] = 0
                     /\ \A v \in Workers : Job(v)' = d /\ worker'[v].stage \in {"sending", "failing"}
                                             => accepted'[d] = 0
    BY DEF AcceptedOnce
  <2>1. d \notin doubtful
    OBVIOUS
  <2>2. CASE d # Job(w)
    BY <1>1, <1>2, <1>3, <1>5, <2>1, <2>2, NoneAssumption DEF IInv, AcceptedOnce, Job, Sending, Claimed
  <2>3. CASE d = Job(w)
    <3>1. ASSUME NEW v \in Workers, v # w, Job(v)' = d, worker'[v].stage \in {"sending", "failing"}
          PROVE  accepted'[d] = 0
      <4>1. Sending(v) /\ Job(v) = d /\ accepted[d] = 0
        BY <1>1, <1>2, <2>1, <3>1 DEF IInv, AcceptedOnce, Sending, Claimed, Job
      <4>2. ~Sending(w)
        BY <2>3, <3>1, <4>1 DEF IInv, OneSender
      <4>3. QED
        BY <2>3, <4>1, <4>2
    <3>2. QED
      BY <1>1, <1>3, <1>5, <2>3, <3>1 DEF Job
  <2>4. QED
    BY <2>2, <2>3
<1>10. QED
  BY <1>7, <1>8, <1>9 DEF IInv

LEMMA StepTypes ==
  ASSUME TypeOK, NEW w \in Workers, NEW n \in WorkerRecord, Become(w, n),
         n.job = None <=> n.stage = "idle",
         row' \in [Deliveries -> Statuses],
         campaign' \in [status : Verdicts, sent : Nat, failed : Nat],
         queue' \in [Deliveries -> [state : {"absent", "visible", "inflight", "deleted", "dead"},
                                    receives : Nat]],
         accepted' \in [Deliveries -> Nat],
         doubtful' \subseteq Deliveries, interrupted' \subseteq Deliveries,
         outages' \in Nat, crashes' \in Nat, losses' \in Nat, delays' \in Nat,
         UNCHANGED api
  PROVE  TypeOK'
<1>1. /\ worker' \in [Workers -> WorkerRecord]
      /\ \A v \in Workers : worker'[v].job = None <=> worker'[v].stage = "idle"
  BY WorkerTypes
<1>2. QED
  BY <1>1 DEF TypeOK, WorkerRecord

LEMMA ReceiveStep ==
  ASSUME IInv, NEW w \in Workers, NEW d \in Deliveries, Receive(w, d) PROVE IInv'
<1> DEFINE final == queue[d].receives + 1 >= LastReceive
           n == [Idle EXCEPT !.stage = "received", !.job = d, !.current = TRUE, !.final = final]
<1>1. final \in BOOLEAN
  OBVIOUS
<1>2. Become(w, n) /\ UNCHANGED <<row, campaign, api, faults, history>>
  BY DEF Receive
<1> HIDE DEF final
<1>3. n \in WorkerRecord /\ n.stage = "received" /\ n.job = d
  BY <1>1 DEF WorkerRecord, Idle, Stages
<1>4. queue' \in [Deliveries -> [state : {"absent", "visible", "inflight", "deleted", "dead"},
                                 receives : Nat]]
  BY DEF Receive, IInv, TypeOK
<1>5. n.job = None <=> n.stage = "idle"
  BY <1>3, NoneAssumption
<1> HIDE DEF n
<1>6. TypeOK'
  BY <1>2, <1>3, <1>4, <1>5, StepTypes DEF IInv, TypeOK, faults, history
<1>7. Job(w) \notin Deliveries
  BY NoneAssumption DEF Receive, IInv, TypeOK, Job
<1>8. SenderStep(w, n)
  BY <1>2, <1>3, <1>7 DEF SenderStep, Claimed, history
<1>9. QED
  BY <1>3, <1>5, <1>6, <1>8, SenderKeeps

LEMMA ClaimStep ==
  ASSUME IInv, NEW w \in Workers, Claim(w) PROVE IInv'
<1> DEFINE d == Job(w)
           n == [worker[w] EXCEPT !.stage = "sending"]
<1>1. worker[w].stage # "idle" /\ worker[w] \in WorkerRecord /\ d \in Deliveries
  BY WorkerFields DEF IInv, Claim
<1>2. n \in WorkerRecord /\ n.stage = "sending" /\ n.job = d
  BY <1>1 DEF WorkerRecord, Stages, Job
<1>3. Become(w, n) /\ UNCHANGED <<campaign, api, queue, faults, history>>
  BY DEF Claim, Enter
<1>4. /\ row' \in [Deliveries -> Statuses]
      /\ \A e \in Deliveries : e # d => row'[e] = row[e]
      /\ row'[d] = "SENDING"
  BY <1>1 DEF Claim, Set, IInv, TypeOK, Statuses
<1>5. /\ d \notin doubtful => accepted[d] <= 1 /\ (row[d] = "QUEUED" => accepted[d] = 0)
      /\ row[d] = "QUEUED"
  BY <1>1 DEF IInv, AcceptedOnce, Claim, Sending, Claimed, Claimable, Job
<1> HIDE DEF n
<1>6. n.job = None <=> n.stage = "idle"
  BY <1>1, <1>2, NoneAssumption
<1>7. TypeOK'
  BY <1>2, <1>3, <1>4, <1>6, StepTypes DEF IInv, TypeOK, faults, history
<1>8. n.stage \in Claimed => /\ row'[n.job] # "QUEUED"
                             /\ Sending(w) \/ row[n.job] = "QUEUED"
  BY <1>2, <1>4, <1>5 DEF Claimed
<1>9. row'[d] = "QUEUED" => row[d] = "QUEUED" \/ (Sending(w) /\ n.stage = "recounting")
  BY <1>2, <1>4, <1>5
<1>10. accepted' = accepted /\ doubtful' = doubtful
  BY <1>3 DEF history
<1>11. d \notin doubtful' =>
        /\ accepted'[d] <= 1
        /\ row'[d] = "QUEUED" => accepted'[d] = 0
        /\ n.stage \in {"sending", "failing"} => accepted'[d] = 0
  BY <1>2, <1>4, <1>5, <1>10
<1>12. SenderStep(w, n)
  BY <1>1, <1>2, <1>3, <1>4, <1>8, <1>9, <1>10, <1>11 DEF SenderStep
<1>13. QED
  BY <1>2, <1>6, <1>7, <1>12, SenderKeeps

LEMMA SkipStep ==
  ASSUME IInv, NEW w \in Workers, Skip(w) PROVE IInv'
<1> DEFINE d == Job(w)
           n == [worker[w] EXCEPT !.stage = IF row[Job(w)] = "SENDING" THEN "uncertain" ELSE "deleting"]
<1>1. worker[w].stage # "idle" /\ worker[w] \in WorkerRecord /\ d \in Deliveries
  BY WorkerFields DEF IInv, Skip
<1>2. n \in WorkerRecord /\ n.stage \in {"uncertain", "deleting"} /\ n.job = d
  BY <1>1 DEF WorkerRecord, Stages, Job
<1>3. Become(w, n) /\ UNCHANGED <<campaign, api, queue, faults, history>>
  BY DEF Skip, Enter
<1>4. /\ row' \in [Deliveries -> Statuses]
      /\ \A e \in Deliveries : e # d => row'[e] = row[e]
      /\ row'[d] = row[d]
  BY <1>1 DEF Skip, Set, IInv, TypeOK, Statuses
<1>5. /\ d \notin doubtful => accepted[d] <= 1 /\ (row[d] = "QUEUED" => accepted[d] = 0)
  BY <1>1 DEF IInv, AcceptedOnce, Skip, Sending, Claimed, Claimable, Job
<1> HIDE DEF n
<1>6. n.job = None <=> n.stage = "idle"
  BY <1>1, <1>2, NoneAssumption
<1>7. TypeOK'
  BY <1>2, <1>3, <1>4, <1>6, StepTypes DEF IInv, TypeOK, faults, history
<1>8. n.stage \in Claimed => /\ row'[n.job] # "QUEUED"
                             /\ Sending(w) \/ row[n.job] = "QUEUED"
  BY <1>2, <1>4, <1>5 DEF Claimed
<1>9. row'[d] = "QUEUED" => row[d] = "QUEUED" \/ (Sending(w) /\ n.stage = "recounting")
  BY <1>2, <1>4, <1>5
<1>10. accepted' = accepted /\ doubtful' = doubtful
  BY <1>3 DEF history
<1>11. d \notin doubtful' =>
        /\ accepted'[d] <= 1
        /\ row'[d] = "QUEUED" => accepted'[d] = 0
        /\ n.stage \in {"sending", "failing"} => accepted'[d] = 0
  BY <1>2, <1>4, <1>5, <1>10
<1>12. SenderStep(w, n)
  BY <1>1, <1>2, <1>3, <1>4, <1>8, <1>9, <1>10, <1>11 DEF SenderStep
<1>13. QED
  BY <1>2, <1>6, <1>7, <1>12, SenderKeeps

LEMMA GiveUpStep ==
  ASSUME IInv, NEW w \in Workers, GiveUp(w) PROVE IInv'
<1> DEFINE d == Job(w)
           n == [worker[w] EXCEPT !.stage = "recounting", !.delete = TRUE]
<1>1. worker[w].stage # "idle" /\ worker[w] \in WorkerRecord /\ d \in Deliveries
  BY WorkerFields DEF IInv, GiveUp
<1>2. n \in WorkerRecord /\ n.stage = "recounting" /\ n.job = d
  BY <1>1 DEF WorkerRecord, Stages, Job
<1>3. Become(w, n) /\ UNCHANGED <<campaign, api, queue, faults, history>>
  BY DEF GiveUp, Enter
<1>4. /\ row' \in [Deliveries -> Statuses]
      /\ \A e \in Deliveries : e # d => row'[e] = row[e]
      /\ row'[d] = "FAILED"
  BY <1>1 DEF GiveUp, Set, IInv, TypeOK, Statuses, UncertainOutcome
<1>5. /\ d \notin doubtful => accepted[d] <= 1 /\ (row[d] = "QUEUED" => accepted[d] = 0)
  BY <1>1 DEF IInv, AcceptedOnce, GiveUp, Sending, Claimed, Claimable, Job
<1> HIDE DEF n
<1>6. n.job = None <=> n.stage = "idle"
  BY <1>1, <1>2, NoneAssumption
<1>7. TypeOK'
  BY <1>2, <1>3, <1>4, <1>6, StepTypes DEF IInv, TypeOK, faults, history
<1>8. n.stage \in Claimed => /\ row'[n.job] # "QUEUED"
                             /\ Sending(w) \/ row[n.job] = "QUEUED"
  BY <1>2, <1>4, <1>5 DEF Claimed
<1>9. row'[d] = "QUEUED" => row[d] = "QUEUED" \/ (Sending(w) /\ n.stage = "recounting")
  BY <1>2, <1>4, <1>5
<1>10. accepted' = accepted /\ doubtful' = doubtful
  BY <1>3 DEF history
<1>11. d \notin doubtful' =>
        /\ accepted'[d] <= 1
        /\ row'[d] = "QUEUED" => accepted'[d] = 0
        /\ n.stage \in {"sending", "failing"} => accepted'[d] = 0
  BY <1>2, <1>4, <1>5, <1>10
<1>12. SenderStep(w, n)
  BY <1>1, <1>2, <1>3, <1>4, <1>8, <1>9, <1>10, <1>11 DEF SenderStep
<1>13. QED
  BY <1>2, <1>6, <1>7, <1>12, SenderKeeps

LEMMA RetireStep ==
  ASSUME IInv, NEW w \in Workers, Retire(w) PROVE IInv'
<1> DEFINE d == Job(w)
           n == [worker[w] EXCEPT !.stage = "recounting", !.delete = TRUE]
<1>1. worker[w].stage # "idle" /\ worker[w] \in WorkerRecord /\ d \in Deliveries
  BY WorkerFields DEF IInv, Retire
<1>2. n \in WorkerRecord /\ n.stage = "recounting" /\ n.job = d
  BY <1>1 DEF WorkerRecord, Stages, Job
<1>3. Become(w, n) /\ UNCHANGED <<campaign, api, queue, faults, history>>
  BY DEF Retire, Enter
<1>4. /\ row' \in [Deliveries -> Statuses]
      /\ \A e \in Deliveries : e # d => row'[e] = row[e]
      /\ row'[d] \in {"FAILED", row[d]}
  BY <1>1 DEF Retire, Set, IInv, TypeOK, Statuses
<1>5. /\ d \notin doubtful => accepted[d] <= 1 /\ (row[d] = "QUEUED" => accepted[d] = 0)
  BY <1>1 DEF IInv, AcceptedOnce, Retire, Sending, Claimed, Claimable, Job
<1> HIDE DEF n
<1>6. n.job = None <=> n.stage = "idle"
  BY <1>1, <1>2, NoneAssumption
<1>7. TypeOK'
  BY <1>2, <1>3, <1>4, <1>6, StepTypes DEF IInv, TypeOK, faults, history
<1>8. n.stage \in Claimed => /\ row'[n.job] # "QUEUED"
                             /\ Sending(w) \/ row[n.job] = "QUEUED"
  BY <1>2, <1>4, <1>5 DEF Claimed
<1>9. row'[d] = "QUEUED" => row[d] = "QUEUED" \/ (Sending(w) /\ n.stage = "recounting")
  BY <1>2, <1>4, <1>5
<1>10. accepted' = accepted /\ doubtful' = doubtful
  BY <1>3 DEF history
<1>11. d \notin doubtful' =>
        /\ accepted'[d] <= 1
        /\ row'[d] = "QUEUED" => accepted'[d] = 0
        /\ n.stage \in {"sending", "failing"} => accepted'[d] = 0
  BY <1>2, <1>4, <1>5, <1>10
<1>12. SenderStep(w, n)
  BY <1>1, <1>2, <1>3, <1>4, <1>8, <1>9, <1>10, <1>11 DEF SenderStep
<1>13. QED
  BY <1>2, <1>6, <1>7, <1>12, SenderKeeps

LEMMA RecordFailureStep ==
  ASSUME IInv, NEW w \in Workers, RecordFailure(w) PROVE IInv'
<1> DEFINE d == Job(w)
           n == [worker[w] EXCEPT !.stage = "recounting", !.delete = worker[w].final]
<1>1. worker[w].stage # "idle" /\ worker[w] \in WorkerRecord /\ d \in Deliveries
  BY WorkerFields DEF IInv, RecordFailure
<1>2. n \in WorkerRecord /\ n.stage = "recounting" /\ n.job = d
  BY <1>1 DEF WorkerRecord, Stages, Job
<1>3. Become(w, n) /\ UNCHANGED <<campaign, api, queue, faults, history>>
  BY DEF RecordFailure, Enter
<1>4. /\ row' \in [Deliveries -> Statuses]
      /\ \A e \in Deliveries : e # d => row'[e] = row[e]
      /\ row'[d] \in {"FAILED", "QUEUED"}
  BY <1>1 DEF RecordFailure, Set, IInv, TypeOK, Statuses, GivenBack
<1>5. /\ d \notin doubtful => accepted[d] <= 1 /\ (row[d] = "QUEUED" => accepted[d] = 0)
      /\ Sending(w) /\ (d \notin doubtful => accepted[d] = 0)
  BY <1>1 DEF IInv, AcceptedOnce, RecordFailure, Sending, Claimed, Claimable, Job
<1> HIDE DEF n
<1>6. n.job = None <=> n.stage = "idle"
  BY <1>1, <1>2, NoneAssumption
<1>7. TypeOK'
  BY <1>2, <1>3, <1>4, <1>6, StepTypes DEF IInv, TypeOK, faults, history
<1>8. n.stage \in Claimed => /\ row'[n.job] # "QUEUED"
                             /\ Sending(w) \/ row[n.job] = "QUEUED"
  BY <1>2, <1>4, <1>5 DEF Claimed
<1>9. row'[d] = "QUEUED" => row[d] = "QUEUED" \/ (Sending(w) /\ n.stage = "recounting")
  BY <1>2, <1>4, <1>5
<1>10. accepted' = accepted /\ doubtful' = doubtful
  BY <1>3 DEF history
<1>11. d \notin doubtful' =>
        /\ accepted'[d] <= 1
        /\ row'[d] = "QUEUED" => accepted'[d] = 0
        /\ n.stage \in {"sending", "failing"} => accepted'[d] = 0
  BY <1>2, <1>4, <1>5, <1>10
<1>12. SenderStep(w, n)
  BY <1>1, <1>2, <1>3, <1>4, <1>8, <1>9, <1>10, <1>11 DEF SenderStep
<1>13. QED
  BY <1>2, <1>6, <1>7, <1>12, SenderKeeps

LEMMA SendStep ==
  ASSUME IInv, NEW w \in Workers, Send(w) PROVE IInv'
<1> DEFINE d == Job(w)
<1>1. worker[w].stage # "idle" /\ worker[w] \in WorkerRecord /\ d \in Deliveries
  BY WorkerFields DEF IInv, Send
<1>2. Sending(w) /\ row[d] # "QUEUED" /\ (d \notin doubtful => accepted[d] = 0)
  BY <1>1 DEF Send, IInv, QueuedIsFree, AcceptedOnce, Sending, Claimed, Holds, Job
<1>3. PICK n \in WorkerRecord :
        /\ Become(w, n) /\ n.job = d
        /\ \/ n.stage = "sent" /\ Accepted(d) /\ UNCHANGED <<faults, doubtful>>
           \/ n.stage = "failing" /\ UNCHANGED <<faults, accepted, doubtful>>
           \/ n.stage = "failing" /\ Lost /\ Accepted(d) /\ Doubt(d)
  <2> DEFINE next(stage) == [worker[w] EXCEPT !.stage = stage]
             final == [worker[w] EXCEPT !.stage = "failing", !.final = TRUE]
  <2>1. /\ next("sent") \in WorkerRecord /\ next("sent").stage = "sent" /\ next("sent").job = d
        /\ next("failing") \in WorkerRecord /\ next("failing").stage = "failing" /\ next("failing").job = d
        /\ final \in WorkerRecord /\ final.stage = "failing" /\ final.job = d
    BY <1>1 DEF WorkerRecord, Stages, Job
  <2>2. \/ Accepted(d) /\ Become(w, next("sent")) /\ UNCHANGED <<faults, doubtful>>
        \/ Become(w, next("failing")) /\ UNCHANGED <<faults, accepted, doubtful>>
        \/ Become(w, final) /\ UNCHANGED <<faults, accepted, doubtful>>
        \/ Lost /\ Accepted(d) /\ Doubt(d) /\ Become(w, next("failing"))
    BY DEF Send, Enter
  <2> HIDE DEF next, final
  <2>3. QED
    BY <2>1, <2>2
<1>4. UNCHANGED <<row, campaign, api, queue, interrupted>>
  BY DEF Send
<1>5. /\ accepted' \in [Deliveries -> Nat] /\ doubtful' \subseteq Deliveries
      /\ outages' \in Nat /\ crashes' \in Nat /\ losses' \in Nat /\ delays' \in Nat
  BY <1>1, <1>3 DEF Accepted, Doubt, Lost, IInv, TypeOK, faults
<1>6. n.job = None <=> n.stage = "idle"
  BY <1>1, <1>3, NoneAssumption
<1>7. TypeOK'
  BY <1>3, <1>4, <1>5, <1>6, StepTypes DEF IInv, TypeOK
<1>8. /\ \A e \in Deliveries : e # d => accepted'[e] = accepted[e]
      /\ doubtful \subseteq doubtful'
      /\ d \notin doubtful' => /\ accepted'[d] <= 1
                               /\ n.stage \in {"sending", "failing"} => accepted'[d] = 0
  BY <1>1, <1>2, <1>3 DEF Accepted, Doubt, IInv, TypeOK
<1>9. SenderStep(w, n)
  BY <1>1, <1>2, <1>3, <1>4, <1>8 DEF SenderStep
<1>10. QED
  BY <1>6, <1>7, <1>9, SenderKeeps

\* An answer lost after AWS accepted the message: the delivery is in doubt.
LEMMA DoubtStep ==
  ASSUME IInv, NEW w \in Workers, Sending(w), Lost, Doubt(Job(w)), Enter(w, "failing"),
         UNCHANGED <<row, campaign, api, queue, accepted, interrupted>>
  PROVE  IInv'
<1> DEFINE d == Job(w)
           n == [worker[w] EXCEPT !.stage = "failing"]
<1>1. worker[w].stage # "idle" /\ worker[w] \in WorkerRecord /\ d \in Deliveries
  BY WorkerFields DEF IInv, Sending, Claimed
<1>2. n \in WorkerRecord /\ n.stage = "failing" /\ n.job = d /\ Become(w, n)
  BY <1>1 DEF WorkerRecord, Stages, Job, Enter
<1>3. row[d] # "QUEUED"
  BY <1>1 DEF IInv, QueuedIsFree, Holds, Job
<1> HIDE DEF n
<1>4. n.job = None <=> n.stage = "idle"
  BY <1>1, <1>2, NoneAssumption
<1>5. TypeOK'
  BY <1>1, <1>2, <1>4, StepTypes DEF IInv, TypeOK, Doubt, Lost
<1>6. d \in doubtful' /\ doubtful \subseteq doubtful'
  BY DEF Doubt
<1>7. SenderStep(w, n)
  BY <1>1, <1>2, <1>3, <1>6 DEF SenderStep
<1>8. QED
  BY <1>2, <1>4, <1>5, <1>7, SenderKeeps

LEMMA RefreshFailsStep ==
  ASSUME IInv, NEW w \in Workers, RefreshFails(w) PROVE IInv'
  BY DoubtStep DEF RefreshFails, Sending, Claimed

LEMMA RecordSentStep ==
  ASSUME IInv, NEW w \in Workers, RecordSent(w) PROVE IInv'
<1> DEFINE d == Job(w)
           n == [worker[w] EXCEPT !.stage = "counting", !.delete = TRUE]
<1>1. worker[w].stage # "idle" /\ worker[w] \in WorkerRecord /\ d \in Deliveries
  BY WorkerFields DEF IInv, RecordSent
<1>2. Sending(w)
  BY DEF RecordSent, Sending, Claimed
<1>3. CASE Lost /\ Doubt(d) /\ Enter(w, "failing") /\ UNCHANGED <<row, accepted, interrupted>>
  BY <1>2, <1>3, DoubtStep DEF RecordSent
<1>4. CASE Set(d, "SENT") /\ Become(w, n) /\ UNCHANGED <<faults, history>>
  <2>1. n \in WorkerRecord /\ n.stage = "counting" /\ n.job = d
    BY <1>1 DEF WorkerRecord, Stages, Job
  <2>2. d \notin doubtful => accepted[d] <= 1
    BY <1>1 DEF IInv, AcceptedOnce
  <2>3. /\ row' \in [Deliveries -> Statuses] /\ row'[d] = "SENT"
        /\ \A e \in Deliveries : e # d => row'[e] = row[e]
    BY <1>1, <1>4 DEF Set, IInv, TypeOK, Statuses
  <2>4. UNCHANGED <<campaign, api, queue, outages, crashes, losses, delays, accepted, doubtful, interrupted>>
    BY <1>4 DEF RecordSent, faults, history
  <2> HIDE DEF n
  <2>5. n.job = None <=> n.stage = "idle"
    BY <1>1, <2>1, NoneAssumption
  <2>6. TypeOK'
    BY <1>4, <2>1, <2>3, <2>4, <2>5, StepTypes DEF IInv, TypeOK
  <2>7. SenderStep(w, n)
    BY <1>1, <1>2, <1>4, <2>1, <2>2, <2>3, <2>4 DEF SenderStep
  <2>8. QED
    BY <2>1, <2>5, <2>6, <2>7, SenderKeeps
<1>5. QED
  BY <1>3, <1>4 DEF RecordSent

\* A step of a worker that touches no row and sends nothing.
LEMMA QuietStep ==
  ASSUME IInv, NEW w \in Workers, NEW n \in WorkerRecord, Become(w, n), TypeOK',
         n.job = None <=> n.stage = "idle",
         UNCHANGED <<row, accepted, doubtful>>,
         n.stage \in Claimed => Sending(w) /\ n.job = Job(w) /\ n.stage = "counted"
  PROVE  IInv'
<1>1. Sending(w) => Job(w) \in Deliveries /\ row[Job(w)] # "QUEUED"
  BY WorkerFields DEF IInv, QueuedIsFree, Sending, Claimed, Holds, Job
<1>2. /\ Job(w) \in Deliveries /\ Job(w) \notin doubtful =>
           /\ accepted[Job(w)] <= 1
           /\ row[Job(w)] = "QUEUED" => accepted[Job(w)] = 0
  BY DEF IInv, AcceptedOnce
<1>3. n.stage \in {"sending", "failing"} => n.stage \in Claimed /\ n.stage # "counted"
  BY DEF Claimed
<1>4. SenderStep(w, n)
  BY <1>1, <1>2, <1>3 DEF SenderStep
<1>5. QED
  BY <1>4, SenderKeeps

LEMMA TotalStep ==
  ASSUME IInv, NEW w \in Workers, Total(w) PROVE IInv'
<1> DEFINE stage == IF worker[w].stage = "counting" THEN "counted" ELSE "recounted"
           s == Count({"SENT"})
           f == Count({"FAILED"})
           p == Count({"QUEUED", "SENDING"})
           n == [worker[w] EXCEPT !.stage = stage, !.sent = s, !.failed = f, !.pending = p]
<1>1. worker[w].stage # "idle" /\ worker[w] \in WorkerRecord /\ Job(w) \in Deliveries
  BY WorkerFields DEF IInv, Total
<1>2. s \in Nat /\ f \in Nat /\ p \in Nat
  BY Counted
<1> HIDE DEF s, f, p
<1>3. /\ n \in WorkerRecord /\ n.stage \in {"counted", "recounted"} /\ n.job = Job(w)
      /\ n.stage = "counted" => worker[w].stage = "counting"
  BY <1>1, <1>2 DEF WorkerRecord, Stages, Job
<1>4. Become(w, n)
  BY DEF Total, s, f, p
<1>5. UNCHANGED <<row, campaign, api, queue, outages, crashes, losses, delays, accepted, doubtful, interrupted>>
  BY DEF Total, faults, history
<1> HIDE DEF n
<1>6. n.job = None <=> n.stage = "idle"
  BY <1>1, <1>3, NoneAssumption
<1>7. TypeOK'
  BY <1>3, <1>4, <1>5, <1>6, StepTypes DEF IInv, TypeOK
<1>8. n.stage \in Claimed => Sending(w) /\ n.job = Job(w) /\ n.stage = "counted"
  BY <1>3 DEF Claimed, Sending
<1>9. QED
  BY <1>3, <1>4, <1>5, <1>6, <1>7, <1>8, QuietStep

\* A worker that has finished with its message, or died with it.
LEMMA LeaveStep ==
  ASSUME IInv, NEW w \in Workers, NEW n \in WorkerRecord, Become(w, n),
         n = Idle \/ (n.stage = "deleting" /\ n.job = Job(w) /\ worker[w].stage # "idle"),
         campaign' \in [status : Verdicts, sent : Nat, failed : Nat],
         queue' \in [Deliveries -> [state : {"absent", "visible", "inflight", "deleted", "dead"},
                                    receives : Nat]],
         interrupted' \subseteq Deliveries, crashes' \in Nat,
         UNCHANGED <<row, api, outages, losses, delays, accepted, doubtful>>
  PROVE  IInv'
<1>0. worker[w].stage # "idle" => Job(w) \in Deliveries
  BY WorkerFields DEF IInv
<1>1. n.job = None <=> n.stage = "idle"
  BY <1>0, NoneAssumption DEF Idle
<1>2. TypeOK'
  BY <1>1, StepTypes DEF IInv, TypeOK
<1>3. n.stage \notin Claimed
  BY DEF Idle, Claimed
<1>4. QED
  BY <1>1, <1>2, <1>3, QuietStep

LEMMA RefreshStep ==
  ASSUME IInv, NEW w \in Workers, Refresh(w) PROVE IInv'
<1> DEFINE n == [worker[w] EXCEPT !.stage = "deleting"]
<1>1. worker[w].stage # "idle" /\ worker[w] \in WorkerRecord /\ Idle \in WorkerRecord
  BY WorkerFields DEF IInv, Refresh
<1>2. campaign' \in [status : Verdicts, sent : Nat, failed : Nat]
  <2>1. worker[w].sent \in Nat /\ worker[w].failed \in Nat /\ worker[w].pending \in Nat
    BY <1>1 DEF WorkerRecord
  <2>2. Verdict(worker[w].sent, worker[w].failed, worker[w].pending) \in Verdicts
    BY <2>1 DEF Verdict, Verdicts
  <2>3. QED
    BY <2>1, <2>2 DEF Refresh
<1>3. n \in WorkerRecord /\ n.stage = "deleting" /\ n.job = Job(w)
  BY <1>1 DEF WorkerRecord, Stages, Job
<1>4. Become(w, n) \/ Become(w, Idle)
  BY DEF Refresh, Enter
<1>5. /\ UNCHANGED <<row, api, queue, outages, crashes, losses, delays, accepted, doubtful, interrupted>>
      /\ interrupted' \subseteq Deliveries /\ crashes' \in Nat
      /\ queue' \in [Deliveries -> [state : {"absent", "visible", "inflight", "deleted", "dead"},
                                    receives : Nat]]
  BY DEF Refresh, faults, history, IInv, TypeOK
<1> HIDE DEF n
<1>6. QED
  BY <1>1, <1>2, <1>3, <1>4, <1>5, LeaveStep

LEMMA DeleteStep ==
  ASSUME IInv, NEW w \in Workers, Delete(w) PROVE IInv'
<1>1. Idle \in WorkerRecord /\ Job(w) \in Deliveries
  BY WorkerFields DEF IInv, Delete
<1>2. queue' \in [Deliveries -> [state : {"absent", "visible", "inflight", "deleted", "dead"},
                                 receives : Nat]]
  BY <1>1 DEF Delete, IInv, TypeOK
<1>3. /\ UNCHANGED <<row, api, outages, crashes, losses, delays, accepted, doubtful, interrupted>>
      /\ interrupted' \subseteq Deliveries /\ crashes' \in Nat
      /\ campaign' \in [status : Verdicts, sent : Nat, failed : Nat]
      /\ Become(w, Idle)
  BY DEF Delete, faults, history, IInv, TypeOK
<1>4. QED
  BY <1>1, <1>2, <1>3, LeaveStep

LEMMA WorkerCrashStep ==
  ASSUME IInv, NEW w \in Workers, WorkerCrash(w) PROVE IInv'
<1>1. Idle \in WorkerRecord /\ Job(w) \in Deliveries
  BY WorkerFields DEF IInv, WorkerCrash
<1>2. queue' \in [Deliveries -> [state : {"absent", "visible", "inflight", "deleted", "dead"},
                                 receives : Nat]]
  BY DEF WorkerCrash, IInv, TypeOK
<1>3. /\ UNCHANGED <<row, api, outages, losses, delays, accepted, doubtful>>
      /\ interrupted' \subseteq Deliveries /\ crashes' \in Nat
      /\ campaign' \in [status : Verdicts, sent : Nat, failed : Nat]
      /\ Become(w, Idle)
  BY <1>1 DEF WorkerCrash, IInv, TypeOK
<1>4. QED
  BY <1>1, <1>2, <1>3, LeaveStep

\* Steps of the request and of the queue: no worker claims, no row is queued.
LEMMA OutsideStep ==
  ASSUME IInv, TypeOK', UNCHANGED <<accepted, doubtful>>,
         \A d \in Deliveries : row'[d] \in {row[d], "FAILED"},
         \A v \in Workers : worker'[v].stage = worker[v].stage /\ worker'[v].job = worker[v].job
  PROVE  IInv'
<1>1. \A v \in Workers : (Sending(v)' <=> Sending(v)) /\ Job(v)' = Job(v)
  BY DEF Sending, Job
<1>2. QueuedIsFree'
  BY <1>1 DEF IInv, QueuedIsFree, Holds, Job
<1>3. OneSender'
  BY <1>1 DEF IInv, OneSender
<1>4. AcceptedOnce'
  BY <1>1 DEF IInv, AcceptedOnce, Job
<1>5. QED
  BY <1>2, <1>3, <1>4 DEF IInv

LEMMA PostStep ==
  ASSUME IInv, Post \/ ApiCrash PROVE IInv'
<1> USE DEF IInv, TypeOK, history, faults
<1>1. ASSUME NEW d \in Deliveries, Enqueue(d) PROVE IInv'
  <2>1. api' \in [stage : {"queueing", "recording", "done"}, todo : SUBSET Deliveries,
                  refused : SUBSET Deliveries]
    <3>1. \/ api' = [api EXCEPT !.todo = @ \ {d}]
          \/ api' = [api EXCEPT !.todo = @ \ {d}, !.refused = @ \cup {d}]
      BY <1>1 DEF Enqueue, Refused
    <3>2. /\ api.todo \ {d} \in SUBSET Deliveries /\ api.refused \cup {d} \in SUBSET Deliveries
          /\ api.refused \in SUBSET Deliveries /\ api.stage \in {"queueing", "recording", "done"}
      OBVIOUS
    <3>3. api = [stage |-> api.stage, todo |-> api.todo, refused |-> api.refused]
      OBVIOUS
    <3>4. api' = [stage |-> api.stage, todo |-> api.todo \ {d}, refused |-> api'.refused]
          /\ api'.refused \in {api.refused, api.refused \cup {d}}
      BY <3>1, <3>3
    <3>5. QED
      BY <3>2, <3>4
  <2>2. queue' \in [Deliveries -> [state : {"absent", "visible", "inflight", "deleted", "dead"},
                                   receives : Nat]]
    <3>1. queue' = queue \/ Queued(d)
      BY <1>1 DEF Enqueue
    <3>2. QED
      BY <3>1 DEF Queued
  <2>3. losses' \in Nat /\ UNCHANGED <<outages, crashes, delays>>
    BY <1>1 DEF Enqueue, Lost
  <2>4. UNCHANGED <<row, campaign, worker, accepted, doubtful, interrupted>>
    BY <1>1 DEF Enqueue
  <2>5. TypeOK'
    BY <2>1, <2>2, <2>3, <2>4
  <2>6. QED
    BY <2>4, <2>5, OutsideStep
<1>2. ASSUME NEW d \in Deliveries, RecordRefused(d) PROVE IInv'
  <2>1. TypeOK' /\ \A e \in Deliveries : row'[e] \in {row[e], "FAILED"}
    BY <1>2 DEF RecordRefused, Set, Statuses
  <2>2. QED
    BY <1>2, <2>1, OutsideStep DEF RecordRefused
<1>3. CASE Enqueued
  BY <1>3, OutsideStep DEF Enqueued
<1>4. CASE RecordCampaign
  <2>1. api.refused \subseteq Deliveries /\ Cardinality(api.refused) \in Nat
    BY RetiredAssumption, FS_Subset, FS_CardinalityType
  <2>2. campaign' \in [status : Verdicts, sent : Nat, failed : Nat]
    BY <1>4, <2>1 DEF RecordCampaign, Verdicts
  <2>3. TypeOK'
    BY <1>4, <2>2 DEF RecordCampaign
  <2>4. QED
    BY <1>4, <2>3, OutsideStep DEF RecordCampaign
<1>5. CASE ApiCrash
  <2>1. TypeOK'
    BY <1>5 DEF ApiCrash
  <2>2. QED
    BY <1>5, <2>1, OutsideStep DEF ApiCrash
<1>6. QED
  BY <1>1, <1>2, <1>3, <1>4, <1>5 DEF Post

LEMMA ReappearStep ==
  ASSUME IInv, NEW d \in Deliveries, Reappear(d) PROVE IInv'
<1>1. /\ worker' \in [Workers -> WorkerRecord]
      /\ \A v \in Workers : worker'[v].stage = worker[v].stage /\ worker'[v].job = worker[v].job
  <2>1. CASE UNCHANGED worker
    BY <2>1 DEF IInv, TypeOK, WorkerRecord
  <2>2. CASE worker' = [w \in Workers |->
                          IF Holds(w, d) THEN [worker[w] EXCEPT !.current = FALSE] ELSE worker[w]]
    <3>1. \A w \in Workers : worker[w] \in WorkerRecord
      BY DEF IInv, TypeOK, WorkerRecord
    <3>2. ASSUME NEW w \in Workers
          PROVE  /\ worker'[w] \in WorkerRecord
                 /\ worker'[w].stage = worker[w].stage /\ worker'[w].job = worker[w].job
      <4>1. worker'[w] = worker[w] \/ worker'[w] = [worker[w] EXCEPT !.current = FALSE]
        BY <2>2
      <4>2. QED
        BY <3>1, <4>1 DEF WorkerRecord
    <3>3. QED
      BY <2>2, <3>2
  <2>3. QED
    BY <2>1, <2>2 DEF Reappear
<1>2. delays' \in Nat /\ UNCHANGED <<outages, crashes, losses, row, campaign, api, accepted, doubtful, interrupted>>
  BY DEF Reappear, faults, history, IInv, TypeOK
<1>3. queue' \in [Deliveries -> [state : {"absent", "visible", "inflight", "deleted", "dead"},
                                 receives : Nat]]
  BY DEF Reappear, IInv, TypeOK
<1>4. TypeOK'
  BY <1>1, <1>2, <1>3 DEF IInv, TypeOK, WorkerRecord
<1>5. QED
  BY <1>1, <1>2, <1>4, OutsideStep

LEMMA NextKeepsIInv == IInv /\ [Next]_vars => IInv'
<1> SUFFICES ASSUME IInv, [Next]_vars PROVE IInv'
  OBVIOUS
<1>1. CASE Post \/ ApiCrash
  BY <1>1, PostStep
<1>2. ASSUME NEW d \in Deliveries, Reappear(d) PROVE IInv'
  BY <1>2, ReappearStep
<1>3. ASSUME NEW w \in Workers, NEW d \in Deliveries, Receive(w, d) PROVE IInv'
  BY <1>3, ReceiveStep
<1>4. ASSUME NEW w \in Workers, Handle(w) PROVE IInv'
  BY <1>4, RetireStep, ClaimStep, SkipStep, GiveUpStep, SendStep, RecordSentStep,
     RecordFailureStep, TotalStep, RefreshStep, RefreshFailsStep, DeleteStep DEF Handle
<1>5. ASSUME NEW w \in Workers, WorkerCrash(w) PROVE IInv'
  BY <1>5, WorkerCrashStep
<1>6. CASE UNCHANGED vars
  BY <1>6 DEF vars, faults, history, IInv, TypeOK, QueuedIsFree, OneSender, AcceptedOnce,
     Sending, Holds, Job
<1>7. QED
  BY <1>1, <1>2, <1>3, <1>4, <1>5, <1>6 DEF Next

LEMMA Invariance == Spec => []IInv
  BY InitIInv, NextKeepsIInv, PTL DEF Spec

\* The tables, the queue and the workers have their types; an idle worker of
\* clientMessagingWorker has no message in hand.
THEOREM TypeCorrect == Spec => []TypeOK
<1>1. IInv => TypeOK
  BY DEF IInv
<1>2. QED
  BY <1>1, Invariance, PTL

\* The claim of processMessage is exclusive: a delivery that is queued again is
\* in the hands of no worker that may still send or record it.
THEOREM QueuedDeliveriesAreFree == Spec => []QueuedIsFree
<1>1. IInv => QueuedIsFree
  BY DEF IInv
<1>2. QED
  BY <1>1, Invariance, PTL

\* AWS accepts a delivery twice only if an answer was lost after it had accepted
\* it once, however often SQS redelivers and workers die or are late.
THEOREM DuplicatesHaveACause == Spec => []DuplicatesExplained
<1>1. IInv => DuplicatesExplained
  BY DEF IInv, AcceptedOnce, TypeOK, DuplicatesExplained
<1>2. QED
  BY <1>1, Invariance, PTL

-----------------------------------------------------------------------------
(* The promise of MessageDelivery.                                          *)

\* Nothing is promised any more.
Void == losses < Losses \/ delays < Delays

\* What a worker knows of the message in its hands while the promise lasts.
Knows(w) ==
  Job(w) # None =>
    /\ worker[w].current /\ queue[Job(w)].state = "inflight"
    /\ worker[w].stage \in {"sending", "failing"} => row[Job(w)] = "SENDING" /\ accepted[Job(w)] = 0
    /\ worker[w].stage = "sent" => row[Job(w)] = "SENDING" /\ accepted[Job(w)] = 1
    /\ worker[w].stage = "uncertain" => row[Job(w)] = "SENDING"

\* No message is in two hands.
Apart == \A v, w \in Workers : Job(v) = Job(w) /\ Job(v) # None => v = w

\* What is queued was never sent.
Fresh == \A d \in Deliveries : row[d] = "QUEUED" => accepted[d] = 0

\* What the request has still to queue, or to mark, has reached nobody.
Unqueued ==
  /\ api.stage = "queueing" => api.todo \cap api.refused = {}
  /\ \A d \in Deliveries :
       d \in api.todo \/ (api.stage = "queueing" /\ d \in api.refused)
         => queue[d].state = "absent" /\ row[d] = "QUEUED"

Calm == (\A w \in Workers : Knows(w)) /\ Apart /\ Fresh /\ Unqueued

\* Faults are only used up.
Bounded == losses <= Losses /\ delays <= Delays

LEMMA FaultsPass ==
  ASSUME IInv, [Next]_vars
  PROVE  losses' \in Nat /\ losses' <= losses /\ delays' \in Nat /\ delays' <= delays
<1> USE DEF IInv, TypeOK, faults
<1>1. CASE Post \/ ApiCrash
  BY <1>1 DEF Post, ApiCrash, Enqueue, RecordRefused, Enqueued, RecordCampaign, Lost
<1>2. ASSUME NEW d \in Deliveries, Reappear(d)
      PROVE  losses' \in Nat /\ losses' <= losses /\ delays' \in Nat /\ delays' <= delays
  BY <1>2 DEF Reappear
<1>3. ASSUME NEW w \in Workers,
             (\E d \in Deliveries : Receive(w, d)) \/ Handle(w) \/ WorkerCrash(w)
      PROVE  losses' \in Nat /\ losses' <= losses /\ delays' \in Nat /\ delays' <= delays
  <2>1. \/ UNCHANGED faults \/ Lost
        \/ WorkerCrash(w)
    BY <1>3 DEF Receive, Handle, Retire, Claim, Skip, GiveUp, Send, RecordSent, RecordFailure, Total,
                Refresh, RefreshFails, Delete
  <2> QED
    BY <2>1 DEF Lost, WorkerCrash
<1>4. CASE UNCHANGED vars
  BY <1>4 DEF vars
<1> QED
  BY <1>1, <1>2, <1>3, <1>4 DEF Next

\* A worker goes on with its own message, or puts it down.
LEMMA OwnStep ==
  ASSUME TypeOK, Calm, NEW w \in Workers, NEW n \in WorkerRecord, Become(w, n),
         Job(w) \in Deliveries, UNCHANGED api,
         \A e \in Deliveries : e # Job(w) =>
           row'[e] = row[e] /\ accepted'[e] = accepted[e] /\ queue'[e] = queue[e],
         row'[Job(w)] = "QUEUED" => accepted'[Job(w)] = 0,
         n.job # None =>
           /\ n.job = Job(w) /\ n.current = worker[w].current /\ queue'[Job(w)] = queue[Job(w)]
           /\ n.stage \in {"sending", "failing"} => row'[Job(w)] = "SENDING" /\ accepted'[Job(w)] = 0
           /\ n.stage = "sent" => row'[Job(w)] = "SENDING" /\ accepted'[Job(w)] = 1
           /\ n.stage = "uncertain" => row'[Job(w)] = "SENDING"
  PROVE  Calm'
<1>1. \A v \in Workers : worker'[v] = IF v = w THEN n ELSE worker[v]
  BY DEF Become, TypeOK
<1>2. Job(w)' = n.job /\ \A v \in Workers : v # w => Job(v)' = Job(v)
  BY <1>1 DEF Job
<1>3. Job(w) # None
  BY NoneAssumption
<1>4. Knows(w)'
  BY <1>1, <1>2, <1>3 DEF Knows, Calm
<1>5. ASSUME NEW v \in Workers, v # w PROVE Knows(v)'
  <2>1. Job(v) # Job(w)
    BY <1>3, <1>5 DEF Calm, Apart
  <2>2. Job(v) \in Deliveries \cup {None}
    BY DEF TypeOK, Job
  <2> QED
    BY <1>1, <1>2, <1>5, <2>1, <2>2 DEF Knows, Calm
<1>6. Apart'
  BY <1>2, <1>3 DEF Calm, Apart
<1>7. Fresh'
  BY DEF Calm, Fresh
<1>8. Unqueued'
  <2>1. queue[Job(w)].state = "inflight"
    BY <1>3 DEF Calm, Knows
  <2> QED
    BY <2>1 DEF Calm, Unqueued
<1> QED
  BY <1>4, <1>5, <1>6, <1>7, <1>8 DEF Calm

Kept == Calm' /\ (Promise!Promised \/ UNCHANGED <<row, accepted>>)

\* The promised steps, in the words of this module.
LEMMA Promises ==
  ASSUME NEW d \in Deliveries, row[d] \in {"QUEUED", "SENDING"},
         \/ /\ row[d] = "QUEUED" /\ Set(d, "SENDING") /\ UNCHANGED accepted
         \/ /\ row[d] = "SENDING" /\ accepted[d] = 0
            /\ accepted' = [accepted EXCEPT ![d] = 1] /\ UNCHANGED row
         \/ /\ row[d] = "SENDING" /\ accepted[d] = 0 /\ Set(d, "QUEUED") /\ UNCHANGED accepted
         \/ Set(d, "FAILED") /\ UNCHANGED accepted
         \/ accepted[d] = 1 /\ Set(d, "SENT") /\ UNCHANGED accepted
  PROVE  Promise!Promised
<1>1. CASE row[d] = "QUEUED" /\ Set(d, "SENDING") /\ UNCHANGED accepted
  BY <1>1 DEF Set, Promise!Promised, Promise!Take
<1>2. CASE /\ row[d] = "SENDING" /\ accepted[d] = 0
           /\ accepted' = [accepted EXCEPT ![d] = 1] /\ UNCHANGED row
  BY <1>2 DEF Promise!Promised, Promise!Accept
<1>3. CASE row[d] = "SENDING" /\ accepted[d] = 0 /\ Set(d, "QUEUED") /\ UNCHANGED accepted
  BY <1>3 DEF Set, Promise!Promised, Promise!GiveBack
<1>4. CASE Set(d, "FAILED") /\ UNCHANGED accepted
  <2>1. Promise!Settle(d, "FAILED")
    BY <1>4 DEF Set, Promise!Settle
  <2> QED
    BY <2>1 DEF Promise!Promised
<1>5. CASE accepted[d] = 1 /\ Set(d, "SENT") /\ UNCHANGED accepted
  <2>1. Promise!Settle(d, "SENT")
    BY <1>5 DEF Set, Promise!Settle
  <2> QED
    BY <2>1 DEF Promise!Promised
<1> QED
  BY <1>1, <1>2, <1>3, <1>4, <1>5

LEMMA PostKeeps ==
  ASSUME IInv, Calm, ~Void', Bounded, Post \/ ApiCrash
  PROVE  Kept
<1>1. ~Lost
  BY BoundsAssumption DEF Void, Bounded, Lost, IInv, TypeOK
<1>2. UNCHANGED <<worker, accepted>>
  BY DEF Post, ApiCrash, Enqueue, RecordRefused, Enqueued, RecordCampaign, history
<1>3. ASSUME NEW d \in Deliveries, Enqueue(d)
      PROVE  Kept
  <2>1. /\ UNCHANGED row /\ api.stage = "queueing" /\ d \in api.todo
        /\ \/ api' = [api EXCEPT !.todo = @ \ {d}] /\ Queued(d)
           \/ Refused(d) /\ UNCHANGED queue
    BY <1>1, <1>3 DEF Enqueue
  <2>2. queue[d].state = "absent"
    BY <2>1 DEF Calm, Unqueued
  <2>3. /\ \A e \in Deliveries : e # d => queue'[e] = queue[e]
        /\ api'.stage = "queueing"
        /\ \/ api'.todo = api.todo \ {d} /\ api'.refused = api.refused
           \/ /\ api'.todo = api.todo \ {d} /\ api'.refused = api.refused \cup {d}
              /\ UNCHANGED queue
    BY <2>1 DEF Queued, Refused, IInv, TypeOK
  <2>4. ASSUME NEW w \in Workers PROVE Knows(w)'
    <3>1. Job(w) \in Deliveries \cup {None} /\ Job(w) # d
      BY <2>2, NoneAssumption DEF Calm, Knows, IInv, TypeOK, Job
    <3> QED
      BY <1>2, <2>1, <2>3, <3>1 DEF Calm, Knows, Job
  <2>5. Unqueued'
    <3>1. CASE api'.todo = api.todo \ {d} /\ api'.refused = api.refused
      <4>1. d \notin api.refused
        BY <2>1 DEF Calm, Unqueued
      <4> QED
        BY <2>1, <2>3, <3>1, <4>1 DEF Calm, Unqueued
    <3>2. CASE UNCHANGED queue
      BY <2>1, <2>3, <3>2 DEF Calm, Unqueued
    <3> QED
      BY <2>1, <2>3, <3>1, <3>2
  <2> QED
    BY <1>2, <2>1, <2>4, <2>5 DEF Kept, Calm, Apart, Fresh, Job
<1>4. ASSUME NEW d \in Deliveries, RecordRefused(d)
      PROVE  Kept
  <2>1. /\ Set(d, "FAILED") /\ d \in api.todo /\ api.stage = "recording" /\ UNCHANGED queue
        /\ api'.todo = api.todo \ {d} /\ api'.stage = "recording" /\ api'.refused = api.refused
    BY <1>4 DEF RecordRefused, IInv, TypeOK
  <2>2. queue[d].state = "absent" /\ row[d] = "QUEUED"
    BY <2>1 DEF Calm, Unqueued
  <2>3. row'[d] = "FAILED" /\ \A e \in Deliveries : e # d => row'[e] = row[e]
    BY <2>1 DEF Set, IInv, TypeOK
  <2>4. ASSUME NEW w \in Workers PROVE Knows(w)'
    <3>1. Job(w) \in Deliveries \cup {None} /\ Job(w) # d
      BY <2>2, NoneAssumption DEF Calm, Knows, IInv, TypeOK, Job
    <3> QED
      BY <1>2, <2>1, <2>3, <3>1 DEF Calm, Knows, Job
  <2>5. Unqueued'
    BY <2>1, <2>3 DEF Calm, Unqueued
  <2>6. Fresh'
    BY <1>2, <2>3 DEF Calm, Fresh
  <2>7. Promise!Promised
    BY <1>2, <2>1, <2>2, Promises
  <2> QED
    BY <1>2, <2>4, <2>5, <2>6, <2>7 DEF Kept, Calm, Apart, Job
<1>5. ASSUME Enqueued \/ RecordCampaign \/ ApiCrash
      PROVE  Kept
  <2>1. UNCHANGED <<row, queue>>
    BY <1>5 DEF Enqueued, RecordCampaign, ApiCrash, history
  <2>2. Unqueued'
    <3>1. CASE Enqueued
      BY <2>1, <3>1 DEF Enqueued, Calm, Unqueued, IInv, TypeOK
    <3>2. CASE RecordCampaign \/ ApiCrash
      <4>1. api'.stage = "done" /\ api'.todo = api.todo
        BY <3>2 DEF RecordCampaign, ApiCrash, IInv, TypeOK
      <4> QED
        BY <2>1, <4>1 DEF Calm, Unqueued
    <3> QED
      BY <1>5, <3>1, <3>2
  <2> QED
    BY <1>2, <2>1, <2>2 DEF Kept, Calm, Knows, Apart, Fresh, Job
<1> QED
  BY <1>3, <1>4, <1>5 DEF Post

LEMMA ReappearKeeps ==
  ASSUME IInv, Calm, ~Void', Bounded, NEW d \in Deliveries, Reappear(d)
  PROVE  Kept
<1>1. Orphaned(d) /\ UNCHANGED <<worker, row, api, accepted>>
  BY BoundsAssumption DEF Reappear, Void, Bounded, history, IInv, TypeOK
<1>2. /\ queue[d].state = "inflight"
      /\ \A e \in Deliveries : e # d => queue'[e] = queue[e]
  BY DEF Reappear, IInv, TypeOK
<1>3. ASSUME NEW w \in Workers PROVE Knows(w)'
  <2>1. Job(w) \in Deliveries \cup {None} /\ Job(w) # d
    BY <1>1, NoneAssumption DEF Orphaned, Holds, Calm, Knows, IInv, TypeOK, Job
  <2> QED
    BY <1>1, <1>2, <2>1 DEF Calm, Knows, Job
<1>4. Unqueued'
  BY <1>1, <1>2 DEF Calm, Unqueued
<1> QED
  BY <1>1, <1>3, <1>4 DEF Kept, Calm, Apart, Fresh, Job

LEMMA ReceiveKeeps ==
  ASSUME IInv, Calm, NEW w \in Workers, NEW d \in Deliveries, Receive(w, d)
  PROVE  Kept
<1> DEFINE final == queue[d].receives + 1 >= LastReceive
           n == [Idle EXCEPT !.stage = "received", !.job = d, !.current = TRUE, !.final = final]
<1>1. n.stage = "received" /\ n.job = d /\ n.current
  BY DEF Idle
<1>2. /\ Become(w, n) /\ UNCHANGED <<row, api, accepted>> /\ queue[d].state = "visible"
      /\ worker[w].stage = "idle"
  BY DEF Receive, history
<1> HIDE DEF n
<1>3. worker'[w] = n /\ \A v \in Workers : v # w => worker'[v] = worker[v]
  BY <1>2 DEF Become, IInv, TypeOK
<1>4. queue'[d].state = "inflight" /\ \A e \in Deliveries : e # d => queue'[e] = queue[e]
  BY DEF Receive, IInv, TypeOK
<1>5. \A v \in Workers : Job(v) \in Deliveries \cup {None} /\ Job(v) # d
  BY <1>2, NoneAssumption DEF Calm, Knows, IInv, TypeOK, Job
<1>6. Knows(w)'
  BY <1>1, <1>3, <1>4 DEF Knows, Job
<1>7. ASSUME NEW v \in Workers, v # w PROVE Knows(v)'
  BY <1>2, <1>3, <1>4, <1>5, <1>7 DEF Calm, Knows, Job
<1>8. Apart'
  BY <1>1, <1>3, <1>5 DEF Calm, Apart, Job
<1>9. Unqueued'
  BY <1>2, <1>4 DEF Calm, Unqueued
<1> QED
  BY <1>2, <1>6, <1>7, <1>8, <1>9 DEF Kept, Calm, Fresh


\* A worker that changes neither rows nor the provider.
LEMMA IdleHandsKeep ==
  ASSUME IInv, Calm, NEW w \in Workers, NEW n \in WorkerRecord, Become(w, n),
         Job(w) \in Deliveries, UNCHANGED <<row, api, accepted>>,
         n = Idle \/ (/\ n.job = Job(w) /\ n.current = worker[w].current
                      /\ n.stage \in {"deleting", "counted", "recounted"}
                      /\ queue'[Job(w)] = queue[Job(w)]),
         \A e \in Deliveries : e # Job(w) => queue'[e] = queue[e]
  PROVE  Kept
<1>1. Idle.job = None
  BY DEF Idle
<1>2. row[Job(w)] = "QUEUED" => accepted[Job(w)] = 0
  BY DEF Calm, Fresh
<1>3. Calm'
  BY <1>1, <1>2, OwnStep DEF IInv
<1> QED
  BY <1>3 DEF Kept

LEMMA CrashKeeps ==
  ASSUME IInv, Calm, NEW w \in Workers, WorkerCrash(w)
  PROVE  Kept
<1>1. Become(w, Idle) /\ UNCHANGED <<row, api, queue, accepted>> /\ Idle \in WorkerRecord
  BY WorkerFields DEF WorkerCrash, history, IInv
<1>2. CASE Job(w) \in Deliveries
  BY <1>1, <1>2, IdleHandsKeep
<1>3. CASE Job(w) \notin Deliveries
  <2>1. Job(w) = None
    BY <1>3 DEF IInv, TypeOK, Job
  <2>2. \A v \in Workers : Job(v)' = Job(v) /\ (Job(v) # None => worker'[v] = worker[v])
    BY <1>1, <2>1 DEF Become, Idle, IInv, TypeOK, Job
  <2> QED
    BY <1>1, <2>2 DEF Kept, Calm, Knows, Apart, Fresh, Unqueued
<1> QED
  BY <1>2, <1>3

\* The rest of Handle: w has the message of d, its row says what w knows.
LEMMA HandleKeeps ==
  ASSUME IInv, Calm, Bounded, ~Void', NEW w \in Workers, Handle(w)
  PROVE  Kept
<1> DEFINE d == Job(w)
<1>1. /\ d \in Deliveries /\ worker[w] \in WorkerRecord /\ Idle \in WorkerRecord
      /\ row[d] \in Statuses /\ UNCHANGED api
  BY WorkerFields DEF Handle, Retire, Claim, Skip, GiveUp, Send, RecordSent, RecordFailure, Total,
     Refresh, RefreshFails, Delete, IInv, TypeOK
<1>2. Knows(w) /\ d # None /\ (row[d] = "QUEUED" => accepted[d] = 0)
  BY <1>1, NoneAssumption DEF Calm, Fresh
<1>3. ~Lost
  BY BoundsAssumption DEF Void, Bounded, Lost, IInv, TypeOK
<1>4. ASSUME NEW st \in Statuses, Set(d, st)
      PROVE  row'[d] = st /\ \A e \in Deliveries : e # d => row'[e] = row[e]
  BY <1>1, <1>4 DEF Set, IInv, TypeOK
<1>5. CASE Retire(w)
  <2> DEFINE n == [worker[w] EXCEPT !.stage = "recounting", !.delete = TRUE]
  <2>1. n \in WorkerRecord /\ n.stage = "recounting" /\ n.job = d /\ n.current = worker[w].current
    BY <1>1 DEF WorkerRecord, Stages, Job
  <2>2. /\ Become(w, n) /\ UNCHANGED <<queue, accepted>>
        /\ \/ row[d] \in {"QUEUED", "SENDING"} /\ Set(d, "FAILED")
           \/ UNCHANGED row
    BY <1>5 DEF Retire, history
  <2> HIDE DEF n
  <2>3. CASE row[d] \in {"QUEUED", "SENDING"} /\ Set(d, "FAILED")
    <3>1. row'[d] = "FAILED" /\ \A e \in Deliveries : e # d => row'[e] = row[e]
      BY <1>4, <2>3 DEF Statuses
    <3>2. Calm'
      BY <1>1, <2>1, <2>2, <3>1, OwnStep DEF IInv
    <3>3. Promise!Promised
      BY <1>1, <2>2, <2>3, Promises
    <3> QED
      BY <3>2, <3>3 DEF Kept
  <2>4. CASE UNCHANGED row
    <3>1. Calm'
      BY <1>1, <1>2, <2>1, <2>2, <2>4, OwnStep DEF IInv
    <3> QED
      BY <2>2, <2>4, <3>1 DEF Kept
  <2> QED
    BY <2>2, <2>3, <2>4
<1>6. CASE Claim(w)
  <2> DEFINE n == [worker[w] EXCEPT !.stage = "sending"]
  <2>1. n \in WorkerRecord /\ n.stage = "sending" /\ n.job = d /\ n.current = worker[w].current
    BY <1>1 DEF WorkerRecord, Stages, Job
  <2>2. Become(w, n) /\ UNCHANGED <<queue, accepted>> /\ row[d] = "QUEUED" /\ Set(d, "SENDING")
    BY <1>6 DEF Claim, Claimable, Enter, history
  <2> HIDE DEF n
  <2>3. row'[d] = "SENDING" /\ \A e \in Deliveries : e # d => row'[e] = row[e]
    BY <1>4, <2>2 DEF Statuses
  <2>4. Calm'
    BY <1>1, <1>2, <2>1, <2>2, <2>3, OwnStep DEF IInv
  <2>5. Promise!Promised
    BY <1>1, <2>2, Promises
  <2> QED
    BY <2>4, <2>5 DEF Kept
<1>7. CASE Skip(w)
  <2> DEFINE n == [worker[w] EXCEPT !.stage = IF row[Job(w)] = "SENDING" THEN "uncertain" ELSE "deleting"]
  <2>1. /\ n \in WorkerRecord /\ n.job = d /\ n.current = worker[w].current
        /\ \/ n.stage = "uncertain" /\ row[d] = "SENDING"
           \/ n.stage = "deleting"
    BY <1>1 DEF WorkerRecord, Stages, Job
  <2>2. Become(w, n) /\ UNCHANGED <<row, queue, accepted>>
    BY <1>7 DEF Skip, Enter, history
  <2> HIDE DEF n
  <2>3. Calm'
    BY <1>1, <1>2, <2>1, <2>2, OwnStep DEF IInv
  <2> QED
    BY <2>2, <2>3 DEF Kept
<1>8. CASE GiveUp(w)
  <2> DEFINE n == [worker[w] EXCEPT !.stage = "recounting", !.delete = TRUE]
  <2>1. n \in WorkerRecord /\ n.stage = "recounting" /\ n.job = d /\ n.current = worker[w].current
    BY <1>1 DEF WorkerRecord, Stages, Job
  <2>2. /\ Become(w, n) /\ UNCHANGED <<queue, accepted>> /\ Set(d, "FAILED")
        /\ row[d] = "SENDING"
    BY <1>2, <1>8 DEF GiveUp, UncertainOutcome, Knows, history
  <2> HIDE DEF n
  <2>3. row'[d] = "FAILED" /\ \A e \in Deliveries : e # d => row'[e] = row[e]
    BY <1>4, <2>2 DEF Statuses
  <2>4. Calm'
    BY <1>1, <2>1, <2>2, <2>3, OwnStep DEF IInv
  <2>5. Promise!Promised
    BY <1>1, <2>2, Promises
  <2> QED
    BY <2>4, <2>5 DEF Kept
<1>9. CASE Send(w)
  <2>1. row[d] = "SENDING" /\ accepted[d] = 0 /\ UNCHANGED <<row, queue>>
    BY <1>2, <1>9 DEF Send, Knows
  <2>2. CASE Accepted(d) /\ Enter(w, "sent")
    <3> DEFINE n == [worker[w] EXCEPT !.stage = "sent"]
    <3>1. n \in WorkerRecord /\ n.stage = "sent" /\ n.job = d /\ n.current = worker[w].current
      BY <1>1 DEF WorkerRecord, Stages, Job
    <3>2. Become(w, n) /\ accepted' = [accepted EXCEPT ![d] = 1]
      BY <2>1, <2>2 DEF Enter, Accepted, IInv, TypeOK
    <3> HIDE DEF n
    <3>3. accepted'[d] = 1 /\ \A e \in Deliveries : e # d => accepted'[e] = accepted[e]
      BY <1>1, <3>2 DEF IInv, TypeOK
    <3>4. Calm'
      BY <1>1, <2>1, <3>1, <3>2, <3>3, OwnStep DEF IInv
    <3>5. Promise!Promised
      BY <1>1, <2>1, <3>2, Promises
    <3> QED
      BY <3>4, <3>5 DEF Kept
  <2>3. ASSUME NEW n \in WorkerRecord, Become(w, n), UNCHANGED accepted,
               n.stage = "failing", n.job = d, n.current = worker[w].current
        PROVE  Kept
    <3>1. Calm'
      BY <1>1, <2>1, <2>3, OwnStep DEF IInv
    <3> QED
      BY <2>1, <2>3, <3>1 DEF Kept
  <2>4. \A b \in BOOLEAN : \A n : n = [worker[w] EXCEPT !.stage = "failing", !.final = b] =>
          n \in WorkerRecord /\ n.stage = "failing" /\ n.job = d /\ n.current = worker[w].current
    BY <1>1 DEF WorkerRecord, Stages, Job
  <2>5. CASE Enter(w, "failing") /\ UNCHANGED accepted
    <3> DEFINE n == [worker[w] EXCEPT !.stage = "failing"]
    <3>1. n \in WorkerRecord /\ n.stage = "failing" /\ n.job = d /\ n.current = worker[w].current
      BY <1>1 DEF WorkerRecord, Stages, Job
    <3>2. Become(w, n)
      BY <2>5 DEF Enter
    <3> HIDE DEF n
    <3> QED
      BY <2>3, <2>5, <3>1, <3>2
  <2>6. CASE Become(w, [worker[w] EXCEPT !.stage = "failing", !.final = TRUE]) /\ UNCHANGED accepted
    BY <2>3, <2>4, <2>6
  <2> QED
    BY <1>3, <1>9, <2>2, <2>5, <2>6 DEF Send
<1>10. CASE RecordSent(w)
  <2> DEFINE n == [worker[w] EXCEPT !.stage = "counting", !.delete = TRUE]
  <2>1. n \in WorkerRecord /\ n.stage = "counting" /\ n.job = d /\ n.current = worker[w].current
    BY <1>1 DEF WorkerRecord, Stages, Job
  <2>2. /\ Become(w, n) /\ UNCHANGED <<queue, accepted>> /\ Set(d, "SENT")
        /\ row[d] = "SENDING" /\ accepted[d] = 1
    BY <1>2, <1>3, <1>10 DEF RecordSent, Knows, history
  <2> HIDE DEF n
  <2>3. row'[d] = "SENT" /\ \A e \in Deliveries : e # d => row'[e] = row[e]
    BY <1>4, <2>2 DEF Statuses
  <2>4. Calm'
    BY <1>1, <2>1, <2>2, <2>3, OwnStep DEF IInv
  <2>5. Promise!Promised
    BY <1>1, <2>2, Promises
  <2> QED
    BY <2>4, <2>5 DEF Kept
<1>11. CASE RecordFailure(w)
  <2> DEFINE n == [worker[w] EXCEPT !.stage = "recounting", !.delete = worker[w].final]
  <2>1. n \in WorkerRecord /\ n.stage = "recounting" /\ n.job = d /\ n.current = worker[w].current
    BY <1>1 DEF WorkerRecord, Stages, Job
  <2>2. /\ Become(w, n) /\ UNCHANGED <<queue, accepted>>
        /\ Set(d, "FAILED") \/ Set(d, "QUEUED")
        /\ row[d] = "SENDING" /\ accepted[d] = 0
    BY <1>2, <1>11 DEF RecordFailure, GivenBack, Knows, history
  <2> HIDE DEF n
  <2>3. \A e \in Deliveries : e # d => row'[e] = row[e]
    BY <1>4, <2>2 DEF Statuses
  <2>4. Calm'
    BY <1>1, <2>1, <2>2, <2>3, OwnStep DEF IInv
  <2>5. Promise!Promised
    BY <1>1, <2>2, Promises
  <2> QED
    BY <2>4, <2>5 DEF Kept
<1>12. CASE Total(w)
  <2> DEFINE stage == IF worker[w].stage = "counting" THEN "counted" ELSE "recounted"
             s == Count({"SENT"})
             f == Count({"FAILED"})
             p == Count({"QUEUED", "SENDING"})
             n == [worker[w] EXCEPT !.stage = stage, !.sent = s, !.failed = f, !.pending = p]
  <2>1. s \in Nat /\ f \in Nat /\ p \in Nat
    BY Counted
  <2> HIDE DEF s, f, p
  <2>2. /\ n \in WorkerRecord /\ n.stage \in {"counted", "recounted"} /\ n.job = d
        /\ n.current = worker[w].current
    BY <1>1, <2>1 DEF WorkerRecord, Stages, Job
  <2>3. Become(w, n) /\ UNCHANGED <<row, queue, accepted>>
    BY <1>12 DEF Total, s, f, p, history
  <2> HIDE DEF n
  <2> QED
    BY <1>1, <2>2, <2>3, IdleHandsKeep
<1>13. CASE Refresh(w)
  <2> DEFINE n == [worker[w] EXCEPT !.stage = "deleting"]
  <2>1. n \in WorkerRecord /\ n.stage = "deleting" /\ n.job = d /\ n.current = worker[w].current
    BY <1>1 DEF WorkerRecord, Stages, Job
  <2>2. (Become(w, n) \/ Become(w, Idle)) /\ UNCHANGED <<row, queue, accepted>>
    BY <1>13 DEF Refresh, Enter, history
  <2> HIDE DEF n
  <2> QED
    BY <1>1, <2>1, <2>2, IdleHandsKeep
<1>14. CASE RefreshFails(w)
  BY <1>3, <1>14 DEF RefreshFails
<1>15. CASE Delete(w)
  <2>1. /\ Become(w, Idle) /\ UNCHANGED <<row, accepted>>
        /\ \A e \in Deliveries : e # d => queue'[e] = queue[e]
    BY <1>1, <1>15 DEF Delete, history, IInv, TypeOK
  <2> QED
    BY <1>1, <2>1, IdleHandsKeep
<1> QED
  BY <1>5, <1>6, <1>7, <1>8, <1>9, <1>10, <1>11, <1>12, <1>13, <1>14, <1>15 DEF Handle

\* Until the promise is void every step keeps it.
CalmUntilVoid == Bounded /\ (~Void => Calm)

LEMMA StepKeepsPromise ==
  ASSUME IInv, CalmUntilVoid, [Next]_vars
  PROVE  CalmUntilVoid' /\ [Promise!Next]_(Promise!vars)
<1>1. Bounded' /\ (Void => Void')
  BY FaultsPass, BoundsAssumption DEF CalmUntilVoid, Bounded, Void, IInv, TypeOK
<1>2. CASE Void'
  BY <1>1, <1>2 DEF CalmUntilVoid, Promise!Next, Void
<1>3. CASE ~Void'
  <2>1. Calm /\ Bounded /\ ~Void
    BY <1>1, <1>3 DEF CalmUntilVoid
  <2>2. Kept
    <3>1. CASE UNCHANGED vars
      BY <2>1, <3>1 DEF vars, history, Kept, Calm, Knows, Apart, Fresh, Unqueued, Job
    <3>2. CASE Next
      BY <1>3, <2>1, <3>2, PostKeeps, ReappearKeeps, ReceiveKeeps, HandleKeeps, CrashKeeps DEF Next
    <3> QED
      BY <3>1, <3>2
  <2>3. Void' = Void /\ Void \in BOOLEAN
    BY <1>3, <2>1 DEF Void
  <2> QED
    BY <1>1, <1>3, <2>1, <2>2, <2>3 DEF Kept, CalmUntilVoid, Promise!Next, Promise!vars, Void
<1> QED
  BY <1>2, <1>3

\* While workers are in time and no answer is lost, a campaign is a
\* MessageDelivery, however requests and workers crash and SQS redelivers: each
\* delivery is taken, accepted once and settled for good, or tried again.
THEOREM PromiseKept == Spec => KeepsPromise
<1>1. Init => CalmUntilVoid /\ Promise!Init
  <2> SUFFICES ASSUME Init PROVE CalmUntilVoid /\ Promise!Init
    OBVIOUS
  <2>1. ~Void /\ Bounded
    BY BoundsAssumption DEF Init, Void, Bounded
  <2>2. Calm
    BY DEF Init, Calm, Knows, Apart, Fresh, Unqueued, Job, Idle
  <2>3. Promise!Init
    BY <2>1 DEF Init, Promise!Init, Void
  <2> QED
    BY <2>1, <2>2, <2>3 DEF CalmUntilVoid
<1>2. IInv /\ CalmUntilVoid /\ [Next]_vars => CalmUntilVoid' /\ [Promise!Next]_(Promise!vars)
  BY StepKeepsPromise
<1> QED
  BY <1>1, <1>2, Invariance, PTL DEF Spec, KeepsPromise, Promise!Spec
=============================================================================
