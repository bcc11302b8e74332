---------------------------- MODULE ClientMessaging ----------------------------
(***************************************************************************)
(* One campaign of client messages                                         *)
(* (managementAnalyticsMessaging.controller.js,                            *)
(* clientMessagingQueue.service.js, clientMessagingWorker.js): the API     *)
(* commits the deliveries and then queues them; workers receive, claim,    *)
(* send and record them, and recount the campaign.  SQS hands a message    *)
(* out again when its worker died or was slower than the visibility        *)
(* timeout.  A worker here is one message in the hands of a process: a     *)
(* process works through the messages it received one after the other.     *)
(***************************************************************************)
EXTENDS Naturals, FiniteSets

CONSTANTS
  Deliveries,   \* deliveries of the campaign with a valid destination
  Retired,      \* those whose channel is no longer supported
  Workers,      \* messages being handled at once
  LastReceive,  \* the receive whose failure is final
  Redrive,      \* receives before SQS moves a message to the dead-letter queue
  None,         \* no message in hand
  Outages,      \* bound: requests that end before the queue has every message
  Crashes,      \* bound: workers that end, also through a failed statement
  Losses,       \* bound: answers of AWS or of the database that are lost
  Delays        \* bound: workers slower than the visibility timeout

ASSUME NoneAssumption == None \notin Deliveries
ASSUME BoundsAssumption ==
  /\ LastReceive \in Nat \ {0} /\ Redrive \in Nat
  /\ Outages \in Nat /\ Crashes \in Nat /\ Losses \in Nat /\ Delays \in Nat
ASSUME RetiredAssumption == Retired \subseteq Deliveries /\ IsFiniteSet(Deliveries)

VARIABLES
  row,       \* client_message_deliveries: the status of each
  campaign,  \* client_message_campaigns: its status and counts
  api,       \* createMessageCampaign after its COMMIT
  queue,     \* the SQS message of each delivery
  worker,    \* the message in hand
  outages, crashes, losses, delays,  \* faults still to come
  accepted,  \* history: how often AWS accepted the message
  doubtful,  \* history: deliveries with an answer lost after AWS accepted it
  interrupted \* history: deliveries whose worker ended on the last receive

faults == <<outages, crashes, losses, delays>>
history == <<accepted, doubtful, interrupted>>
vars == <<row, campaign, api, queue, worker, faults, history>>

Idle == [stage |-> "idle", job |-> None, final |-> FALSE, current |-> FALSE,
         delete |-> FALSE, sent |-> 0, failed |-> 0, pending |-> 0]
Become(w, next) == worker' = [worker EXCEPT ![w] = next]
Enter(w, stage) == Become(w, [worker[w] EXCEPT !.stage = stage])
Job(w) == worker[w].job
Holds(w, d) == worker[w].job = d
Set(d, status) == row' = [row EXCEPT ![d] = status]

Lost == losses > 0 /\ losses' = losses - 1 /\ UNCHANGED <<outages, crashes, delays>>

-----------------------------------------------------------------------------
(* The request that creates the campaign, and the queue.                    *)

Queued(d) == queue' = [queue EXCEPT ![d] = [state |-> "visible", receives |-> 0]]
Refused(d) == api' = [api EXCEPT !.todo = @ \ {d}, !.refused = @ \cup {d}]

\* SQS takes the message, refuses it, or takes it and its answer is lost.
Enqueue(d) ==
  /\ api.stage = "queueing" /\ d \in api.todo
  /\ \/ api' = [api EXCEPT !.todo = @ \ {d}] /\ Queued(d) /\ UNCHANGED faults
     \/ Refused(d) /\ UNCHANGED <<queue, faults>>
     \/ Lost /\ Refused(d) /\ Queued(d)
  /\ UNCHANGED <<row, campaign, worker, history>>

Enqueued ==
  /\ api.stage = "queueing" /\ api.todo = {}
  /\ api' = [api EXCEPT !.stage = "recording", !.todo = api.refused]
  /\ UNCHANGED <<row, campaign, queue, worker, faults, history>>

\* What the queue refused is marked, whatever has become of it.
RecordRefused(d) ==
  /\ api.stage = "recording" /\ d \in api.todo
  /\ Set(d, "FAILED")
  /\ api' = [api EXCEPT !.todo = @ \ {d}]
  /\ UNCHANGED <<campaign, queue, worker, faults, history>>

\* The campaign's first status is written, whatever the workers wrote.
RecordCampaign ==
  /\ api.stage = "recording" /\ api.todo = {}
  /\ campaign' = [campaign EXCEPT
       !.status = CASE api.refused = Deliveries -> "FAILED"
                    [] api.refused # Deliveries /\ api.refused # {} -> "PARTIAL"
                    [] api.refused # Deliveries /\ api.refused = {} -> "QUEUED",
       !.failed = Cardinality(api.refused)]
  /\ api' = [api EXCEPT !.stage = "done"]
  /\ UNCHANGED <<row, queue, worker, faults, history>>

ApiCrash ==
  /\ api.stage # "done"
  /\ outages > 0 /\ outages' = outages - 1 /\ UNCHANGED <<crashes, losses, delays>>
  /\ api' = [api EXCEPT !.stage = "done"]
  /\ UNCHANGED <<row, campaign, queue, worker, history>>

Orphaned(d) == \A w \in Workers : ~(Holds(w, d) /\ worker[w].current)

\* The visibility timeout ends: nobody, or a worker that is too slow, has it.
Reappear(d) ==
  /\ queue[d].state = "inflight"
  /\ queue' = [queue EXCEPT ![d].state =
                 IF queue[d].receives >= Redrive THEN "dead" ELSE "visible"]
  /\ \/ Orphaned(d) /\ UNCHANGED <<worker, faults>>
     \/ /\ ~Orphaned(d)
        /\ delays > 0 /\ delays' = delays - 1 /\ UNCHANGED <<outages, crashes, losses>>
        /\ worker' = [w \in Workers |->
                        IF Holds(w, d) THEN [worker[w] EXCEPT !.current = FALSE]
                        ELSE worker[w]]
  /\ UNCHANGED <<row, campaign, api, history>>

-----------------------------------------------------------------------------
(* processMessage                                                           *)

Receive(w, d) ==
  /\ worker[w].stage = "idle" /\ queue[d].state = "visible"
  /\ queue' = [queue EXCEPT ![d] = [state |-> "inflight", receives |-> @.receives + 1]]
  /\ Become(w, [Idle EXCEPT !.stage = "received", !.job = d, !.current = TRUE,
                            !.final = queue[d].receives + 1 >= LastReceive])
  /\ UNCHANGED <<row, campaign, api, faults, history>>

\* A message of a retired channel is closed and dropped.
Retire(w) ==
  /\ worker[w].stage = "received" /\ Job(w) \in Retired
  /\ IF row[Job(w)] \in {"QUEUED", "SENDING"} THEN Set(Job(w), "FAILED") ELSE UNCHANGED row
  /\ Become(w, [worker[w] EXCEPT !.stage = "recounting", !.delete = TRUE])
  /\ UNCHANGED <<campaign, api, queue, faults, history>>

\* Mutant: a delivery another worker was sending is claimed again.
ClaimableAgain(d) == row[d] \in {"QUEUED", "SENDING"}

Claimable(d) == row[d] = "QUEUED"

Claim(w) ==
  /\ worker[w].stage = "received" /\ Job(w) \notin Retired
  /\ Claimable(Job(w))
  /\ Set(Job(w), "SENDING") /\ Enter(w, "sending")
  /\ UNCHANGED <<campaign, api, queue, faults, history>>

\* A message that could not be claimed is dropped ...
Skip(w) ==
  /\ worker[w].stage = "received" /\ Job(w) \notin Retired
  /\ ~Claimable(Job(w))
  /\ Enter(w, IF row[Job(w)] = "SENDING" THEN "uncertain" ELSE "deleting")
  /\ UNCHANGED <<row, campaign, api, queue, faults, history>>

\* Mutant: what a worker had begun to send counts as sent.
UncertainSent == "SENT"

UncertainOutcome == "FAILED"

\* ... and its delivery is given up when a worker had begun to send it.
GiveUp(w) ==
  /\ worker[w].stage = "uncertain"
  /\ Set(Job(w), UncertainOutcome)
  /\ Become(w, [worker[w] EXCEPT !.stage = "recounting", !.delete = TRUE])
  /\ UNCHANGED <<campaign, api, queue, faults, history>>

Accepted(d) == accepted' = [accepted EXCEPT ![d] = @ + 1]
Doubt(d) == doubtful' = doubtful \cup {d}

Send(w) ==
  /\ worker[w].stage = "sending"
  /\ \/ Accepted(Job(w)) /\ Enter(w, "sent") /\ UNCHANGED <<faults, doubtful>>
     \/ Enter(w, "failing") /\ UNCHANGED <<faults, accepted, doubtful>>
     \/ /\ Become(w, [worker[w] EXCEPT !.stage = "failing", !.final = TRUE])
        /\ UNCHANGED <<faults, accepted, doubtful>>
     \/ Lost /\ Accepted(Job(w)) /\ Doubt(Job(w)) /\ Enter(w, "failing")
  /\ UNCHANGED <<row, campaign, api, queue, interrupted>>

\* Accepted by AWS: recorded, unless the database fails.
RecordSent(w) ==
  /\ worker[w].stage = "sent"
  /\ \/ /\ Set(Job(w), "SENT")
        /\ Become(w, [worker[w] EXCEPT !.stage = "counting", !.delete = TRUE])
        /\ UNCHANGED <<faults, history>>
     \/ /\ Lost /\ Doubt(Job(w)) /\ Enter(w, "failing")
        /\ UNCHANGED <<row, accepted, interrupted>>
  /\ UNCHANGED <<campaign, api, queue>>

\* Mutant: every failure is retried.
GivenBackAlways(final) == "QUEUED"

GivenBack(final) == IF final THEN "FAILED" ELSE "QUEUED"

\* The catch block: permanent errors and the last receive are final.
RecordFailure(w) ==
  /\ worker[w].stage = "failing"
  /\ Set(Job(w), GivenBack(worker[w].final))
  /\ Become(w, [worker[w] EXCEPT !.stage = "recounting", !.delete = worker[w].final])
  /\ UNCHANGED <<campaign, api, queue, faults, history>>

Count(status) == Cardinality({d \in Deliveries : row[d] \in status})

\* refreshCampaign: its snapshot is taken ...
Total(w) ==
  /\ worker[w].stage \in {"counting", "recounting"}
  /\ Become(w, [worker[w] EXCEPT !.stage = IF @ = "counting" THEN "counted" ELSE "recounted",
                  !.sent = Count({"SENT"}), !.failed = Count({"FAILED"}),
                  !.pending = Count({"QUEUED", "SENDING"})])
  /\ UNCHANGED <<row, campaign, api, queue, faults, history>>

Verdict(sent, failed, pending) ==
  CASE pending > 0 -> "SENDING"
    [] pending = 0 /\ failed = 0 -> "COMPLETED"
    [] pending = 0 /\ failed > 0 /\ sent = 0 -> "FAILED"
    [] pending = 0 /\ failed > 0 /\ sent > 0 -> "PARTIAL"

\* ... and written, perhaps after a later one.
Refresh(w) ==
  /\ worker[w].stage \in {"counted", "recounted"}
  /\ campaign' = [sent |-> worker[w].sent, failed |-> worker[w].failed,
                  status |-> Verdict(worker[w].sent, worker[w].failed, worker[w].pending)]
  /\ IF worker[w].delete THEN Enter(w, "deleting") ELSE Become(w, Idle)
  /\ UNCHANGED <<row, api, queue, faults, history>>

\* An error of refreshCampaign lands in the catch block of the message just sent.
RefreshFails(w) ==
  /\ worker[w].stage \in {"counting", "counted"}
  /\ Lost /\ Doubt(Job(w)) /\ Enter(w, "failing")
  /\ UNCHANGED <<row, campaign, api, queue, accepted, interrupted>>

\* With an old receipt the message may or may not be deleted.
Delete(w) ==
  /\ worker[w].stage = "deleting"
  /\ \/ queue' = [queue EXCEPT ![Job(w)].state = "deleted"]
     \/ ~worker[w].current /\ UNCHANGED queue
  /\ Become(w, Idle)
  /\ UNCHANGED <<row, campaign, api, faults, history>>

\* The process ends, or an error outside the try block ends its poll.
WorkerCrash(w) ==
  /\ worker[w].stage # "idle"
  /\ crashes > 0 /\ crashes' = crashes - 1 /\ UNCHANGED <<outages, losses, delays>>
  /\ Become(w, Idle)
  /\ interrupted' = IF worker[w].current /\ queue[Job(w)].receives >= Redrive
                    THEN interrupted \cup {Job(w)} ELSE interrupted
  /\ UNCHANGED <<row, campaign, api, queue, accepted, doubtful>>

-----------------------------------------------------------------------------
Init ==
  /\ row = [d \in Deliveries |-> "QUEUED"]
  /\ campaign = [status |-> "QUEUING", sent |-> 0, failed |-> 0]
  /\ api = [stage |-> "queueing", todo |-> Deliveries, refused |-> {}]
  /\ queue = [d \in Deliveries |-> [state |-> "absent", receives |-> 0]]
  /\ worker = [w \in Workers |-> Idle]
  /\ outages = Outages /\ crashes = Crashes /\ losses = Losses /\ delays = Delays
  /\ accepted = [d \in Deliveries |-> 0]
  /\ doubtful = {} /\ interrupted = {}

Post == (\E d \in Deliveries : Enqueue(d) \/ RecordRefused(d)) \/ Enqueued \/ RecordCampaign

Handle(w) ==
  \/ Retire(w) \/ Claim(w) \/ Skip(w) \/ GiveUp(w) \/ Send(w) \/ RecordSent(w)
  \/ RecordFailure(w) \/ Total(w) \/ Refresh(w) \/ RefreshFails(w) \/ Delete(w)

Next ==
  \/ Post \/ ApiCrash
  \/ \E d \in Deliveries : Reappear(d)
  \/ \E w \in Workers : \/ \E d \in Deliveries : Receive(w, d)
                        \/ Handle(w) \/ WorkerCrash(w)

Spec == Init /\ [][Next]_vars

\* The request and the workers go on, messages are polled for and reappear.
Fairness ==
  /\ WF_vars(Post)
  /\ \A w \in Workers : WF_vars(Handle(w))
  /\ \A d \in Deliveries : /\ WF_vars(Orphaned(d) /\ Reappear(d))
                           /\ WF_vars(\E w \in Workers : Receive(w, d))

FairSpec == Spec /\ Fairness

-----------------------------------------------------------------------------
(* Properties.                                                              *)

Statuses == {"QUEUED", "SENDING", "SENT", "FAILED"}
Verdicts == {"QUEUING", "QUEUED", "SENDING", "COMPLETED", "PARTIAL", "FAILED"}
Stages == {"idle", "received", "uncertain", "sending", "sent", "failing", "counting",
           "counted", "recounting", "recounted", "deleting"}

\* The variables have their types; an idle worker has no message in hand.
TypeOK ==
  /\ row \in [Deliveries -> Statuses]
  /\ campaign \in [status : Verdicts, sent : Nat, failed : Nat]
  /\ api \in [stage : {"queueing", "recording", "done"}, todo : SUBSET Deliveries,
              refused : SUBSET Deliveries]
  /\ queue \in [Deliveries -> [state : {"absent", "visible", "inflight", "deleted", "dead"},
                               receives : Nat]]
  /\ worker \in [Workers -> [stage : Stages, job : Deliveries \cup {None},
                             final : BOOLEAN, current : BOOLEAN, delete : BOOLEAN,
                             sent : Nat, failed : Nat, pending : Nat]]
  /\ \A w \in Workers : worker[w].job = None <=> worker[w].stage = "idle"
  /\ outages \in Nat /\ crashes \in Nat /\ losses \in Nat /\ delays \in Nat
  /\ accepted \in [Deliveries -> Nat]
  /\ doubtful \subseteq Deliveries /\ interrupted \subseteq Deliveries

\* The comment in processMessage: "do not risk a duplicate send".  AWS accepts a
\* message twice only when an answer was lost after it had accepted it once;
\* crashes, redelivery and slow workers do not duplicate it.
DuplicatesExplained == \A d \in Deliveries : accepted[d] > 1 => d \in doubtful

\* A delivery that is queued is in no worker's hands: whoever gives it back has
\* finished with it.
Claimed == {"sending", "sent", "failing", "counting", "counted"}
Sending(w) == worker[w].stage \in Claimed
QueuedIsFree == \A d \in Deliveries, w \in Workers : Sending(w) /\ Holds(w, d) => row[d] # "QUEUED"

\* While workers keep within the visibility timeout and no answer is lost, the
\* campaign keeps the promise of MessageDelivery, crashes notwithstanding.
Promise == INSTANCE MessageDelivery
  WITH status <- row, accepted <- accepted, void <- losses < Losses \/ delays < Delays
KeepsPromise == Promise!Spec

\* Every delivery whose message reached the queue is settled in the end: errors
\* are retried until their last receive, and what a dead worker was sending is
\* given up.  Only a message whose worker ended on the last receive SQS grants is
\* left to the dead-letter queue; a slow worker may still write QUEUED.
Abandoned(d) == queue[d].state = "dead" /\ d \in interrupted
DeliveriesSettle ==
  <>[](\A d \in Deliveries : queue[d].state # "absent" /\ delays = Delays
                             => row[d] \in {"SENT", "FAILED"} \/ Abandoned(d))
=============================================================================
