------------------------- MODULE WalletImprestOutbox -------------------------
(***************************************************************************)
(* Delivery of the imprest inbox signals                                   *)
(* (walletImprestNotifications.service.js).  A transfer's commit leaves an *)
(* outbox row; API servers read due rows on a timer and hand them to a     *)
(* Bull queue in Redis, or drain them themselves when Redis is away.  Both *)
(* ways run deliverOne: lock the row, signal the participants, mark the    *)
(* row, commit.  Servers crash and stop, Redis comes and goes and forgets  *)
(* its jobs, a signal or a COMMIT can fail at any point.                   *)
(***************************************************************************)
EXTENDS Naturals, FiniteSets

CONSTANTS
  Rows,          \* outbox rows: one per transfer and event
  Participants,  \* the two users who decide on the transfer
  Movers,        \* bound: participants whose site membership may change
  Servers,       \* API processes
  Slots,         \* concurrent jobs of one server's Bull worker
  Drain,         \* the server's own drain loop
  BatchSize,     \* rows read by one pump, and delivered by one drain
  PoolSize,      \* database clients one server may lend to deliveries
  JobAttempts,   \* runs of one Bull job
  Faults         \* bound: crashes, outages, failed statements in a behaviour

ASSUME BoundsAssumption ==
  /\ BatchSize \in Nat \ {0} /\ PoolSize \in Nat \ {0} /\ JobAttempts \in Nat \ {0}
  /\ Faults \in Nat
ASSUME NamesAssumption == Drain \notin Slots /\ IsFiniteSet(Slots) /\ IsFiniteSet(Rows)

VARIABLES
  outbox,    \* wallet_imprest_notification_outbox
  heard,     \* participants who were signalled for a row
  members,   \* active participants still assigned to the site
  server,    \* whether a server runs
  pump,      \* the one pump a server runs at a time
  lane,      \* deliverOne calls: a server's drain loop and its job slots
  redis,     \* whether Redis answers
  jobs,      \* the Bull job of a row, the worker that runs it and its runs
  faults     \* faults still to come

queue == <<redis, jobs>>
outboxVars == <<outbox, heard, members, server, pump, lane, queue, faults>>

Lanes == Servers \X (Slots \cup {Drain})
Workers == Servers \X Slots
DrainOf(p) == <<p, Drain>>

FreeLane == [phase |-> "free"]
Doing(phase, r, todo) == [phase |-> phase, row |-> r, todo |-> todo]
NewJob(state) == [state |-> state, by |-> {}, runs |-> 0]
NoJob == NewJob("none")
NewPump(phase, rows) == [phase |-> phase, rows |-> rows, delivered |-> 0]
NoPump == NewPump("idle", {})

-----------------------------------------------------------------------------
(* The outbox row.                                                          *)

Absent == [state |-> "absent", due |-> FALSE, attempts |-> 0]

\* The row is inserted by the transaction that changes the transfer.
Enqueue(r) ==
  /\ outbox[r] = Absent
  /\ outbox' = [outbox EXCEPT ![r] = [state |-> "pending", due |-> TRUE, attempts |-> 0]]
  /\ UNCHANGED <<heard, members, server, pump, lane, queue, faults>>

\* next_attempt_at passes.
ComeDue(r) ==
  /\ outbox[r].state = "pending" /\ ~outbox[r].due
  /\ outbox' = [outbox EXCEPT ![r] = [state |-> "pending", due |-> TRUE, attempts |-> @.attempts]]
  /\ UNCHANGED <<heard, members, server, pump, lane, queue, faults>>

\* A participant loses, or gets back, the site or the account.
Membership(u) ==
  /\ u \in Movers
  /\ members' = IF u \in members THEN members \ {u} ELSE members \cup {u}
  /\ UNCHANGED <<outbox, heard, server, pump, lane, queue, faults>>

Due == {r \in Rows : outbox[r].state = "pending" /\ outbox[r].due}
Locked(r) == \E d \in Lanes : lane[d].phase = "signalling" /\ lane[d].row = r

\* Mutant: a row that failed once is not selected again.
DeliverableOnce == {r \in Due : ~Locked(r) /\ outbox[r].attempts = 0}

Deliverable == {r \in Due : ~Locked(r)}

-----------------------------------------------------------------------------
(* deliverOne.                                                              *)

\* A client is kept from connect() to release(), the retry update included.
Lent(p) == {d \in Lanes : d[1] = p /\ lane[d].phase \in {"signalling", "failed"}}
ClientLeft(p) == Cardinality(Lent(p)) < PoolSize

LaneStep(d, next) ==
  /\ lane' = [lane EXCEPT ![d] = next]
  /\ UNCHANGED <<server, members, queue>>

Attempted(row, state) == [state |-> state, due |-> FALSE, attempts |-> row.attempts + 1]

Claimed(r) == Doing("signalling", r, members \cap Participants)

\* One participant who was a member when the row was claimed is signalled.
Signal(d) ==
  /\ lane[d].phase = "signalling"
  /\ \E u \in lane[d].todo :
       /\ heard' = [heard EXCEPT ![lane[d].row] = @ \cup {u}]
       /\ LaneStep(d, Doing("signalling", lane[d].row, lane[d].todo \ {u}))
  /\ UNCHANGED <<outbox, pump, faults>>

\* Mutant: the row is marked and committed before the signals go out.
DeliverEarly(d) ==
  /\ lane[d].phase = "signalling"
  /\ outbox' = [outbox EXCEPT ![lane[d].row] = Attempted(@, "delivered")]
  /\ \/ LaneStep(d, Doing("done", lane[d].row, {})) /\ UNCHANGED faults
     \/ faults > 0 /\ faults' = faults - 1 /\ LaneStep(d, Doing("failed", lane[d].row, {}))
  /\ UNCHANGED <<heard, pump>>

\* The row is marked delivered and committed; the answer to COMMIT may be lost.
Deliver(d) ==
  /\ lane[d].phase = "signalling" /\ lane[d].todo = {}
  /\ outbox' = [outbox EXCEPT ![lane[d].row] = Attempted(@, "delivered")]
  /\ \/ LaneStep(d, Doing("done", lane[d].row, {})) /\ UNCHANGED faults
     \/ faults > 0 /\ faults' = faults - 1 /\ LaneStep(d, Doing("failed", lane[d].row, {}))
  /\ UNCHANGED <<heard, pump>>

\* A statement or a signal fails: the transaction is rolled back.
Fail(d) ==
  /\ lane[d].phase = "signalling"
  /\ faults > 0 /\ faults' = faults - 1
  /\ LaneStep(d, Doing("failed", lane[d].row, {}))
  /\ UNCHANGED <<outbox, heard, pump>>

Retried(row) == Attempted(row, row.state)

\* Mutant: the retry is recorded whether or not the row was delivered since.
RecordRetryAlways(d) ==
  LET r == lane[d].row
  IN /\ lane[d].phase = "failed" /\ ~Locked(r)
     /\ \/ outbox' = [outbox EXCEPT ![r] = Retried(@)] /\ UNCHANGED faults
        \/ faults > 0 /\ faults' = faults - 1 /\ UNCHANGED outbox
     /\ LaneStep(d, Doing("threw", r, {}))
     /\ UNCHANGED <<heard, pump>>

\* Mutant: the retry is recorded through another client of the pool.
RecordRetryElsewhere(d) ==
  LET r == lane[d].row
  IN /\ lane[d].phase = "failed" /\ ~Locked(r) /\ ClientLeft(d[1])
     /\ \/ /\ outbox' = IF outbox[r].state = "delivered" THEN outbox
                        ELSE [outbox EXCEPT ![r] = Retried(@)]
           /\ UNCHANGED faults
        \/ faults > 0 /\ faults' = faults - 1 /\ UNCHANGED outbox
     /\ LaneStep(d, Doing("threw", r, {}))
     /\ UNCHANGED <<heard, pump>>

\* UPDATE ... WHERE delivered_at IS NULL, on the same client, once whoever has
\* the row now is done with it; if that fails too, nothing is recorded.
RecordRetry(d) ==
  LET r == lane[d].row
  IN /\ lane[d].phase = "failed" /\ ~Locked(r)
     /\ \/ /\ outbox' = IF outbox[r].state = "delivered" THEN outbox
                        ELSE [outbox EXCEPT ![r] = Retried(@)]
           /\ UNCHANGED faults
        \/ faults > 0 /\ faults' = faults - 1 /\ UNCHANGED outbox
     /\ LaneStep(d, Doing("threw", r, {}))
     /\ UNCHANGED <<heard, pump>>

-----------------------------------------------------------------------------
(* drain: deliverOne over and over, until the batch is full, nothing is     *)
(* left, or a delivery throws.                                              *)

SetPump(p, next) == pump' = [pump EXCEPT ![p] = next]

DrainNext(p) ==
  /\ pump[p].phase = "drain" /\ lane[DrainOf(p)] = FreeLane
  /\ pump[p].delivered < BatchSize /\ ClientLeft(p)
  /\ \/ \E r \in Deliverable : LaneStep(DrainOf(p), Claimed(r)) /\ UNCHANGED pump
     \/ Deliverable = {} /\ SetPump(p, NoPump) /\ UNCHANGED <<lane, server, members, queue>>
  /\ UNCHANGED <<outbox, heard, faults>>

\* No client, or no row, could be had: the delivery throws before its claim.
DrainFails(p) ==
  /\ pump[p].phase = "drain" /\ lane[DrainOf(p)] = FreeLane
  /\ faults > 0 /\ faults' = faults - 1
  /\ SetPump(p, NoPump)
  /\ UNCHANGED <<outbox, heard, members, server, lane, queue>>

DrainFull(p) ==
  /\ pump[p].phase = "drain" /\ pump[p].delivered = BatchSize
  /\ SetPump(p, NoPump)
  /\ UNCHANGED <<outbox, heard, members, server, lane, queue, faults>>

DrainResult(p) ==
  LET phase == lane[DrainOf(p)].phase
  IN /\ phase \in {"done", "threw"}
     /\ SetPump(p, IF phase = "done" THEN [pump[p] EXCEPT !.delivered = @ + 1] ELSE NoPump)
     /\ LaneStep(DrainOf(p), FreeLane)
     /\ UNCHANGED <<outbox, heard, faults>>

-----------------------------------------------------------------------------
(* pump: run by the timer and after every transfer, one at a time.          *)

Batches == {rows \in SUBSET Due :
              Cardinality(rows) = IF Cardinality(Due) < BatchSize THEN Cardinality(Due) ELSE BatchSize}

Pump(p) ==
  /\ server[p] = "up" /\ pump[p] = NoPump
  /\ IF redis THEN \E rows \in Batches \ {{}} : SetPump(p, NewPump("adding", rows))
     ELSE SetPump(p, NewPump("drain", {}))
  /\ UNCHANGED <<outbox, heard, members, server, lane, queue, faults>>

\* queue.add with jobId = row id: a job that is still there is not added again.
AddJob(p) ==
  /\ pump[p].phase = "adding" /\ redis
  /\ \E r \in pump[p].rows :
       /\ jobs' = [jobs EXCEPT ![r] = IF @ = NoJob THEN NewJob("waiting") ELSE @]
       /\ SetPump(p, IF pump[p].rows = {r} THEN NoPump ELSE NewPump("adding", pump[p].rows \ {r}))
  /\ UNCHANGED <<outbox, heard, members, server, lane, redis, faults>>

\* An add fails, or is not answered by a Redis that went away: the pump drains.
AddFails(p) ==
  /\ pump[p].phase = "adding"
  /\ IF redis THEN faults > 0 /\ faults' = faults - 1 ELSE UNCHANGED faults
  /\ SetPump(p, NewPump("drain", {}))
  /\ UNCHANGED <<outbox, heard, members, server, lane, queue>>

-----------------------------------------------------------------------------
(* The Bull worker of each server.                                          *)

StartJob(d) ==
  /\ server[d[1]] = "up" /\ redis /\ lane[d] = FreeLane
  /\ \E r \in Rows :
       /\ jobs[r].state = "waiting"
       /\ jobs' = [jobs EXCEPT ![r] = [state |-> "active", by |-> {d}, runs |-> @.runs + 1]]
       /\ lane' = [lane EXCEPT ![d] = Doing("fetched", r, {})]
  /\ UNCHANGED <<outbox, heard, members, server, pump, redis, faults>>

\* deliverOne(id): a row that is not due, or locked, is none of its business.
ClaimJob(d) ==
  LET r == lane[d].row
  IN /\ lane[d].phase = "fetched" /\ ClientLeft(d[1])
     /\ LaneStep(d, IF r \in Deliverable THEN Claimed(r) ELSE Doing("done", r, {}))
     /\ UNCHANGED <<outbox, heard, pump, faults>>

ClaimFails(d) ==
  /\ lane[d].phase = "fetched"
  /\ faults > 0 /\ faults' = faults - 1
  /\ LaneStep(d, Doing("threw", lane[d].row, {}))
  /\ UNCHANGED <<outbox, heard, pump>>

\* removeOnComplete; a job that was taken away as stalled is left alone.
JobDone(d) ==
  LET r == lane[d].row
  IN /\ lane[d].phase = "done" /\ redis
     /\ jobs' = [jobs EXCEPT ![r] = IF d \in @.by THEN NoJob ELSE @]
     /\ lane' = [lane EXCEPT ![d] = FreeLane]
     /\ UNCHANGED <<outbox, heard, members, server, pump, redis, faults>>

Again(job) == IF job.runs < JobAttempts THEN [state |-> "waiting", by |-> {}, runs |-> job.runs] ELSE NoJob

\* Bull runs a failed job again, and removes it after its last run.
JobFailed(d) ==
  LET r == lane[d].row
  IN /\ lane[d].phase = "threw" /\ redis
     /\ jobs' = [jobs EXCEPT ![r] = IF d \in @.by THEN Again(@) ELSE @]
     /\ lane' = [lane EXCEPT ![d] = FreeLane]
     /\ UNCHANGED <<outbox, heard, members, server, pump, redis, faults>>

\* Redis is away when the job ends: it stays active there.
JobUnreported(d) ==
  /\ lane[d].phase \in {"done", "threw"} /\ ~redis
  /\ LaneStep(d, FreeLane)
  /\ UNCHANGED <<outbox, heard, pump, faults>>

\* An active job whose worker has not renewed its lock is queued again, or
\* removed when that happens too often.
Stalled(r) ==
  /\ redis /\ jobs[r].state = "active"
  /\ IF \E d \in jobs[r].by : lane[d].phase # "free" /\ lane[d].row = r
     THEN faults > 0 /\ faults' = faults - 1
     ELSE UNCHANGED faults
  /\ jobs' \in {[jobs EXCEPT ![r] = NoJob], [jobs EXCEPT ![r] = Again(@)]}
  /\ UNCHANGED <<outbox, heard, members, server, pump, lane, redis>>

-----------------------------------------------------------------------------
(* Redis and the servers.                                                   *)

RedisDown ==
  /\ redis /\ faults > 0 /\ faults' = faults - 1
  /\ redis' = FALSE
  /\ jobs' \in {jobs, [r \in Rows |-> NoJob]}
  /\ UNCHANGED <<outbox, heard, members, server, pump, lane>>

RedisUp ==
  /\ ~redis /\ redis' = TRUE
  /\ UNCHANGED <<outbox, heard, members, server, pump, lane, jobs, faults>>

\* SIGTERM: no new pump and no new job; what is under way may still finish.
Stop(p) ==
  /\ server[p] = "up" /\ faults > 0 /\ faults' = faults - 1
  /\ server' = [server EXCEPT ![p] = "stopping"]
  /\ UNCHANGED <<outbox, heard, members, pump, lane, queue>>

\* The process is gone, and with it every transaction and lock it had.
Gone(p) ==
  /\ server' = [server EXCEPT ![p] = "down"]
  /\ SetPump(p, NoPump)
  /\ lane' = [d \in Lanes |-> IF d[1] = p THEN FreeLane ELSE lane[d]]
  /\ UNCHANGED <<outbox, heard, members, queue>>

Exit(p) == server[p] = "stopping" /\ Gone(p) /\ UNCHANGED faults

Crash(p) ==
  /\ server[p] # "down" /\ faults > 0 /\ faults' = faults - 1
  /\ Gone(p)

Boot(p) ==
  /\ server[p] = "down"
  /\ server' = [server EXCEPT ![p] = "up"]
  /\ UNCHANGED <<outbox, heard, members, pump, lane, queue, faults>>

-----------------------------------------------------------------------------
OutboxInit ==
  /\ outbox = [r \in Rows |-> Absent]
  /\ heard = [r \in Rows |-> {}]
  /\ members \in SUBSET Participants
  /\ server = [p \in Servers |-> "up"]
  /\ pump = [p \in Servers |-> NoPump]
  /\ lane = [d \in Lanes |-> FreeLane]
  /\ redis \in BOOLEAN
  /\ jobs = [r \in Rows |-> NoJob]
  /\ faults = Faults

Deliveries(d) == Signal(d) \/ Deliver(d) \/ Fail(d) \/ RecordRetry(d)
Draining(p) == DrainNext(p) \/ DrainFails(p) \/ DrainFull(p) \/ DrainResult(p)
Pumping(p) == Pump(p) \/ AddJob(p) \/ AddFails(p)
Working(d) ==
  \/ StartJob(d) \/ ClaimJob(d) \/ ClaimFails(d)
  \/ JobDone(d) \/ JobFailed(d) \/ JobUnreported(d)

OutboxNext ==
  \/ \E r \in Rows : Enqueue(r) \/ ComeDue(r) \/ Stalled(r)
  \/ \E u \in Participants : Membership(u)
  \/ \E d \in Lanes : Deliveries(d)
  \/ \E d \in Workers : Working(d)
  \/ \E p \in Servers : Draining(p) \/ Pumping(p) \/ Stop(p) \/ Exit(p) \/ Crash(p) \/ Boot(p)
  \/ RedisDown \/ RedisUp

OutboxSpec == OutboxInit /\ [][OutboxNext]_outboxVars

\* Timers fire, event loops run, a process that stopped is started again, and
\* a queue.add that is under way is answered: Redis comes back or refuses it.
Fairness ==
  /\ \A r \in Rows : WF_outboxVars(ComeDue(r)) /\ WF_outboxVars(Stalled(r))
  /\ \A d \in Lanes : WF_outboxVars(Signal(d) \/ Deliver(d) \/ Fail(d)) /\ WF_outboxVars(RecordRetry(d))
  /\ \A d \in Workers : WF_outboxVars(Working(d))
  /\ \A p \in Servers : /\ WF_outboxVars(Draining(p)) /\ WF_outboxVars(Pump(p)) /\ WF_outboxVars(AddJob(p))
                        /\ WF_outboxVars(Exit(p)) /\ WF_outboxVars(Boot(p))
                        /\ WF_outboxVars(pump[p].phase = "adding" /\ (RedisUp \/ AddFails(p)))

OutboxFairSpec == OutboxSpec /\ Fairness

-----------------------------------------------------------------------------
LaneStates ==
  {FreeLane} \cup [phase : {"fetched", "signalling", "failed", "done", "threw"}, row : Rows,
              todo : SUBSET Participants]

OutboxTypeOK ==
  /\ outbox \in [Rows -> [state : {"absent", "pending", "delivered"}, due : BOOLEAN, attempts : Nat]]
  /\ heard \in [Rows -> SUBSET Participants]
  /\ members \in SUBSET Participants
  /\ server \in [Servers -> {"up", "stopping", "down"}]
  /\ pump \in [Servers -> [phase : {"idle", "adding", "drain"}, rows : SUBSET Rows,
                          delivered : 0..BatchSize]]
  /\ lane \in [Lanes -> LaneStates]
  /\ redis \in BOOLEAN
  /\ jobs \in [Rows -> [state : {"none", "waiting", "active"}, by : SUBSET Workers,
                       runs : 0..JobAttempts]]
  /\ faults \in 0..Faults

(* Nobody who was a member all along is left out: a row is marked delivered *)
(* only after each of them was signalled, by this delivery or an earlier    *)
(* one that crashed, failed or lost its COMMIT (deliverOne).                *)
AtLeastOnce ==
  \A r \in Rows : outbox[r].state = "delivered" => members \ Movers \subseteq heard[r]

(* "Delivered rows cannot trigger duplicate wakeups": no drain loop and no  *)
(* job of any server is signalling for a row that is delivered already.     *)
QuietOnceDelivered ==
  \A d \in Lanes : lane[d].phase = "signalling" => outbox[lane[d].row].state = "pending"

(* A retry recorded late, by a delivery that failed while another one went  *)
(* through, does not touch the delivered row.                               *)
DeliveredIsFinal ==
  [][\A r \in Rows : outbox[r].state = "delivered" => outbox'[r] = outbox[r]]_outboxVars

(* Once delivered, a row wakes nobody up again and changes no more: neither *)
(* the deliveries that raced for it nor a late retry get at it.             *)
DeliveredIsDone == []QuietOnceDelivered /\ DeliveredIsFinal

(* Every committed row is delivered in the end, although Bull jobs run out  *)
(* of attempts or vanish with Redis and servers crash between two steps.    *)
EventuallyDelivered ==
  \A r \in Rows : outbox[r].state = "pending" ~> outbox[r].state = "delivered"

(* A server's pump always returns, so the next timer finds a pump to run:   *)
(* deliveries never wait for each other's database clients.                 *)
PumpReturns == \A p \in Servers : pump[p] # NoPump ~> pump[p] = NoPump
=============================================================================
