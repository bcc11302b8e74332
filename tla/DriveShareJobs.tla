----------------------------- MODULE DriveShareJobs -----------------------------
(***************************************************************************)
(* Background Google Drive shares (driveShareJobs.service.js,              *)
(* googleDrive.service.js).  google_drive_shares is the queue: a server    *)
(* claims queued rows, at most Cap at once, takes the lock of the plot,    *)
(* looks for the file in Drive and creates or updates it.  A server that   *)
(* boots queues again whatever is marked running, also what another server *)
(* is working on.  A share here has one file, the same for every share of  *)
(* its plot; a run is one call of runShareJob.                             *)
(***************************************************************************)
EXTENDS Naturals, FiniteSets

CONSTANTS
  Shares,     \* shares by their id; the queue is served in this order
  Plots,      \* what a share lock protects: one logical file each
  Plot,       \* the plot of each share
  Servers,    \* API processes
  Slots,      \* names for the runs of one process
  Cap,        \* JOB_CONCURRENCY
  Attempts,   \* attempts of withDriveRetry
  Nothing,    \* no share in a slot, no holder of a lock
  Outages,    \* bound: ends of processes
  Losses,     \* bound: requests Drive carries out and answers with an error
  Removals    \* bound: files a user deletes in Drive

ASSUME SharesAssumption == Shares \subseteq Nat /\ IsFiniteSet(Shares) /\ Plot \in [Shares -> Plots]
ASSUME SlotsAssumption == IsFiniteSet(Slots) /\ Cap \in Nat \ {0} /\ Attempts \in Nat \ {0}
ASSUME NothingAssumption == Nothing \notin Shares /\ Nothing \notin Servers \X Slots
ASSUME BoundsAssumption == Outages \in Nat /\ Losses \in Nat /\ Removals \in Nat

VARIABLES
  row,      \* google_drive_shares.status
  lock,     \* advisory lock of each plot: the run that holds it
  drive,    \* files of each plot's logical identity in Drive
  server,   \* process: its state and the limit of the claim under way
  run,      \* the runs of each process
  outages, losses, removals

faults == <<outages, losses, removals>>
vars == <<row, lock, drive, server, run, faults>>

Free == [stage |-> "free", share |-> Nothing, known |-> FALSE, tries |-> 0, outcome |-> "failed"]
Alive(p) == server[p].state # "down"
Running(p) == Cardinality({i \in Slots : run[p][i].stage # "free"})
PlotOf(p, i) == Plot[run[p][i].share]
At(p, i, stage) == run[p][i].stage = stage
Become(p, i, next) == run' = [run EXCEPT ![p][i] = next]
Enter(p, i, stage) == Become(p, i, [run[p][i] EXCEPT !.stage = stage])
Finish(p, i, outcome) == Become(p, i, [run[p][i] EXCEPT !.stage = "finishing", !.outcome = outcome])
SetRow(s, status) == row' = [row EXCEPT ![s] = status]

-----------------------------------------------------------------------------
(* The queue.                                                               *)

Enqueue(s) ==
  /\ row[s] = "absent" /\ \E p \in Servers : Alive(p)
  /\ SetRow(s, "queued")
  /\ UNCHANGED <<lock, drive, server, run, faults>>

\* Mutant: room for one run too many.
OneMore(p) == Cap - Running(p) + 1

Allowance(p) == Cap - Running(p)

\* kickShareRunner: one claim at a time; its limit is taken before the query.
Kick(p) ==
  /\ Alive(p) /\ ~server[p].sweeping
  /\ Running(p) < Cap
  /\ server' = [server EXCEPT ![p].sweeping = TRUE, ![p].limit = Allowance(p)]
  /\ UNCHANGED <<row, lock, drive, run, faults>>

Batches(n) == {S \in SUBSET {s \in Shares : row[s] = "queued"} :
                 /\ Cardinality(S) <= n
                 /\ \A s \in Shares \ S, t \in S : row[s] = "queued" => t < s
                 /\ Cardinality(S) < n => \A s \in Shares : row[s] = "queued" => s \in S}

\* claimNext: the first queued rows are running, and a run of each begins.
Claim(p) ==
  /\ server[p].sweeping
  /\ \E S \in Batches(server[p].limit) :
       /\ row' = [s \in Shares |-> IF s \in S THEN "running" ELSE row[s]]
       /\ \E f \in {f \in [Slots -> S \cup {Nothing}] :
                      /\ \A i \in Slots : f[i] # Nothing => At(p, i, "free")
                      /\ \A s \in S : \E i \in Slots : f[i] = s
                      /\ \A i, j \in Slots : f[i] = f[j] /\ f[i] # Nothing => i = j} :
            run' = [run EXCEPT ![p] = [i \in Slots |->
                      IF f[i] = Nothing THEN @[i]
                      ELSE [Free EXCEPT !.stage = "locking", !.share = f[i]]]]
  /\ server' = [server EXCEPT ![p].sweeping = FALSE, ![p].limit = 0]
  /\ UNCHANGED <<lock, drive, faults>>

-----------------------------------------------------------------------------
(* runShareJob                                                              *)

LockFree(p, i) == lock[PlotOf(p, i)] = Nothing

\* tryPlotShareLock; an error of the database ends the run without the lock.
Lock(p, i) ==
  /\ At(p, i, "locking") /\ LockFree(p, i)
  /\ lock' = [lock EXCEPT ![PlotOf(p, i)] = <<p, i>>]
  /\ Enter(p, i, "listing")
  /\ UNCHANGED <<row, drive, server, faults>>

LockFails(p, i) ==
  /\ At(p, i, "locking")
  /\ losses > 0 /\ losses' = losses - 1
  /\ Finish(p, i, "failed")
  /\ UNCHANGED <<row, lock, drive, server, outages, removals>>

Deferred == "queued"

\* Another run works on the plot: the row goes back, whatever it says by now.
Defer(p, i) ==
  /\ At(p, i, "locking") /\ ~LockFree(p, i)
  /\ SetRow(run[p][i].share, Deferred)
  /\ Become(p, i, Free)
  /\ UNCHANGED <<lock, drive, server, faults>>

\* Checks and folders, then the listing of what is there; or an early failure.
List(p, i) ==
  /\ At(p, i, "listing")
  /\ \/ Become(p, i, [run[p][i] EXCEPT !.stage = "putting", !.known = drive[PlotOf(p, i)] > 0])
     \/ Finish(p, i, "failed")
  /\ UNCHANGED <<row, lock, drive, server, faults>>

\* Mutant: the next attempt still believes the first listing.
RetryWith == "putting"

RetryFrom == "looking"

\* withDriveRetry: some errors, and those of the last attempt, are final.
Retry(p, i) ==
  \/ Finish(p, i, "failed")
  \/ /\ run[p][i].tries + 1 < Attempts
     /\ Become(p, i, [run[p][i] EXCEPT !.stage = RetryFrom, !.tries = @ + 1])

\* The request as Drive carries it out: an update, or a new file.
Written(p, i) ==
  drive' = [drive EXCEPT ![PlotOf(p, i)] = IF run[p][i].known THEN @ ELSE @ + 1]
Gone(p, i) == run[p][i].known /\ drive[PlotOf(p, i)] = 0

\* upsertFile: done, refused, or done and answered with an error.
Put(p, i) ==
  /\ At(p, i, "putting") /\ ~Gone(p, i)
  /\ \/ Written(p, i) /\ Finish(p, i, "completed") /\ UNCHANGED losses
     \/ Retry(p, i) /\ UNCHANGED <<drive, losses>>
     \/ losses > 0 /\ losses' = losses - 1 /\ Written(p, i) /\ Retry(p, i)
  /\ UNCHANGED <<row, lock, server, outages, removals>>

\* The known file was deleted meanwhile: looked up again in the same attempt.
PutFindsNothing(p, i) ==
  /\ At(p, i, "putting") /\ Gone(p, i)
  /\ Enter(p, i, "looking")
  /\ UNCHANGED <<row, lock, drive, server, faults>>

LookUp(p, i) ==
  /\ At(p, i, "looking")
  /\ Become(p, i, [run[p][i] EXCEPT !.stage = "putting", !.known = drive[PlotOf(p, i)] > 0])
  /\ UNCHANGED <<row, lock, drive, server, faults>>

\* finish: the outcome is written, whatever the row says by now.
Record(p, i) ==
  /\ At(p, i, "finishing")
  /\ SetRow(run[p][i].share, run[p][i].outcome)
  /\ Enter(p, i, "releasing")
  /\ UNCHANGED <<lock, drive, server, faults>>

\* Mutant: the lock is kept.
LocksKept(p, i) == lock

LocksLeft(p, i) == [q \in Plots |-> IF lock[q] = <<p, i>> THEN Nothing ELSE lock[q]]

Release(p, i) ==
  /\ At(p, i, "releasing")
  /\ lock' = LocksLeft(p, i)
  /\ Become(p, i, Free)
  /\ UNCHANGED <<row, drive, server, faults>>

-----------------------------------------------------------------------------
(* Processes and the user.                                                  *)

Down == [state |-> "down", sweeping |-> FALSE, limit |-> 0]

Crash(p) ==
  /\ Alive(p) /\ outages > 0 /\ outages' = outages - 1
  /\ server' = [server EXCEPT ![p] = Down]
  /\ run' = [run EXCEPT ![p] = [i \in Slots |-> Free]]
  /\ lock' = [q \in Plots |-> IF \E i \in Slots : lock[q] = <<p, i>> THEN Nothing ELSE lock[q]]
  /\ UNCHANGED <<row, drive, losses, removals>>

\* The process listens before its requeue has reached the database.
Start(p) ==
  /\ server[p].state = "down"
  /\ server' = [server EXCEPT ![p].state = "booting"]
  /\ UNCHANGED <<row, lock, drive, run, faults>>

Requeue(p) ==
  /\ server[p].state = "booting"
  /\ row' = [s \in Shares |-> IF row[s] = "running" THEN "queued" ELSE row[s]]
  /\ server' = [server EXCEPT ![p].state = "up"]
  /\ UNCHANGED <<lock, drive, run, faults>>

Remove(q) ==
  /\ drive[q] > 0 /\ removals > 0 /\ removals' = removals - 1
  /\ drive' = [drive EXCEPT ![q] = 0]
  /\ UNCHANGED <<row, lock, server, run, outages, losses>>

-----------------------------------------------------------------------------
Init ==
  /\ row = [s \in Shares |-> "absent"]
  /\ lock = [q \in Plots |-> Nothing]
  /\ drive = [q \in Plots |-> 0]
  /\ server = [p \in Servers |-> Down]
  /\ run = [p \in Servers |-> [i \in Slots |-> Free]]
  /\ outages = Outages /\ losses = Losses /\ removals = Removals

Work(p, i) ==
  \/ Lock(p, i) \/ LockFails(p, i) \/ Defer(p, i) \/ List(p, i) \/ Put(p, i)
  \/ PutFindsNothing(p, i) \/ LookUp(p, i) \/ Record(p, i) \/ Release(p, i)

Serve(p) == Kick(p) \/ Claim(p)
Boot(p) == Start(p) \/ Requeue(p)

Next ==
  \/ \E s \in Shares : Enqueue(s)
  \/ \E p \in Servers : Serve(p) \/ Boot(p) \/ Crash(p) \/ \E i \in Slots : Work(p, i)
  \/ \E q \in Plots : Remove(q)

Spec == Init /\ [][Next]_vars

\* The sweep's timer and every run go on while their process lives; a process
\* that ended is started again.
Fairness ==
  \A p \in Servers : /\ WF_vars(Serve(p)) /\ WF_vars(Boot(p))
                     /\ \A i \in Slots : WF_vars(Work(p, i))

FairSpec == Spec /\ Fairness

-----------------------------------------------------------------------------
(* Properties.                                                              *)

RunRecord == [stage : {"free", "locking", "listing", "putting", "looking", "finishing", "releasing"},
              share : Shares \cup {Nothing}, known : BOOLEAN, tries : Nat,
              outcome : {"completed", "failed"}]

\* The variables have their types; only a free slot has no share.
TypeOK ==
  /\ row \in [Shares -> {"absent", "queued", "running", "completed", "failed"}]
  /\ lock \in [Plots -> (Servers \X Slots) \cup {Nothing}]
  /\ drive \in [Plots -> Nat]
  /\ server \in [Servers -> [state : {"down", "booting", "up"}, sweeping : BOOLEAN, limit : 0..Cap]]
  /\ run \in [Servers -> [Slots -> RunRecord]]
  /\ \A p \in Servers, i \in Slots : run[p][i].share = Nothing <=> At(p, i, "free")
  /\ outages \in Nat /\ losses \in Nat /\ removals \in Nat

\* The comment in uploadTasks: a replay "updates that file instead of creating
\* a duplicate".  Neither retries, restarts, requeued shares nor two processes
\* leave two files of one identity in Drive.
NoDuplicateFiles == \A q \in Plots : drive[q] <= 1

\* kickShareRunner keeps to JOB_CONCURRENCY, however often it is called.
WithinCap == \A p \in Servers : Running(p) + server[p].limit <= Cap

\* "Rows still queued/running after a restart are simply picked up again": a row
\* marked running has a run, or a process that will queue it again.
NoneForgotten ==
  \A s \in Shares : row[s] = "running" =>
    \/ \E p \in Servers, i \in Slots : run[p][i].share = s
    \/ \E p \in Servers : server[p].state # "up"

\* Every share that was queued ends completed or failed.
Settled(s) == row[s] \in {"completed", "failed"}
SharesSettle == \A s \in Shares : row[s] = "queued" ~> Settled(s)
=============================================================================
