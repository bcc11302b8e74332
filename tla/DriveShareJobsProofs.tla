-------------------------- MODULE DriveShareJobsProofs --------------------------
(***************************************************************************)
(* Proofs about background Drive shares, for any number of shares, plots,  *)
(* processes and faults: one file of an identity in Drive, never more runs *)
(* than the cap, and no share left behind as running.                      *)
(***************************************************************************)
EXTENDS DriveShareJobs, FiniteSetTheorems, FunctionTheorems, TLAPS

Uploading == {"listing", "putting", "looking"}

\* A run that lists, looks up or uploads holds the lock of its plot.
HoldsLock ==
  \A p \in Servers, i \in Slots :
    run[p][i].stage \in Uploading => lock[PlotOf(p, i)] = <<p, i>>

\* A run that is about to create a file is right that there is none.
KnowsAbsent ==
  \A p \in Servers, i \in Slots :
    At(p, i, "putting") /\ ~run[p][i].known => drive[PlotOf(p, i)] = 0

\* A row marked running has a run that has yet to write to it.
Pursues(p, i, s) == run[p][i].share = s /\ run[p][i].stage # "releasing"
Pursued ==
  \A s \in Shares : row[s] = "running" =>
    \/ \E p \in Servers, i \in Slots : Pursues(p, i, s)
    \/ \E p \in Servers : server[p].state # "up"

IInv == TypeOK /\ NoDuplicateFiles /\ WithinCap /\ HoldsLock /\ KnowsAbsent /\ Pursued

Busy(p) == {i \in Slots : run[p][i].stage # "free"}

LEMMA BusyFacts ==
  ASSUME NEW p \in Servers
  PROVE  /\ IsFiniteSet(Busy(p)) /\ Running(p) = Cardinality(Busy(p)) /\ Running(p) \in Nat
<1>1. IsFiniteSet(Busy(p))
  BY SlotsAssumption, FS_Subset DEF Busy
<1>2. QED
  BY <1>1, FS_CardinalityType DEF Busy, Running

\* A run that uploads has a share, whose plot it holds.
LEMMA UploadsLocked ==
  ASSUME IInv, NEW q \in Servers, NEW j \in Slots, run[q][j].stage \in Uploading
  PROVE  PlotOf(q, j) \in Plots /\ lock[PlotOf(q, j)] = <<q, j>>
<1>1. run[q][j].share \in Shares \cup {Nothing}
  BY DEF IInv, TypeOK, RunRecord
<1>2. run[q][j].share # Nothing
  BY DEF IInv, TypeOK, At, Uploading
<1>3. PlotOf(q, j) \in Plots
  BY <1>1, <1>2, SharesAssumption DEF PlotOf
<1> QED
  BY <1>3 DEF IInv, HoldsLock

\* What one run does to the shared state when it moves on to the record n.
RunStep(p, i, n) ==
  /\ Become(p, i, n) /\ ~At(p, i, "free") /\ UNCHANGED server
  /\ n.share \in {run[p][i].share, Nothing}
  /\ n.share = Nothing <=> n.stage = "free"
  /\ n.stage \in Uploading => lock'[PlotOf(p, i)] = <<p, i>>
  /\ \A q \in Plots : lock[q] # Nothing /\ lock[q] # <<p, i>> => lock'[q] = lock[q]
  /\ n.stage = "putting" /\ ~n.known => drive'[PlotOf(p, i)] = 0
  /\ \A q \in Plots : drive'[q] = drive[q] \/ (lock[q] = <<p, i>> /\ drive'[q] <= 1)
  /\ \A s \in Shares : row'[s] = "running" =>
       /\ row[s] = "running"
       /\ Pursues(p, i, s) => n.share = s /\ n.stage # "releasing"

LEMMA RunStepKeeps ==
  ASSUME IInv, NEW p \in Servers, NEW i \in Slots, NEW n \in RunRecord, RunStep(p, i, n),
         row' \in [Shares -> {"absent", "queued", "running", "completed", "failed"}],
         lock' \in [Plots -> (Servers \X Slots) \cup {Nothing}],
         drive' \in [Plots -> Nat],
         outages' \in Nat, losses' \in Nat, removals' \in Nat
  PROVE  IInv'
<1> USE DEF RunStep
<1>1. /\ run' \in [Servers -> [Slots -> RunRecord]]
      /\ \A q \in Servers, j \in Slots : run'[q][j] = IF q = p /\ j = i THEN n ELSE run[q][j]
  BY DEF IInv, TypeOK, Become
<1>2. \A q \in Servers, j \in Slots : run'[q][j].share = Nothing <=> At(q, j, "free")'
  BY <1>1 DEF IInv, TypeOK, At
<1>3. TypeOK'
  BY <1>1, <1>2 DEF IInv, TypeOK
<1>4. \A q \in Servers, j \in Slots :
        run[q][j].stage \in Uploading => PlotOf(q, j) \in Plots /\ lock[PlotOf(q, j)] = <<q, j>>
  BY UploadsLocked
<1>5. n.stage # "free" => n.share = run[p][i].share
  OBVIOUS
<1>6. \A q \in Servers, j \in Slots :
        ~(q = p /\ j = i) => /\ PlotOf(q, j)' = PlotOf(q, j)
                             /\ \A stage : At(q, j, stage)' <=> At(q, j, stage)
  BY <1>1 DEF PlotOf, At
<1>7. n.stage # "free" => PlotOf(p, i)' = PlotOf(p, i)
  BY <1>1, <1>5 DEF PlotOf
<1>8. HoldsLock'
  <2> SUFFICES ASSUME NEW q \in Servers, NEW j \in Slots, run'[q][j].stage \in Uploading
               PROVE  lock'[PlotOf(q, j)'] = <<q, j>>
    BY DEF HoldsLock
  <2>1. CASE q = p /\ j = i
    BY <1>1, <1>7, <2>1 DEF Uploading
  <2>2. CASE ~(q = p /\ j = i)
    <3>1. lock[PlotOf(q, j)] = <<q, j>> /\ PlotOf(q, j) \in Plots /\ PlotOf(q, j)' = PlotOf(q, j)
      BY <1>1, <1>4, <1>6, <2>2
    <3>2. <<q, j>> # Nothing /\ <<q, j>> # <<p, i>>
      BY <2>2, NothingAssumption
    <3>3. QED
      BY <3>1, <3>2
  <2>3. QED
    BY <2>1, <2>2
<1>9. KnowsAbsent'
  <2> SUFFICES ASSUME NEW q \in Servers, NEW j \in Slots, run'[q][j].stage = "putting", ~run'[q][j].known
               PROVE  drive'[PlotOf(q, j)'] = 0
    BY DEF KnowsAbsent, At
  <2>1. CASE q = p /\ j = i
    BY <1>1, <1>7, <2>1
  <2>2. CASE ~(q = p /\ j = i)
    <3>1. /\ lock[PlotOf(q, j)] = <<q, j>> /\ PlotOf(q, j) \in Plots /\ PlotOf(q, j)' = PlotOf(q, j)
          /\ drive[PlotOf(q, j)] = 0
      BY <1>1, <1>4, <1>6, <2>2 DEF IInv, KnowsAbsent, At, Uploading
    <3>2. <<q, j>> # <<p, i>>
      BY <2>2
    <3>3. QED
      BY <3>1, <3>2
  <2>3. QED
    BY <2>1, <2>2
<1>10. NoDuplicateFiles'
  BY DEF IInv, NoDuplicateFiles
<1>11. WithinCap'
  <2> SUFFICES ASSUME NEW q \in Servers PROVE Running(q)' + server[q].limit <= Cap
    BY DEF WithinCap
  <2>1. Busy(q)' \subseteq Busy(q)
    BY <1>1 DEF Busy, At
  <2>2. Busy(q)' \in SUBSET Busy(q) /\ Running(q)' = Cardinality(Busy(q)')
    BY <2>1 DEF Busy, Running
  <2>3. Running(q)' \in Nat /\ Running(q)' <= Running(q)
    BY <2>2, BusyFacts, FS_Subset, FS_CardinalityType
  <2>4. Running(q) + server[q].limit <= Cap /\ server[q].limit \in Nat
    BY DEF IInv, WithinCap, TypeOK
  <2>5. QED
    BY <2>3, <2>4, BusyFacts, SlotsAssumption
<1>12. Pursued'
  <2> SUFFICES ASSUME NEW s \in Shares, row'[s] = "running", \A q \in Servers : server[q].state = "up"
               PROVE  \E q \in Servers, j \in Slots : Pursues(q, j, s)'
    BY DEF Pursued
  <2>1. PICK q \in Servers, j \in Slots : Pursues(q, j, s)
    BY DEF IInv, Pursued
  <2>2. CASE q = p /\ j = i
    <3>1. n.share = s /\ n.stage # "releasing"
      BY <2>1, <2>2
    <3>2. QED
      BY <1>1, <3>1 DEF Pursues
  <2>3. CASE ~(q = p /\ j = i)
    BY <1>1, <2>1, <2>3 DEF Pursues
  <2>4. QED
    BY <2>2, <2>3
<1>13. QED
  BY <1>3, <1>8, <1>9, <1>10, <1>11, <1>12 DEF IInv

LEMMA InitIInv == Init => IInv
<1> SUFFICES ASSUME Init PROVE IInv
  OBVIOUS
<1>1. \A p \in Servers : Running(p) = 0
  <2>1. \A p \in Servers : {i \in Slots : run[p][i].stage # "free"} = {}
    BY DEF Init, Free
  <2>2. QED
    BY <2>1, FS_EmptySet DEF Running
<1>2. TypeOK
  BY NothingAssumption, BoundsAssumption, SlotsAssumption DEF Init, TypeOK, Free, Down, RunRecord, At
<1>3. QED
  BY <1>1, <1>2, SlotsAssumption
     DEF Init, IInv, NoDuplicateFiles, WithinCap, HoldsLock, KnowsAbsent, Pursued, Free, Down, Uploading, At

LEMMA RunFields ==
  ASSUME TypeOK, NEW p \in Servers, NEW i \in Slots
  PROVE  /\ run[p][i] \in RunRecord /\ <<p, i>> # Nothing
         /\ ~At(p, i, "free") => run[p][i].share \in Shares /\ PlotOf(p, i) \in Plots
         /\ Free \in RunRecord /\ Free.share = Nothing /\ Free.stage = "free"
<1>1. run[p][i] \in RunRecord /\ <<p, i>> # Nothing
  BY NothingAssumption DEF TypeOK
<1>2. Free \in RunRecord /\ Free.share = Nothing /\ Free.stage = "free"
  BY DEF Free, RunRecord
<1>3. ~At(p, i, "free") => run[p][i].share \in Shares
  BY <1>1 DEF TypeOK, RunRecord
<1>4. QED
  BY <1>1, <1>2, <1>3, SharesAssumption DEF PlotOf

LEMMA FinishRecord ==
  ASSUME TypeOK, NEW p \in Servers, NEW i \in Slots, ~At(p, i, "free"),
         NEW outcome \in {"completed", "failed"}, Finish(p, i, outcome)
  PROVE  \E n \in RunRecord : Become(p, i, n) /\ n.stage = "finishing"
                              /\ n.share = run[p][i].share /\ n.share # Nothing
<1> DEFINE n == [run[p][i] EXCEPT !.stage = "finishing", !.outcome = outcome]
<1>1. run[p][i] \in RunRecord
  BY RunFields
<1>2. n \in RunRecord /\ n.stage = "finishing" /\ n.share = run[p][i].share /\ n.share # Nothing
  BY <1>1 DEF RunRecord, TypeOK
<1>3. Become(p, i, n)
  BY DEF Finish
<1> HIDE DEF n
<1>4. QED
  BY <1>2, <1>3

\* A run that goes on to another stage and touches no row.
LEMMA Continue ==
  ASSUME IInv, NEW p \in Servers, NEW i \in Slots, NEW n \in RunRecord, Become(p, i, n),
         ~At(p, i, "free"), n.share = run[p][i].share, n.stage \notin {"free", "releasing"},
         UNCHANGED <<row, server>>,
         n.stage \in Uploading => lock'[PlotOf(p, i)] = <<p, i>>,
         \/ lock' = lock
         \/ (lock[PlotOf(p, i)] = Nothing /\ lock' = [lock EXCEPT ![PlotOf(p, i)] = <<p, i>>]),
         n.stage = "putting" /\ ~n.known => drive'[PlotOf(p, i)] = 0,
         drive' \in [Plots -> Nat],
         \A q \in Plots : drive'[q] = drive[q] \/ (lock[q] = <<p, i>> /\ drive'[q] <= 1),
         outages' \in Nat, losses' \in Nat, removals' \in Nat
  PROVE  IInv'
<1>1. run[p][i].share \in Shares /\ PlotOf(p, i) \in Plots
  BY RunFields DEF IInv
<1>2. /\ lock' \in [Plots -> (Servers \X Slots) \cup {Nothing}]
      /\ \A q \in Plots : lock[q] # Nothing /\ lock[q] # <<p, i>> => lock'[q] = lock[q]
  BY <1>1 DEF IInv, TypeOK
<1>3. n.share = Nothing <=> n.stage = "free"
  BY <1>1, NothingAssumption
<1>4. RunStep(p, i, n)
  BY <1>2, <1>3 DEF RunStep, Pursues
<1>5. row' \in [Shares -> {"absent", "queued", "running", "completed", "failed"}]
  BY DEF IInv, TypeOK
<1>6. QED
  BY <1>2, <1>4, <1>5, RunStepKeeps

LEMMA LockStep ==
  ASSUME IInv, NEW p \in Servers, NEW i \in Slots, Lock(p, i) PROVE IInv'
<1> DEFINE n == [run[p][i] EXCEPT !.stage = "listing"]
<1>1. run[p][i] \in RunRecord /\ ~At(p, i, "free") /\ PlotOf(p, i) \in Plots
  BY RunFields DEF IInv, Lock, At
<1>2. n \in RunRecord /\ n.stage = "listing" /\ n.share = run[p][i].share
  BY <1>1 DEF RunRecord
<1>3. Become(p, i, n)
  BY DEF Lock, Enter
<1>4. /\ lock[PlotOf(p, i)] = Nothing /\ lock' = [lock EXCEPT ![PlotOf(p, i)] = <<p, i>>]
      /\ lock'[PlotOf(p, i)] = <<p, i>>
  BY <1>1 DEF Lock, LockFree, IInv, TypeOK
<1>5. /\ UNCHANGED <<row, server, drive>> /\ drive' \in [Plots -> Nat]
      /\ outages' \in Nat /\ losses' \in Nat /\ removals' \in Nat
  BY DEF Lock, faults, IInv, TypeOK
<1> HIDE DEF n
<1>6. QED
  BY <1>1, <1>2, <1>3, <1>4, <1>5, Continue

LEMMA FinishStep ==
  ASSUME IInv, NEW p \in Servers, NEW i \in Slots, ~At(p, i, "free"),
         NEW outcome \in {"completed", "failed"}, Finish(p, i, outcome),
         UNCHANGED <<row, lock, server>>,
         drive' \in [Plots -> Nat],
         \A q \in Plots : drive'[q] = drive[q] \/ (lock[q] = <<p, i>> /\ drive'[q] <= 1),
         outages' \in Nat, losses' \in Nat, removals' \in Nat
  PROVE  IInv'
<1>1. PICK n \in RunRecord : Become(p, i, n) /\ n.stage = "finishing" /\ n.share = run[p][i].share
  BY FinishRecord DEF IInv
<1>2. n.stage \notin Uploading \cup {"free", "releasing"}
  BY <1>1 DEF Uploading
<1>3. QED
  BY <1>1, <1>2, Continue

LEMMA ListStep ==
  ASSUME IInv, NEW p \in Servers, NEW i \in Slots, List(p, i) \/ LookUp(p, i) PROVE IInv'
<1> DEFINE known == drive[PlotOf(p, i)] > 0
           n == [run[p][i] EXCEPT !.stage = "putting", !.known = known]
<1>1. run[p][i] \in RunRecord /\ ~At(p, i, "free") /\ PlotOf(p, i) \in Plots
  BY RunFields DEF IInv, List, LookUp, At
<1>2. /\ UNCHANGED <<row, lock, server, drive>> /\ drive' \in [Plots -> Nat]
      /\ outages' \in Nat /\ losses' \in Nat /\ removals' \in Nat
  BY DEF List, LookUp, faults, IInv, TypeOK
<1>3. CASE Finish(p, i, "failed")
  BY <1>1, <1>2, <1>3, FinishStep
<1>4. CASE Become(p, i, n)
  <2>1. known \in BOOLEAN
    OBVIOUS
  <2>2. ~known => drive[PlotOf(p, i)] = 0
    BY <1>1 DEF IInv, TypeOK
  <2> HIDE DEF known
  <2>3. n \in RunRecord /\ n.stage = "putting" /\ n.share = run[p][i].share /\ n.known = known
    BY <1>1, <2>1 DEF RunRecord
  <2>4. lock'[PlotOf(p, i)] = <<p, i>>
    BY <1>2 DEF IInv, HoldsLock, List, LookUp, At, Uploading
  <2> HIDE DEF n
  <2>5. QED
    BY <1>1, <1>2, <1>4, <2>2, <2>3, <2>4, Continue
<1>5. QED
  BY <1>3, <1>4 DEF List, LookUp

LEMMA PutFindsNothingStep ==
  ASSUME IInv, NEW p \in Servers, NEW i \in Slots, PutFindsNothing(p, i) PROVE IInv'
<1> DEFINE n == [run[p][i] EXCEPT !.stage = "looking"]
<1>1. run[p][i] \in RunRecord /\ ~At(p, i, "free") /\ PlotOf(p, i) \in Plots
  BY RunFields DEF IInv, PutFindsNothing, At
<1>2. /\ UNCHANGED <<row, lock, server, drive>> /\ drive' \in [Plots -> Nat]
      /\ outages' \in Nat /\ losses' \in Nat /\ removals' \in Nat
  BY DEF PutFindsNothing, faults, IInv, TypeOK
<1>3. n \in RunRecord /\ n.stage = "looking" /\ n.share = run[p][i].share
  BY <1>1 DEF RunRecord
<1>4. Become(p, i, n)
  BY DEF PutFindsNothing, Enter
<1>5. lock'[PlotOf(p, i)] = <<p, i>>
  BY <1>2 DEF IInv, HoldsLock, PutFindsNothing, At, Uploading
<1> HIDE DEF n
<1>6. QED
  BY <1>1, <1>2, <1>3, <1>4, <1>5, Continue

\* The heart of the argument: who creates holds the lock and knows there is none.
LEMMA WrittenFacts ==
  ASSUME IInv, NEW p \in Servers, NEW i \in Slots, At(p, i, "putting"),
         drive' = drive \/ Written(p, i)
  PROVE  /\ drive' \in [Plots -> Nat]
         /\ \A q \in Plots : drive'[q] = drive[q] \/ (lock[q] = <<p, i>> /\ drive'[q] <= 1)
<1>1. PlotOf(p, i) \in Plots
  BY RunFields DEF IInv, At
<1>2. lock[PlotOf(p, i)] = <<p, i>>
  BY DEF IInv, HoldsLock, At, Uploading
<1>3. ~run[p][i].known => drive[PlotOf(p, i)] = 0
  BY DEF IInv, KnowsAbsent
<1>4. drive[PlotOf(p, i)] \in Nat /\ drive[PlotOf(p, i)] <= 1 /\ drive \in [Plots -> Nat]
  BY <1>1 DEF IInv, NoDuplicateFiles, TypeOK
<1>5. QED
  BY <1>1, <1>2, <1>3, <1>4 DEF Written

LEMMA PutStep ==
  ASSUME IInv, NEW p \in Servers, NEW i \in Slots, Put(p, i) PROVE IInv'
<1>1. run[p][i] \in RunRecord /\ ~At(p, i, "free") /\ PlotOf(p, i) \in Plots /\ At(p, i, "putting")
  BY RunFields DEF IInv, Put, At
<1>2. drive' = drive \/ Written(p, i)
  BY DEF Put
<1>3. /\ UNCHANGED <<row, lock, server>>
      /\ outages' \in Nat /\ losses' \in Nat /\ removals' \in Nat
  BY DEF Put, IInv, TypeOK
<1>4. CASE Finish(p, i, "completed") \/ Finish(p, i, "failed")
  BY <1>1, <1>2, <1>3, <1>4, WrittenFacts, FinishStep
<1>5. CASE Become(p, i, [run[p][i] EXCEPT !.stage = "looking", !.tries = @ + 1])
  <2> DEFINE n == [run[p][i] EXCEPT !.stage = "looking", !.tries = @ + 1]
  <2>0. run[p][i].tries + 1 \in Nat
    BY <1>1 DEF RunRecord
  <2>1. n \in RunRecord /\ n.stage = "looking" /\ n.share = run[p][i].share
    <3> DEFINE m == run[p][i].tries + 1
    <3>1. n = [run[p][i] EXCEPT !.stage = "looking", !.tries = m]
      BY <1>1 DEF RunRecord
    <3> HIDE DEF m, n
    <3>2. m \in Nat
      BY <2>0 DEF m
    <3>3. QED
      BY <1>1, <3>1, <3>2 DEF RunRecord
  <2>2. lock'[PlotOf(p, i)] = <<p, i>>
    BY <1>1, <1>3 DEF IInv, HoldsLock, At, Uploading
  <2>3. Become(p, i, n)
    BY <1>5
  <2> HIDE DEF n
  <2>4. QED
    BY <1>1, <1>2, <1>3, <2>1, <2>2, <2>3, WrittenFacts, Continue
<1>6. QED
  BY <1>4, <1>5 DEF Put, Retry, RetryFrom

\* A run that writes its row and goes on to release the lock, or leaves.
LEMMA WriteStep ==
  ASSUME IInv, NEW p \in Servers, NEW i \in Slots, NEW n \in RunRecord, Become(p, i, n),
         ~At(p, i, "free"),
         n = Free \/ (n.stage = "releasing" /\ n.share = run[p][i].share),
         NEW status \in {"queued", "completed", "failed"}, SetRow(run[p][i].share, status),
         UNCHANGED <<lock, drive, server, faults>>
  PROVE  IInv'
<1>1. run[p][i].share \in Shares /\ run[p][i].share # Nothing
  BY RunFields, NothingAssumption DEF IInv
<1>2. /\ row' \in [Shares -> {"absent", "queued", "running", "completed", "failed"}]
      /\ row'[run[p][i].share] # "running"
      /\ \A s \in Shares : s # run[p][i].share => row'[s] = row[s]
  BY <1>1 DEF SetRow, IInv, TypeOK
<1>3. /\ n.share \in {run[p][i].share, Nothing} /\ (n.share = Nothing <=> n.stage = "free")
      /\ n.stage \notin Uploading
  BY <1>1, RunFields DEF IInv, Uploading
<1>4. RunStep(p, i, n)
  BY <1>2, <1>3 DEF RunStep, Pursues, Uploading
<1>5. QED
  BY <1>2, <1>4, RunStepKeeps DEF faults, IInv, TypeOK

LEMMA DeferStep ==
  ASSUME IInv, NEW p \in Servers, NEW i \in Slots, Defer(p, i) PROVE IInv'
  BY RunFields, WriteStep DEF Defer, Deferred, At, IInv

LEMMA RecordStep ==
  ASSUME IInv, NEW p \in Servers, NEW i \in Slots, Record(p, i) PROVE IInv'
<1> DEFINE n == [run[p][i] EXCEPT !.stage = "releasing"]
<1>1. run[p][i] \in RunRecord /\ ~At(p, i, "free")
  BY RunFields DEF IInv, Record, At
<1>2. n \in RunRecord /\ n.stage = "releasing" /\ n.share = run[p][i].share
  BY <1>1 DEF RunRecord
<1>3. run[p][i].outcome \in {"completed", "failed"}
  BY <1>1 DEF RunRecord
<1>4. Become(p, i, n)
  BY DEF Record, Enter
<1> HIDE DEF n
<1>5. QED
  BY <1>1, <1>2, <1>3, <1>4, WriteStep DEF Record

LEMMA ReleaseStep ==
  ASSUME IInv, NEW p \in Servers, NEW i \in Slots, Release(p, i) PROVE IInv'
<1>1. ~At(p, i, "free") /\ Free \in RunRecord /\ Free.share = Nothing /\ Free.stage = "free"
  BY RunFields DEF IInv, Release, At
<1>2. /\ lock' \in [Plots -> (Servers \X Slots) \cup {Nothing}]
      /\ \A q \in Plots : lock[q] # <<p, i>> => lock'[q] = lock[q]
  BY DEF Release, LocksLeft, IInv, TypeOK
<1>3. /\ UNCHANGED <<row, drive, server, faults>> /\ Become(p, i, Free)
      /\ run[p][i].stage = "releasing"
  BY DEF Release, At
<1>4. RunStep(p, i, Free)
  BY <1>1, <1>2, <1>3 DEF RunStep, Pursues, Uploading
<1>5. QED
  BY <1>1, <1>2, <1>3, <1>4, RunStepKeeps DEF faults, IInv, TypeOK

LEMMA LockFailsStep ==
  ASSUME IInv, NEW p \in Servers, NEW i \in Slots, LockFails(p, i) PROVE IInv'
<1>1. ~At(p, i, "free") /\ Finish(p, i, "failed")
  BY DEF LockFails, At
<1>2. /\ UNCHANGED <<row, lock, drive, server>> /\ drive' \in [Plots -> Nat]
      /\ outages' \in Nat /\ losses' \in Nat /\ removals' \in Nat
  BY DEF LockFails, IInv, TypeOK
<1>3. QED
  BY <1>1, <1>2, FinishStep

-----------------------------------------------------------------------------
\* Steps that move no run.
LEMMA RunsStay ==
  ASSUME IInv, UNCHANGED <<lock, run>>, TypeOK',
         \A q \in Plots : drive'[q] \in {drive[q], 0},
         \A p \in Servers : server'[p].limit = server[p].limit
                            \/ Running(p) + server'[p].limit <= Cap,
         Pursued'
  PROVE  IInv'
<1>1. /\ \A p \in Servers : Running(p)' = Running(p)
      /\ \A p \in Servers, i \in Slots : /\ PlotOf(p, i)' = PlotOf(p, i)
                                         /\ \A stage : At(p, i, stage)' <=> At(p, i, stage)
  BY DEF Running, PlotOf, At
<1>2. WithinCap'
  BY <1>1 DEF IInv, WithinCap
<1>3. HoldsLock'
  BY <1>1 DEF IInv, HoldsLock
<1>4. NoDuplicateFiles'
  BY DEF IInv, NoDuplicateFiles
<1>5. KnowsAbsent'
  <2> SUFFICES ASSUME NEW p \in Servers, NEW i \in Slots, At(p, i, "putting"), ~run[p][i].known
               PROVE  drive'[PlotOf(p, i)] = 0
    BY <1>1 DEF KnowsAbsent
  <2>1. PlotOf(p, i) \in Plots /\ drive[PlotOf(p, i)] = 0
    BY RunFields DEF IInv, KnowsAbsent, At
  <2>2. QED
    BY <2>1
<1>6. QED
  BY <1>2, <1>3, <1>4, <1>5 DEF IInv

LEMMA OutsideStep ==
  ASSUME IInv, \/ \E s \in Shares : Enqueue(s)
               \/ \E p \in Servers : Kick(p) \/ Boot(p)
               \/ \E q \in Plots : Remove(q)
  PROVE  IInv'
<1>1. ASSUME NEW s \in Shares, Enqueue(s) PROVE IInv'
  <2>1. TypeOK'
    BY <1>1 DEF Enqueue, SetRow, faults, IInv, TypeOK, At
  <2>2. UNCHANGED <<lock, run, server, drive>> /\ \A t \in Shares : row'[t] = "running" => row[t] = "running"
    BY <1>1 DEF Enqueue, SetRow, IInv, TypeOK
  <2>3. Pursued'
    BY <2>2 DEF IInv, Pursued, Pursues
  <2>4. QED
    BY <2>1, <2>2, <2>3, RunsStay
<1>2. ASSUME NEW p \in Servers, Kick(p) PROVE IInv'
  <2>1. Running(p) \in Nat /\ Running(p) < Cap /\ Cap \in Nat
    BY <1>2, BusyFacts, SlotsAssumption DEF Kick
  <2>2. Allowance(p) \in 0..Cap /\ Running(p) + Allowance(p) <= Cap
    BY <2>1 DEF Allowance
  <2>3. /\ UNCHANGED <<row, lock, drive, run, faults>>
        /\ server' = [server EXCEPT ![p].sweeping = TRUE, ![p].limit = Allowance(p)]
    BY <1>2 DEF Kick
  <2>4. TypeOK'
    BY <2>2, <2>3 DEF faults, IInv, TypeOK, At
  <2>5. \A q \in Servers : /\ server'[q].state = server[q].state
                           /\ server'[q].limit = server[q].limit \/ Running(q) + server'[q].limit <= Cap
    BY <2>2, <2>3 DEF IInv, TypeOK
  <2>6. Pursued'
    BY <2>3, <2>5 DEF IInv, Pursued, Pursues
  <2>7. QED
    BY <2>3, <2>4, <2>5, <2>6, RunsStay
<1>3. ASSUME NEW p \in Servers, Start(p) PROVE IInv'
  <2>1. /\ UNCHANGED <<row, lock, drive, run, faults>>
        /\ server' = [server EXCEPT ![p].state = "booting"]
    BY <1>3 DEF Start
  <2>2. TypeOK'
    BY <2>1 DEF faults, IInv, TypeOK, At
  <2>3. \A q \in Servers : /\ server[q].state # "up" => server'[q].state # "up"
                           /\ server'[q].limit = server[q].limit
    BY <2>1 DEF IInv, TypeOK
  <2>4. Pursued'
    BY <2>1, <2>3 DEF IInv, Pursued, Pursues
  <2>5. QED
    BY <2>1, <2>2, <2>3, <2>4, RunsStay
<1>4. ASSUME NEW p \in Servers, Requeue(p) PROVE IInv'
  <2>1. /\ UNCHANGED <<lock, drive, run, faults>>
        /\ server' = [server EXCEPT ![p].state = "up"]
        /\ row' = [s \in Shares |-> IF row[s] = "running" THEN "queued" ELSE row[s]]
    BY <1>4 DEF Requeue
  <2>2. TypeOK'
    BY <2>1 DEF faults, IInv, TypeOK, At
  <2>3. \A q \in Servers : server'[q].limit = server[q].limit
    BY <2>1 DEF IInv, TypeOK
  <2>4. Pursued'
    BY <2>1 DEF Pursued
  <2>5. QED
    BY <2>1, <2>2, <2>3, <2>4, RunsStay
<1>5. ASSUME NEW q \in Plots, Remove(q) PROVE IInv'
  <2>1. TypeOK'
    BY <1>5 DEF Remove, IInv, TypeOK, At
  <2>2. UNCHANGED <<row, lock, run, server>> /\ \A r \in Plots : drive'[r] \in {drive[r], 0}
    BY <1>5 DEF Remove, IInv, TypeOK
  <2>3. Pursued'
    BY <2>2 DEF IInv, Pursued, Pursues
  <2>4. QED
    BY <2>1, <2>2, <2>3, RunsStay
<1>6. QED
  BY <1>1, <1>2, <1>3, <1>4, <1>5 DEF Boot

LEMMA CrashStep ==
  ASSUME IInv, NEW p \in Servers, Crash(p) PROVE IInv'
<1>1. /\ server' = [server EXCEPT ![p] = Down]
      /\ run' = [run EXCEPT ![p] = [i \in Slots |-> Free]]
      /\ lock' = [q \in Plots |-> IF \E i \in Slots : lock[q] = <<p, i>> THEN Nothing ELSE lock[q]]
      /\ UNCHANGED <<row, drive, losses, removals>> /\ outages' \in Nat
  BY DEF Crash, IInv, TypeOK
<1>2. \A q \in Servers, j \in Slots : run'[q][j] = IF q = p THEN Free ELSE run[q][j]
  BY <1>1 DEF IInv, TypeOK
<1>3. Free \in RunRecord /\ Free.share = Nothing /\ Free.stage = "free"
  BY DEF Free, RunRecord
<1>4. run' \in [Servers -> [Slots -> RunRecord]]
  BY <1>1, <1>3 DEF IInv, TypeOK
<1>5. \A q \in Servers : server'[q] = IF q = p THEN Down ELSE server[q]
  BY <1>1 DEF IInv, TypeOK
<1>6. TypeOK'
  <2>1. ASSUME NEW q \in Servers, NEW j \in Slots
        PROVE  run'[q][j].share = Nothing <=> At(q, j, "free")'
    <3>1. run[q][j].share = Nothing <=> run[q][j].stage = "free"
      BY DEF IInv, TypeOK, At
    <3>2. run'[q][j] = Free \/ run'[q][j] = run[q][j]
      BY <1>2
    <3>3. QED
      BY <1>3, <3>1, <3>2 DEF At
  <2>2. server' \in [Servers -> [state : {"down", "booting", "up"}, sweeping : BOOLEAN, limit : 0..Cap]]
    BY <1>1, SlotsAssumption DEF IInv, TypeOK, Down
  <2>3. QED
    BY <1>1, <1>4, <2>1, <2>2 DEF IInv, TypeOK
<1>7. \A q \in Servers, j \in Slots : q # p =>
        /\ PlotOf(q, j)' = PlotOf(q, j) /\ \A stage : At(q, j, stage)' <=> At(q, j, stage)
  BY <1>2 DEF PlotOf, At
<1>8. HoldsLock'
  <2> SUFFICES ASSUME NEW q \in Servers, NEW j \in Slots, run'[q][j].stage \in Uploading
               PROVE  lock'[PlotOf(q, j)'] = <<q, j>>
    BY DEF HoldsLock
  <2>1. q # p /\ run'[q][j] = run[q][j]
    BY <1>2, <1>3 DEF Uploading
  <2>2. lock[PlotOf(q, j)] = <<q, j>> /\ PlotOf(q, j) \in Plots
    BY <2>1, RunFields DEF IInv, HoldsLock, Uploading, At
  <2>3. QED
    BY <1>1, <1>7, <2>1, <2>2
<1>9. KnowsAbsent'
  BY <1>1, <1>2, <1>3, <1>7 DEF IInv, KnowsAbsent, At
<1>10. WithinCap'
  <2> SUFFICES ASSUME NEW q \in Servers PROVE Running(q)' + server'[q].limit <= Cap
    BY DEF WithinCap
  <2>1. CASE q = p
    <3>1. {j \in Slots : run'[q][j].stage # "free"} = {}
      BY <1>2, <1>3, <2>1
    <3>2. Running(q)' = 0
      BY <3>1, FS_EmptySet DEF Running
    <3>3. QED
      BY <1>5, <2>1, <3>2, SlotsAssumption DEF Down
  <2>2. CASE q # p
    <3>1. Running(q)' = Running(q)
      <4>1. {j \in Slots : run'[q][j].stage # "free"} = {j \in Slots : run[q][j].stage # "free"}
        BY <1>2, <2>2
      <4>2. QED
        BY <4>1 DEF Running
    <3>2. QED
      BY <1>5, <2>2, <3>1 DEF IInv, WithinCap
  <2>3. QED
    BY <2>1, <2>2
<1>11. Pursued'
  BY <1>5 DEF Pursued, Down
<1>12. NoDuplicateFiles'
  BY <1>1 DEF IInv, NoDuplicateFiles
<1>13. QED
  BY <1>6, <1>8, <1>9, <1>10, <1>11, <1>12 DEF IInv

LEMMA ClaimStep ==
  ASSUME IInv, NEW p \in Servers, Claim(p) PROVE IInv'
<1>0. PICK S \in Batches(server[p].limit) :
        /\ row' = [s \in Shares |-> IF s \in S THEN "running" ELSE row[s]]
        /\ \E f \in [Slots -> S \cup {Nothing}] :
             /\ \A i \in Slots : f[i] # Nothing => At(p, i, "free")
             /\ \A s \in S : \E i \in Slots : f[i] = s
             /\ \A i, j \in Slots : f[i] = f[j] /\ f[i] # Nothing => i = j
             /\ run' = [run EXCEPT ![p] = [i \in Slots |->
                          IF f[i] = Nothing THEN @[i]
                          ELSE [Free EXCEPT !.stage = "locking", !.share = f[i]]]]
  BY DEF Claim
<1>1. PICK f \in [Slots -> S \cup {Nothing}] :
        /\ row' = [s \in Shares |-> IF s \in S THEN "running" ELSE row[s]]
        /\ \A i \in Slots : f[i] # Nothing => At(p, i, "free")
        /\ \A s \in S : \E i \in Slots : f[i] = s
        /\ \A i, j \in Slots : f[i] = f[j] /\ f[i] # Nothing => i = j
        /\ run' = [run EXCEPT ![p] = [i \in Slots |->
                     IF f[i] = Nothing THEN @[i]
                     ELSE [Free EXCEPT !.stage = "locking", !.share = f[i]]]]
  BY <1>0
<1> DEFINE New(s) == [Free EXCEPT !.stage = "locking", !.share = s]
<1>2. S \subseteq Shares /\ IsFiniteSet(S) /\ Cardinality(S) <= server[p].limit /\ Nothing \notin S
  BY SharesAssumption, NothingAssumption, FS_Subset DEF Batches
<1>3. \A s \in S : New(s) \in RunRecord /\ New(s).stage = "locking" /\ New(s).share = s
  BY <1>2 DEF Free, RunRecord
<1>4. \A q \in Servers, j \in Slots :
        run'[q][j] = IF q = p /\ f[j] # Nothing THEN New(f[j]) ELSE run[q][j]
  BY <1>1 DEF IInv, TypeOK
<1>5. \A j \in Slots : f[j] = Nothing \/ f[j] \in S
  OBVIOUS
<1> HIDE DEF New
<1>6. \A q \in Servers, j \in Slots :
        /\ run'[q][j] \in RunRecord
        /\ (run'[q][j].share = Nothing) <=> (run'[q][j].stage = "free")
        /\ run'[q][j] = run[q][j] \/ (q = p /\ run'[q][j].stage = "locking" /\ run[q][j].stage = "free")
  <2> SUFFICES ASSUME NEW q \in Servers, NEW j \in Slots
      PROVE  /\ run'[q][j] \in RunRecord
             /\ (run'[q][j].share = Nothing) <=> (run'[q][j].stage = "free")
             /\ run'[q][j] = run[q][j]
                \/ (q = p /\ run'[q][j].stage = "locking" /\ run[q][j].stage = "free")
    OBVIOUS
  <2>1. run[q][j] \in RunRecord /\ ((run[q][j].share = Nothing) <=> (run[q][j].stage = "free"))
    BY DEF IInv, TypeOK, At
  <2>2. CASE q = p /\ f[j] # Nothing
    <3>1. run'[q][j] = New(f[j]) /\ f[j] \in S /\ f[j] # Nothing
      BY <1>4, <1>5, <2>2
    <3>2. run[q][j].stage = "free"
      BY <1>1, <2>2 DEF At
    <3>3. QED
      BY <1>3, <2>2, <3>1, <3>2
  <2>3. CASE ~(q = p /\ f[j] # Nothing)
    BY <1>4, <2>1, <2>3
  <2>4. QED
    BY <2>2, <2>3
<1>7. run' \in [Servers -> [Slots -> RunRecord]]
  <2>1. \A q \in Servers : run'[q] \in [Slots -> RunRecord]
    <3> SUFFICES ASSUME NEW q \in Servers PROVE run'[q] \in [Slots -> RunRecord]
      OBVIOUS
    <3>1. \E F : run'[q] = [i \in Slots |-> F[i]]
      <4>1. CASE q = p
        <5> DEFINE F == [i \in Slots |-> IF f[i] = Nothing THEN run[p][i]
                                         ELSE [Free EXCEPT !.stage = "locking", !.share = f[i]]]
        <5>1. run'[q] = F
          BY <1>1, <4>1 DEF IInv, TypeOK
        <5>2. F = [i \in Slots |-> F[i]]
          OBVIOUS
        <5>3. QED
          BY <5>1, <5>2
      <4>2. CASE q # p
        <5>1. run'[q] = run[q] /\ run[q] \in [Slots -> RunRecord]
          BY <1>1, <4>2 DEF IInv, TypeOK
        <5>2. run[q] = [i \in Slots |-> run[q][i]]
          BY <5>1
        <5>3. QED
          BY <5>1, <5>2
      <4>3. QED
        BY <4>1, <4>2
    <3>2. QED
      BY <1>6, <3>1
  <2>2. run' = [q \in Servers |-> run'[q]]
    BY <1>1 DEF IInv, TypeOK
  <2>3. QED
    BY <2>1, <2>2
<1>8. /\ server' = [server EXCEPT ![p].sweeping = FALSE, ![p].limit = 0]
      /\ UNCHANGED <<lock, drive, outages, losses, removals>>
  BY DEF Claim, faults
<1>9. row' \in [Shares -> {"absent", "queued", "running", "completed", "failed"}]
  BY <1>1 DEF IInv, TypeOK
<1>10. TypeOK'
  <2>1. \A q \in Servers, j \in Slots : run'[q][j].share = Nothing <=> At(q, j, "free")'
    BY <1>6 DEF At
  <2>2. server' \in [Servers -> [state : {"down", "booting", "up"}, sweeping : BOOLEAN, limit : 0..Cap]]
    <3> DEFINE R == [state : {"down", "booting", "up"}, sweeping : BOOLEAN, limit : 0..Cap]
    <3>1. 0 \in 0..Cap /\ server \in [Servers -> R]
      BY SlotsAssumption DEF IInv, TypeOK
    <3>2. [server[p] EXCEPT !.sweeping = FALSE, !.limit = 0] \in R
      BY <3>1
    <3>3. server' = [server EXCEPT ![p] = [server[p] EXCEPT !.sweeping = FALSE, !.limit = 0]]
      BY <1>8, <3>1
    <3> HIDE DEF R
    <3>4. QED
      BY <3>1, <3>2, <3>3 DEF R
  <2>3. QED
    BY <1>7, <1>8, <1>9, <2>1, <2>2 DEF IInv, TypeOK
<1>11. \A q \in Servers, j \in Slots :
         run'[q][j].stage \in Uploading =>
           run'[q][j] = run[q][j] /\ PlotOf(q, j)' = PlotOf(q, j)
  BY <1>6 DEF Uploading, PlotOf
<1>12. HoldsLock'
  BY <1>8, <1>11 DEF IInv, HoldsLock
<1>13. KnowsAbsent'
  BY <1>8, <1>11 DEF IInv, KnowsAbsent, At, Uploading
<1>14. Pursued'
  <2> SUFFICES ASSUME NEW s \in Shares, row'[s] = "running", \A q \in Servers : server'[q].state = "up"
               PROVE  \E q \in Servers, j \in Slots : Pursues(q, j, s)'
    BY DEF Pursued
  <2>1. \A q \in Servers : server[q].state = "up"
    <3>1. \A q \in Servers : server'[q].state = server[q].state
      BY <1>8 DEF IInv, TypeOK
    <3>2. QED
      BY <3>1
  <2>2. CASE s \in S
    <3>1. PICK j \in Slots : f[j] = s
      BY <1>1, <2>2
    <3>2. run'[p][j] = New(s)
      BY <1>2, <1>4, <2>2, <3>1
    <3>3. QED
      BY <1>3, <2>2, <3>2 DEF Pursues
  <2>3. CASE s \notin S
    <3>1. row[s] = "running"
      BY <1>1, <2>3
    <3>2. PICK q \in Servers, j \in Slots : Pursues(q, j, s)
      BY <2>1, <3>1 DEF IInv, Pursued
    <3>3. run[q][j].stage # "free"
      BY <3>2, NothingAssumption DEF IInv, TypeOK, Pursues, At
    <3>4. run'[q][j] = run[q][j]
      BY <1>6, <3>3
    <3>5. QED
      BY <3>2, <3>4 DEF Pursues
  <2>4. QED
    BY <2>2, <2>3
<1>15. WithinCap'
  <2> SUFFICES ASSUME NEW q \in Servers PROVE Running(q)' + server'[q].limit <= Cap
    BY DEF WithinCap
  <2>1. CASE q # p
    <3>1. {j \in Slots : run'[q][j].stage # "free"} = {j \in Slots : run[q][j].stage # "free"}
      BY <1>6, <2>1
    <3>2. Running(q)' = Running(q) /\ server'[q] = server[q]
      BY <1>8, <2>1, <3>1 DEF Running, IInv, TypeOK
    <3>3. QED
      BY <3>2 DEF IInv, WithinCap
  <2>2. CASE q = p
    <3> DEFINE T == {j \in Slots : f[j] # Nothing}
               g == [j \in T |-> f[j]]
    <3>1. g \in Injection(T, S)
      BY <1>1, <1>5, Fun_IsInj
    <3>2. IsFiniteSet(T) /\ Cardinality(T) <= Cardinality(S)
      BY <1>2, <3>1, FS_Injection
    <3>3. {j \in Slots : run'[p][j].stage # "free"} = Busy(p) \cup T
      BY <1>3, <1>4, <1>5 DEF Busy
    <3>4. Busy(p) \cap T = {}
      BY <1>1 DEF Busy, At
    <3> HIDE DEF T
    <3>5. Cardinality(Busy(p) \cup T) = Cardinality(Busy(p)) + Cardinality(T)
      <4>1. IsFiniteSet(Busy(p)) /\ Cardinality(Busy(p)) \in Nat /\ Cardinality(T) \in Nat
        BY <3>2, BusyFacts, FS_CardinalityType
      <4>2. Cardinality(Busy(p) \cap T) = 0
        BY <3>4, FS_EmptySet
      <4>3. Cardinality(Busy(p) \cup T) = Cardinality(Busy(p)) + Cardinality(T) - Cardinality(Busy(p) \cap T)
        BY <3>2, <4>1, FS_Union
      <4>4. QED
        BY <4>1, <4>2, <4>3
    <3>6. Running(p)' = Running(p) + Cardinality(T)
      BY <3>3, <3>5, BusyFacts DEF Running
    <3>7. /\ Running(p) + server[p].limit <= Cap /\ server[p].limit \in Nat /\ server'[p].limit = 0
          /\ Running(p) \in Nat /\ Cardinality(T) \in Nat /\ Cardinality(S) \in Nat
      BY <1>2, <1>8, <3>2, BusyFacts, FS_CardinalityType DEF IInv, WithinCap, TypeOK
    <3>8. QED
      BY <1>2, <2>2, <3>2, <3>6, <3>7, SlotsAssumption
  <2>3. QED
    BY <2>1, <2>2
<1>16. NoDuplicateFiles'
  BY <1>8 DEF IInv, NoDuplicateFiles
<1>17. QED
  BY <1>10, <1>12, <1>13, <1>14, <1>15, <1>16 DEF IInv

LEMMA NextKeepsIInv == IInv /\ [Next]_vars => IInv'
<1> SUFFICES ASSUME IInv, [Next]_vars PROVE IInv'
  OBVIOUS
<1>1. ASSUME NEW p \in Servers, NEW i \in Slots, Work(p, i) PROVE IInv'
  BY <1>1, LockStep, LockFailsStep, DeferStep, ListStep, PutStep, PutFindsNothingStep,
     RecordStep, ReleaseStep DEF Work
<1>2. ASSUME NEW p \in Servers, Claim(p) \/ Crash(p) PROVE IInv'
  BY <1>2, ClaimStep, CrashStep
<1>3. CASE \/ \E s \in Shares : Enqueue(s)
           \/ \E p \in Servers : Kick(p) \/ Boot(p)
           \/ \E q \in Plots : Remove(q)
  BY <1>3, OutsideStep
<1>4. CASE UNCHANGED vars
  BY <1>4 DEF vars, faults, IInv, TypeOK, NoDuplicateFiles, WithinCap, HoldsLock, KnowsAbsent,
     Pursued, Pursues, Running, PlotOf, At
<1>5. QED
  BY <1>1, <1>2, <1>3, <1>4 DEF Next, Serve

LEMMA Invariance == Spec => []IInv
  BY InitIInv, NextKeepsIInv, PTL DEF Spec

\* The queue, the locks and the runs have their types; a slot of the runner is
\* free exactly when it has no share.
THEOREM TypeCorrect == Spec => []TypeOK
<1>1. IInv => TypeOK
  BY DEF IInv
<1>2. QED
  BY <1>1, Invariance, PTL

\* upsertFile never leaves two files of one identity, whatever is retried,
\* requeued or claimed by two processes.
THEOREM OneFileEach == Spec => []NoDuplicateFiles
<1>1. IInv => NoDuplicateFiles
  BY DEF IInv
<1>2. QED
  BY <1>1, Invariance, PTL

\* kickShareRunner never has more runs than JOB_CONCURRENCY, nor a claim under
\* way that would.
THEOREM CapKept == Spec => []WithinCap
<1>1. IInv => WithinCap
  BY DEF IInv
<1>2. QED
  BY <1>1, Invariance, PTL

\* A row marked running has a run, or a process that will queue it again when
\* it boots.
THEOREM NothingIsForgotten == Spec => []NoneForgotten
<1>1. IInv => NoneForgotten
  BY DEF IInv, Pursued, Pursues, NoneForgotten
<1>2. QED
  BY <1>1, Invariance, PTL
=============================================================================
