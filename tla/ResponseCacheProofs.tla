-------------------------- MODULE ResponseCacheProofs --------------------------
(***************************************************************************)
(* Proofs about the response cache, for any number of requests, keys and   *)
(* writes.  The generation of a read tells whether a write was             *)
(* acknowledged since the read began; that is what the inductive           *)
(* invariant says of reads and of shared reads that hold data.             *)
(***************************************************************************)
EXTENDS ResponseCache, TLAPS

\* The database is never behind a write that is acknowledged or about to be.
DataAhead ==
  \A k \in Keys : /\ acked[k] <= data[k]
                  /\ \A w \in Writers : writer[w][k] <= data[k]

\* What a read has seen is no older than the writes acknowledged when it began.
SeenSinceBegin ==
  \A r \in Readers : /\ reader[r].floor <= acked[reader[r].key]
                     /\ reader[r].seen # None => reader[r].seen >= reader[r].floor

\* A read about to store what it loaded knows of every acknowledged write,
\* unless the generation tells it otherwise.
LoadedIsCurrent ==
  \A r \in Readers :
    reader[r].stage = "loaded" =>
      /\ reader[r].seen # None
      /\ reader[r].gen = generation => reader[r].seen >= acked[reader[r].key]

FlightsAreCurrent ==
  \A f \in flights :
    f.seen # None =>
      /\ f.gen = generation => f.seen >= acked[f.key]
      /\ \A r \in Readers :
           reader[r].stage = "joined" /\ reader[r].key = f.key /\ reader[r].gen = f.gen
             => f.seen >= reader[r].floor

IInv == /\ TypeOK /\ DataAhead /\ StoredIsCurrent
        /\ SeenSinceBegin /\ LoadedIsCurrent /\ FlightsAreCurrent

LEMMA KeysSplit == /\ CachedKeys \subseteq Keys /\ LiveKeys \subseteq Keys
                   /\ SharedKeys \subseteq CachedKeys /\ PrivateKeys \subseteq CachedKeys
  BY DEF CachedKeys, Keys

LEMMA InitIInv == Init => IInv
  BY NoneAssumption, KeysSplit
  DEF Init, IInv, TypeOK, DataAhead, StoredIsCurrent, SeenSinceBegin, LoadedIsCurrent,
      FlightsAreCurrent, NoWrite, NotReading, Versions, Generations, Stages

LEMMA CommitStep ==
  ASSUME IInv, NEW w \in Writers, NEW t \in SUBSET Keys, Commit(w, t) PROVE IInv'
  BY NoneAssumption, KeysSplit
  DEF Commit, IInv, TypeOK, DataAhead, StoredIsCurrent, SeenSinceBegin, LoadedIsCurrent,
      FlightsAreCurrent, Versions, Generations

LEMMA FinishStep ==
  ASSUME IInv, NEW w \in Writers, Finish(w) PROVE IInv'
  BY NoneAssumption, KeysSplit
  DEF Finish, IInv, TypeOK, DataAhead, StoredIsCurrent, SeenSinceBegin, LoadedIsCurrent,
      FlightsAreCurrent, Versions, Generations, NextGeneration, Touched, NoWrite, Max

LEMMA UnannouncedStep ==
  ASSUME IInv, NEW w \in Writers, Unannounced(w) PROVE IInv'
  BY NoneAssumption, KeysSplit
  DEF Unannounced, IInv, TypeOK, DataAhead, StoredIsCurrent, SeenSinceBegin,
      LoadedIsCurrent, FlightsAreCurrent, Versions, Generations, NoWrite

LEMMA ExpireStep ==
  ASSUME IInv, NEW k \in CachedKeys, Expire(k) PROVE IInv'
  BY NoneAssumption, KeysSplit
  DEF Expire, IInv, TypeOK, DataAhead, StoredIsCurrent, SeenSinceBegin, LoadedIsCurrent,
      FlightsAreCurrent, Versions, Generations

LEMMA RestartStep ==
  ASSUME IInv, Restart PROVE IInv'
  BY NoneAssumption, KeysSplit
  DEF Restart, IInv, TypeOK, DataAhead, StoredIsCurrent, SeenSinceBegin, LoadedIsCurrent,
      FlightsAreCurrent, Versions, Generations, NoWrite, NotReading, Stages

LEMMA AnswerStep ==
  ASSUME IInv, NEW r \in Readers, Answer(r) PROVE IInv'
  BY NoneAssumption, KeysSplit
  DEF Answer, Fill, Become, Enter, Reading, IInv, TypeOK, DataAhead, StoredIsCurrent, SeenSinceBegin,
      LoadedIsCurrent, FlightsAreCurrent, Versions, Generations, Stages

LEMMA LoadFlightStep ==
  ASSUME IInv, NEW f \in flights, LoadFlight(f) PROVE IInv'
  BY NoneAssumption, KeysSplit
  DEF LoadFlight, Become, Enter, Reading, IInv, TypeOK, DataAhead, StoredIsCurrent, SeenSinceBegin,
      LoadedIsCurrent, FlightsAreCurrent, Versions, Generations, Stages

LEMMA BeginLiveStep ==
  ASSUME IInv, NEW r \in Readers, NEW k \in LiveKeys, BeginLive(r, k) PROVE IInv'
  BY NoneAssumption, KeysSplit
  DEF BeginLive, Join, Flights, Become, Enter, Reading, IInv, TypeOK, DataAhead, StoredIsCurrent, SeenSinceBegin,
      LoadedIsCurrent, FlightsAreCurrent, Versions, Generations, Stages

\* Records a read may hold.
ReaderRecord == [stage : Stages, key : Keys, gen : Generations, seen : Versions, floor : Nat]

\* A read that is not part of a shared read may take any record that keeps
\* what is said of a single read.
LEMMA BecomeKeeps ==
  ASSUME IInv, NEW r \in Readers, NEW n \in ReaderRecord, Become(r, n),
         UNCHANGED <<data, cache, generation, flights, writer, acked>>,
         n.stage # "joined", n.floor <= acked[n.key], n.seen # None => n.seen >= n.floor,
         n.stage = "loaded" => /\ n.seen # None
                               /\ n.gen = generation => n.seen >= acked[n.key]
  PROVE  IInv'
<1>1. TypeOK'
  BY DEF IInv, TypeOK, Become, ReaderRecord, Generations
<1>2. \A q \in Readers : reader'[q] = IF q = r THEN n ELSE reader[q]
  BY DEF IInv, TypeOK, Become
<1>3. DataAhead' /\ StoredIsCurrent'
  BY DEF IInv, DataAhead, StoredIsCurrent
<1>4. SeenSinceBegin'
  BY <1>2 DEF IInv, SeenSinceBegin
<1>5. LoadedIsCurrent'
  BY <1>2 DEF IInv, LoadedIsCurrent
<1>6. FlightsAreCurrent'
  BY <1>2 DEF IInv, FlightsAreCurrent
<1>7. QED
  BY <1>1, <1>3, <1>4, <1>5, <1>6 DEF IInv

\* The same for a read that only changes its stage and what it has seen.
LEMMA EnterKeeps ==
  ASSUME IInv, NEW r \in Readers, NEW stage \in Stages, NEW seen \in Versions,
         Enter(r, stage, seen),
         UNCHANGED <<data, cache, generation, flights, writer, acked>>,
         stage # "joined", seen # None => seen >= reader[r].floor,
         stage = "loaded" =>
           /\ seen # None
           /\ reader[r].gen = generation => seen >= acked[reader[r].key]
  PROVE  IInv'
<1> DEFINE n == [reader[r] EXCEPT !.stage = stage, !.seen = seen]
<1>1. reader[r] \in ReaderRecord
  BY DEF IInv, TypeOK, ReaderRecord
<1>2. /\ n \in ReaderRecord /\ n.stage = stage /\ n.seen = seen /\ n.gen = reader[r].gen
      /\ n.key = reader[r].key /\ n.floor = reader[r].floor
  BY <1>1 DEF ReaderRecord
<1>3. Become(r, n)
  BY DEF Enter
<1>4. n.floor <= acked[n.key]
  BY <1>2 DEF IInv, SeenSinceBegin
<1> HIDE DEF n
<1>5. QED
  BY <1>2, <1>3, <1>4, BecomeKeeps

LEMMA ReadStep ==
  ASSUME IInv, NEW r \in Readers
  PROVE  /\ \A k \in Keys : BeginFresh(r, k) => IInv'
         /\ \A k \in CachedKeys : Lookup(r, k) => IInv'
         /\ DecidePrivate(r) => IInv'
         /\ Authorize(r) => IInv'
         /\ Load(r) => IInv'
         /\ LoadFails(r) => IInv'
<1>1. reader[r] \in ReaderRecord
  BY DEF IInv, TypeOK, ReaderRecord
<1>2. None \in Versions /\ data[reader[r].key] \in Nat /\ acked[reader[r].key] \in Nat
  BY <1>1 DEF Versions, IInv, TypeOK, ReaderRecord
<1>3. ASSUME NEW k \in Keys, BeginFresh(r, k) PROVE IInv'
  <2> DEFINE n == Reading("loading", k, None, None)
  <2>1. /\ n \in ReaderRecord /\ n.stage = "loading" /\ n.seen = None
        /\ n.key = k /\ n.floor = acked[k] /\ acked[k] \in Nat
    BY DEF Reading, ReaderRecord, Stages, Generations, Versions, IInv, TypeOK
  <2>2. Become(r, n)
    BY <1>3 DEF BeginFresh
  <2> HIDE DEF n
  <2>3. QED
    BY <1>3, <2>1, <2>2, BecomeKeeps DEF BeginFresh
<1>4. ASSUME NEW k \in CachedKeys, Lookup(r, k) PROVE IInv'
  <2> DEFINE n == Reading("looked", k, generation, cache[k])
  <2>1. /\ n \in ReaderRecord /\ n.stage = "looked" /\ n.seen = cache[k]
        /\ n.key = k /\ n.floor = acked[k] /\ acked[k] \in Nat
    BY KeysSplit DEF Reading, ReaderRecord, Stages, Generations, IInv, TypeOK
  <2>2. Become(r, n)
    BY <1>4 DEF Lookup
  <2>3. cache[k] # None => cache[k] >= acked[k]
    BY DEF IInv, StoredIsCurrent
  <2> HIDE DEF n
  <2>4. QED
    BY <1>4, <2>1, <2>2, <2>3, BecomeKeeps DEF Lookup
<1>5. DecidePrivate(r) => IInv'
  <2>1. reader[r].seen # None => reader[r].seen >= reader[r].floor
    BY DEF IInv, SeenSinceBegin
  <2>2. QED
    BY <1>1, <1>2, <2>1, EnterKeeps DEF DecidePrivate, ReaderRecord, Stages
<1>6. Authorize(r) => IInv'
  <2>1. reader[r].seen # None => reader[r].seen >= reader[r].floor
    BY DEF IInv, SeenSinceBegin
  <2>2. QED
    BY <1>1, <1>2, <2>1, EnterKeeps DEF Authorize, ReaderRecord, Stages
<1>7. Load(r) => IInv'
  <2>1. /\ reader[r].floor <= acked[reader[r].key]
        /\ acked[reader[r].key] <= data[reader[r].key]
    BY <1>1 DEF IInv, SeenSinceBegin, DataAhead, ReaderRecord
  <2>2. data[reader[r].key] # None /\ data[reader[r].key] \in Versions
    BY <1>2, NoneAssumption DEF Versions
  <2>3. data[reader[r].key] >= reader[r].floor
    BY <1>1, <1>2, <2>1 DEF ReaderRecord
  <2>4. data[reader[r].key] >= acked[reader[r].key]
    BY <1>2, <2>1
  <2>5. QED
    BY <2>2, <2>3, <2>4, EnterKeeps DEF Load, Stages
<1>8. LoadFails(r) => IInv'
  BY <1>2, EnterKeeps DEF LoadFails, Stages
<1>9. QED
  BY <1>3, <1>4, <1>5, <1>6, <1>7, <1>8

\* A shared read ends with an error or with what it has loaded.
LEMMA LandKeeps ==
  ASSUME IInv, NEW f \in flights, NEW seen \in Versions, Land(f, seen),
         seen = None \/ seen = f.seen,
         cache' \in [CachedKeys -> Versions], StoredIsCurrent',
         UNCHANGED <<data, generation, writer, acked>>
  PROVE  IInv'
<1>1. \A r \in Readers : reader[r] \in ReaderRecord
  BY DEF IInv, TypeOK, ReaderRecord
<1>2. \A r \in Readers : [reader[r] EXCEPT !.stage = "done", !.seen = seen] \in ReaderRecord
  BY <1>1 DEF ReaderRecord, Stages
<1>3. reader' \in [Readers -> ReaderRecord]
  BY <1>1, <1>2 DEF Land
<1>4. TypeOK'
  BY <1>3 DEF IInv, TypeOK, ReaderRecord, Generations, Land
<1>5. \A r \in Readers :
        \/ reader'[r] = reader[r]
        \/ /\ r \in JoinedTo(f)
           /\ reader'[r].stage = "done" /\ reader'[r].seen = seen
           /\ reader'[r].key = reader[r].key /\ reader'[r].floor = reader[r].floor
  BY <1>1 DEF Land, Waiting, ReaderRecord
<1>6. \A r \in JoinedTo(f) : seen # None => seen >= reader[r].floor
  BY DEF JoinedTo, IInv, FlightsAreCurrent
<1>7. SeenSinceBegin'
  BY <1>5, <1>6 DEF IInv, SeenSinceBegin
<1>8. LoadedIsCurrent'
  BY <1>5 DEF IInv, LoadedIsCurrent
<1>9. FlightsAreCurrent'
  <2>1. \A r \in Readers : reader'[r].stage = "joined" => reader'[r] = reader[r]
    BY <1>5
  <2>2. flights' \subseteq flights
    BY DEF Land
  <2>3. QED
    BY <2>1, <2>2 DEF IInv, FlightsAreCurrent
<1>10. DataAhead'
  BY DEF IInv, DataAhead
<1>11. QED
  BY <1>4, <1>7, <1>8, <1>9, <1>10 DEF IInv

LEMMA EndFlightStep ==
  ASSUME IInv, NEW f \in flights PROVE EndFlight(f) \/ FlightFails(f) => IInv'
<1>1. f.seen \in Versions /\ f.key \in Keys /\ None \in Versions
  BY KeysSplit DEF IInv, TypeOK, Versions
<1>2. CASE EndFlight(f)
  <2>1. cache' \in [CachedKeys -> Versions]
    BY <1>1, <1>2 DEF EndFlight, Fill, IInv, TypeOK
  <2>2. StoredIsCurrent'
    BY <1>1, <1>2 DEF EndFlight, Fill, IInv, TypeOK, StoredIsCurrent, FlightsAreCurrent
  <2>3. QED
    BY <1>1, <1>2, <2>1, <2>2, LandKeeps DEF EndFlight
<1>3. CASE FlightFails(f)
  BY <1>1, <1>3, LandKeeps DEF FlightFails, IInv, TypeOK, StoredIsCurrent
<1>4. QED
  BY <1>2, <1>3

LEMMA DecideSharedStep ==
  ASSUME IInv, NEW r \in Readers, DecideShared(r) PROVE IInv'
<1> DEFINE k == reader[r].key
<1>1. reader[r] \in ReaderRecord /\ k \in SharedKeys /\ k \in CachedKeys
  BY KeysSplit DEF IInv, TypeOK, ReaderRecord, DecideShared
<1>2. /\ cache[k] \in Versions /\ acked[k] \in Nat /\ generation \in Nat
      /\ reader[r].floor \in Nat /\ reader[r].floor <= acked[k]
      /\ cache[k] # None => cache[k] >= acked[k]
  BY <1>1 DEF IInv, TypeOK, ReaderRecord, StoredIsCurrent, SeenSinceBegin
<1>3. CASE reader[r].gen # generation
  <2> DEFINE n == [reader[r] EXCEPT !.gen = generation, !.seen = cache[k]]
  <2> generation \in Generations
    BY <1>2 DEF Generations
  <2>1. /\ n \in ReaderRecord /\ n.stage = "looked" /\ n.seen = cache[k]
        /\ n.key = k /\ n.floor = reader[r].floor
    BY <1>1, <1>2 DEF ReaderRecord, DecideShared
  <2>2. Become(r, n) /\ UNCHANGED <<data, cache, generation, flights, writer, acked>>
    BY <1>3 DEF DecideShared
  <2>3. cache[k] # None => cache[k] >= reader[r].floor
    BY <1>2, NoneAssumption DEF Versions
  <2> HIDE DEF n, k
  <2>4. QED
    BY <1>2, <2>1, <2>2, <2>3, BecomeKeeps
<1>4. CASE reader[r].gen = generation /\ reader[r].seen # None
  <2>1. /\ reader[r].seen \in Versions /\ "done" \in Stages
        /\ reader[r].seen >= reader[r].floor
    BY <1>1, <1>4 DEF ReaderRecord, Stages, IInv, SeenSinceBegin
  <2>2. QED
    BY <1>4, <2>1, EnterKeeps DEF DecideShared
<1>5. CASE reader[r].gen = generation /\ reader[r].seen = None
  <2>1. PICK f \in IF Flights(k, generation) # {} THEN Flights(k, generation)
                   ELSE {[key |-> k, gen |-> generation, seen |-> None]} :
          /\ flights' = flights \cup {f}
          /\ Become(r, [stage |-> "joined", key |-> k, gen |-> f.gen, seen |-> None,
                        floor |-> reader[r].floor])
    BY <1>5 DEF DecideShared, Join
  <2>2. /\ f \in [key : SharedKeys, gen : 0 .. generation, seen : Versions]
        /\ f.gen = generation
        /\ f \in flights \/ f.seen = None
    BY <1>1, <1>2 DEF Flights, Versions, IInv, TypeOK
  <2> DEFINE n == [stage |-> "joined", key |-> k, gen |-> f.gen, seen |-> None,
                   floor |-> reader[r].floor]
  <2>3. n \in ReaderRecord
    BY <1>1, <1>2, <2>2 DEF ReaderRecord, Stages, Generations, Versions
  <2>4. /\ reader' \in [Readers -> ReaderRecord]
        /\ \A q \in Readers : reader'[q] = IF q = r THEN n ELSE reader[q]
    BY <2>1, <2>3 DEF Become, IInv, TypeOK, ReaderRecord
  <2>5. UNCHANGED <<data, cache, generation, writer, acked>>
    BY DEF DecideShared
  <2>6. /\ n.stage = "joined" /\ n.key = k /\ n.gen = generation /\ n.seen = None
        /\ n.floor = reader[r].floor
    BY <2>2
  <2> HIDE DEF n
  <2>7. TypeOK'
    BY <2>1, <2>2, <2>4, <2>5 DEF IInv, TypeOK, ReaderRecord, Generations
  <2>8. DataAhead' /\ StoredIsCurrent'
    BY <2>5 DEF IInv, DataAhead, StoredIsCurrent
  <2>9. SeenSinceBegin' /\ LoadedIsCurrent'
    BY <1>2, <2>4, <2>5, <2>6 DEF IInv, SeenSinceBegin, LoadedIsCurrent
  <2>10. ASSUME NEW g \in flights', g.seen # None
         PROVE  /\ g.gen = generation => g.seen >= acked[g.key]
                /\ \A q \in Readers :
                     /\ reader'[q].stage = "joined" /\ reader'[q].key = g.key
                     /\ reader'[q].gen = g.gen
                     => g.seen >= reader'[q].floor
    <3>1. g \in flights /\ g.seen \in Nat
      BY <2>1, <2>2, <2>10 DEF IInv, TypeOK, Versions
    <3>2. /\ g.gen = generation => g.seen >= acked[g.key]
          /\ \A q \in Readers :
               reader[q].stage = "joined" /\ reader[q].key = g.key /\ reader[q].gen = g.gen
                 => g.seen >= reader[q].floor
      BY <2>10, <3>1 DEF IInv, FlightsAreCurrent
    <3>3. g.key = k /\ g.gen = generation => g.seen >= reader[r].floor
      BY <1>2, <3>1, <3>2
    <3>4. QED
      BY <2>4, <2>6, <3>2, <3>3
  <2>11. FlightsAreCurrent'
    BY <2>5, <2>10 DEF FlightsAreCurrent
  <2>12. QED
    BY <2>7, <2>8, <2>9, <2>11 DEF IInv
<1>6. QED
  BY <1>3, <1>4, <1>5

LEMMA NextKeepsIInv == IInv /\ [Next]_vars => IInv'
<1> SUFFICES ASSUME IInv, [Next]_vars PROVE IInv'
  OBVIOUS
<1>1. CASE \E w \in Writers : \/ \E t \in (SUBSET Keys) \ {{}} : Commit(w, t)
                              \/ Finish(w) \/ Unannounced(w)
  BY <1>1, CommitStep, FinishStep, UnannouncedStep
<1>2. CASE \E k \in CachedKeys : Expire(k)
  BY <1>2, ExpireStep
<1>3. CASE \E r \in Readers : \/ \E k \in Keys \ SharedKeys : BeginFresh(r, k)
                              \/ \E k \in LiveKeys : BeginLive(r, k)
                              \/ \E k \in CachedKeys : Lookup(r, k)
                              \/ Proceed(r)
  BY <1>3, ReadStep, BeginLiveStep, DecideSharedStep, AnswerStep DEF Proceed
<1>4. CASE \E f \in flights : Progress(f)
  BY <1>4, LoadFlightStep, EndFlightStep DEF Progress
<1>5. CASE Restart
  BY <1>5, RestartStep
<1>6. CASE UNCHANGED vars
  BY <1>6 DEF vars, IInv, TypeOK, DataAhead, StoredIsCurrent, SeenSinceBegin,
     LoadedIsCurrent, FlightsAreCurrent, Generations
<1>7. QED
  BY <1>1, <1>2, <1>3, <1>4, <1>5, <1>6 DEF Next

LEMMA Invariance == Spec => []IInv
  BY InitIInv, NextKeepsIInv, PTL DEF Spec

\* The variables of the cache have their types; no read or shared read carries
\* a generation that is still to come.
THEOREM TypeCorrect == Spec => []TypeOK
<1>1. IInv => TypeOK
  BY DEF IInv
<1>2. QED
  BY <1>1, Invariance, PTL

\* cacheResponse and readDashboardCache never leave an answer in the cache that
\* is older than an acknowledged write.
THEOREM CacheStaysCurrent == Spec => []StoredIsCurrent
<1>1. IInv => StoredIsCurrent
  BY DEF IInv
<1>2. QED
  BY <1>1, Invariance, PTL

\* A read that begins after a write was acknowledged by this process answers
\* with that write's data or newer, on every path through cache and shared work.
THEOREM ReadsSeeAcknowledgedWrites == Spec => []ReadYourWrites
<1>1. IInv => ReadYourWrites
  BY DEF IInv, SeenSinceBegin, ReadYourWrites
<1>2. QED
  BY <1>1, Invariance, PTL
=============================================================================
