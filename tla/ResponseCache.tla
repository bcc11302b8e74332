----------------------------- MODULE ResponseCache -----------------------------
(***************************************************************************)
(* The response cache of one API process (config/cache.js,                 *)
(* cache.middleware.js) and the reads that share unfinished work           *)
(* (dashboardCache.js, requestHistoryQuery.js, balanceSheet.controller.js).*)
(* A write commits first and invalidates when its response has gone out; a *)
(* read that overlaps it must neither answer nor refill the cache with     *)
(* what it saw before.  What is stored is the version of the data read.    *)
(***************************************************************************)
EXTENDS Naturals, FiniteSets

CONSTANTS
  Readers,      \* requests that read
  Writers,      \* requests that write
  PrivateKeys,  \* responses cached by cacheResponse
  SharedKeys,   \* reports cached by readDashboardCache
  LiveKeys,     \* reads that only share unfinished work
  None,         \* nothing cached, not read yet, or an error
  MaxWrites     \* bound: writes of one key

CachedKeys == PrivateKeys \cup SharedKeys
Keys == CachedKeys \cup LiveKeys

ASSUME NoneAssumption == None \notin Nat
ASSUME KeysAssumption == /\ PrivateKeys \cap SharedKeys = {}
                         /\ CachedKeys \cap LiveKeys = {}
ASSUME WritesAssumption == MaxWrites \in Nat

VARIABLES
  data,        \* the version of what each key reads in the database
  cache,       \* the version stored for each key, or None
  generation,  \* cacheGeneration
  flights,     \* unfinished shared reads
  reader,      \* the reads
  writer,      \* the versions a write has committed and not acknowledged
  acked        \* history: the newest version whose write was acknowledged

vars == <<data, cache, generation, flights, reader, writer, acked>>

Versions == Nat \cup {None}
NoWrite == [k \in Keys |-> 0]
NotReading(k) == [stage |-> "done", key |-> k, gen |-> None, seen |-> None, floor |-> 0]
Reading(stage, k, gen, seen) ==
  [stage |-> stage, key |-> k, gen |-> gen, seen |-> seen, floor |-> acked[k]]
Become(r, next) == reader' = [reader EXCEPT ![r] = next]
Enter(r, stage, seen) == Become(r, [reader[r] EXCEPT !.stage = stage, !.seen = seen])

Max(a, b) == IF a >= b THEN a ELSE b

-----------------------------------------------------------------------------
(* Writes.                                                                  *)

\* A request changes what the keys in t read, and commits.
Commit(w, t) ==
  /\ writer[w] = NoWrite
  /\ \A k \in t : data[k] < MaxWrites
  /\ data' = [k \in Keys |-> IF k \in t THEN data[k] + 1 ELSE data[k]]
  /\ writer' = [writer EXCEPT ![w] = [k \in Keys |-> IF k \in t THEN data[k] + 1 ELSE 0]]
  /\ UNCHANGED <<cache, generation, flights, reader, acked>>

NextGeneration == generation + 1

Touched(w) == {k \in Keys : writer[w][k] # 0}

\* The response's finish event: the prefixes of the route cover what it changed.
Finish(w) ==
  /\ writer[w] # NoWrite
  /\ generation' = NextGeneration
  /\ cache' = [k \in CachedKeys |-> IF k \in Touched(w) THEN None ELSE cache[k]]
  /\ acked' = [k \in Keys |-> Max(acked[k], writer[w][k])]
  /\ writer' = [writer EXCEPT ![w] = NoWrite]
  /\ UNCHANGED <<data, flights, reader>>

\* The client left, an error followed the commit, or another process wrote.
Unannounced(w) ==
  /\ writer[w] # NoWrite
  /\ writer' = [writer EXCEPT ![w] = NoWrite]
  /\ UNCHANGED <<data, cache, generation, flights, reader, acked>>

\* Mutant: a TTL of zero keeps entries for ever.
ExpireNever(k) == FALSE /\ UNCHANGED vars

\* The TTL of an entry ends.
Expire(k) ==
  /\ cache[k] # None
  /\ cache' = [cache EXCEPT ![k] = None]
  /\ UNCHANGED <<data, generation, flights, reader, writer, acked>>

-----------------------------------------------------------------------------
(* Reads.                                                                   *)

\* Mutant: a read joins any unfinished read of its key.
FlightsFor(k, gen) == {f \in flights : f.key = k}

Flights(k, gen) == {f \in flights : f.key = k /\ f.gen = gen}

\* Join the unfinished read of the same key and generation, or start it.
Join(r, k, gen, floor) ==
  /\ \E f \in IF Flights(k, gen) # {} THEN Flights(k, gen)
              ELSE {[key |-> k, gen |-> gen, seen |-> None]} :
       /\ flights' = flights \cup {f}
       /\ Become(r, [stage |-> "joined", key |-> k, gen |-> f.gen, seen |-> None,
                     floor |-> floor])

\* nocache: neither the cache nor another read's work is used.
BeginFresh(r, k) ==
  /\ reader[r].stage = "done"
  /\ Become(r, Reading("loading", k, None, None))
  /\ UNCHANGED <<data, cache, generation, flights, writer, acked>>

\* runHistoryQuery, getReportSingleFlight
BeginLive(r, k) ==
  /\ reader[r].stage = "done"
  /\ Join(r, k, generation, acked[k])
  /\ UNCHANGED <<data, cache, generation, writer, acked>>

\* The generation is noted and the cache asked.
Lookup(r, k) ==
  /\ reader[r].stage = "done"
  /\ Become(r, Reading("looked", k, generation, cache[k]))
  /\ UNCHANGED <<data, cache, generation, flights, writer, acked>>

\* cacheResponse goes on with what it found.
DecidePrivate(r) ==
  /\ reader[r].stage = "looked" /\ reader[r].key \in PrivateKeys
  /\ IF reader[r].seen # None /\ reader[r].gen = generation
     THEN Enter(r, "authorizing", reader[r].seen)
     ELSE Enter(r, "loading", None)
  /\ UNCHANGED <<data, cache, generation, flights, writer, acked>>

\* readDashboardCache asks again when it was overtaken.
DecideShared(r) ==
  /\ reader[r].stage = "looked" /\ reader[r].key \in SharedKeys
  /\ LET k == reader[r].key IN
     CASE reader[r].gen # generation ->
            /\ Become(r, [reader[r] EXCEPT !.gen = generation, !.seen = cache[k]])
            /\ UNCHANGED flights
       [] reader[r].gen = generation /\ reader[r].seen # None ->
            Enter(r, "done", reader[r].seen) /\ UNCHANGED flights
       [] reader[r].gen = generation /\ reader[r].seen = None ->
            Join(r, k, generation, reader[r].floor)
  /\ UNCHANGED <<data, cache, generation, writer, acked>>

\* authorizeHit is asked before the hit is answered.
Authorize(r) ==
  /\ reader[r].stage = "authorizing"
  /\ \/ Enter(r, "done", reader[r].seen)
     \/ Enter(r, "done", None)
  /\ UNCHANGED <<data, cache, generation, flights, writer, acked>>

\* Mutant: whatever was read is stored.
FillAlways(k, gen, seen) == [cache EXCEPT ![k] = IF gen = None THEN @ ELSE seen]

\* cacheSet, unless the generation has moved on since the read began.
Fill(k, gen, seen) == [cache EXCEPT ![k] = IF gen = generation THEN seen ELSE @]

Load(r) ==
  /\ reader[r].stage = "loading"
  /\ Enter(r, "loaded", data[reader[r].key])
  /\ UNCHANGED <<data, cache, generation, flights, writer, acked>>

LoadFails(r) ==
  /\ reader[r].stage = "loading"
  /\ Enter(r, "done", None)
  /\ UNCHANGED <<data, cache, generation, flights, writer, acked>>

Answer(r) ==
  /\ reader[r].stage = "loaded"
  /\ Enter(r, "done", reader[r].seen)
  /\ cache' = IF reader[r].key \in CachedKeys
              THEN Fill(reader[r].key, reader[r].gen, reader[r].seen) ELSE cache
  /\ UNCHANGED <<data, generation, flights, writer, acked>>

LoadFlight(f) ==
  /\ f.seen = None
  /\ flights' = (flights \ {f}) \cup {[f EXCEPT !.seen = data[f.key]]}
  /\ UNCHANGED <<data, cache, generation, reader, writer, acked>>

JoinedTo(f) ==
  {r \in Readers : /\ reader[r].stage = "joined"
                   /\ reader[r].key = f.key /\ reader[r].gen = f.gen}

Waiting(f, seen) == JoinedTo(f)

\* The shared read ends, every reader that joined it is answered.
Land(f, seen) ==
  /\ flights' = flights \ {f}
  /\ reader' = [r \in Readers |->
                  IF r \in Waiting(f, seen)
                  THEN [reader[r] EXCEPT !.stage = "done", !.seen = seen] ELSE reader[r]]

EndFlight(f) ==
  /\ f.seen # None
  /\ Land(f, f.seen)
  /\ cache' = IF f.key \in SharedKeys THEN Fill(f.key, f.gen, f.seen) ELSE cache
  /\ UNCHANGED <<data, generation, writer, acked>>

FlightFails(f) ==
  /\ f.seen = None
  /\ Land(f, None)
  /\ UNCHANGED <<data, cache, generation, writer, acked>>

\* The process ends and starts again with an empty cache.
Restart ==
  /\ cache' = [k \in CachedKeys |-> None]
  /\ generation' = 0
  /\ flights' = {}
  /\ reader' = [r \in Readers |-> NotReading(reader[r].key)]
  /\ writer' = [w \in Writers |-> NoWrite]
  /\ UNCHANGED <<data, acked>>

-----------------------------------------------------------------------------
Init ==
  /\ data = NoWrite /\ acked = NoWrite
  /\ cache = [k \in CachedKeys |-> None]
  /\ generation = 0
  /\ flights = {}
  /\ reader \in [Readers -> {NotReading(k) : k \in Keys}]
  /\ writer = [w \in Writers |-> NoWrite]

Proceed(r) ==
  DecidePrivate(r) \/ DecideShared(r) \/ Authorize(r) \/ Load(r) \/ LoadFails(r) \/ Answer(r)

Progress(f) == LoadFlight(f) \/ EndFlight(f) \/ FlightFails(f)

Next ==
  \/ \E w \in Writers : \/ \E t \in (SUBSET Keys) \ {{}} : Commit(w, t)
                        \/ Finish(w) \/ Unannounced(w)
  \/ \E k \in CachedKeys : Expire(k)
  \/ \E r \in Readers : \/ \E k \in Keys \ SharedKeys : BeginFresh(r, k)
                        \/ \E k \in LiveKeys : BeginLive(r, k)
                        \/ \E k \in CachedKeys : Lookup(r, k)
                        \/ Proceed(r)
  \/ \E f \in flights : Progress(f)
  \/ Restart

Spec == Init /\ [][Next]_vars

\* Requests that are under way go on, and entries expire.
Fairness ==
  /\ \A r \in Readers : WF_vars(Proceed(r))
  /\ \A r \in Readers : WF_vars(\E f \in flights : r \in JoinedTo(f) /\ Progress(f))
  /\ \A k \in CachedKeys : WF_vars(Expire(k))

FairSpec == Spec /\ Fairness

-----------------------------------------------------------------------------
(* Properties.                                                              *)

Stages == {"done", "looked", "authorizing", "loading", "loaded", "joined"}
Generations == 0 .. generation \cup {None}

\* The variables have their types; no read carries a generation of the future.
TypeOK ==
  /\ data \in [Keys -> Nat] /\ acked \in [Keys -> Nat]
  /\ cache \in [CachedKeys -> Versions]
  /\ generation \in Nat
  /\ flights \subseteq [key : SharedKeys \cup LiveKeys, gen : 0 .. generation, seen : Versions]
  /\ reader \in [Readers -> [stage : Stages, key : Keys, gen : Generations,
                             seen : Versions, floor : Nat]]
  /\ writer \in [Writers -> [Keys -> Nat]]

\* What is stored is never older than a write that was acknowledged: a read
\* that overlapped the write does not refill the cache after its invalidation.
StoredIsCurrent == \A k \in CachedKeys : cache[k] # None => cache[k] >= acked[k]

\* A read that begins after a write was acknowledged answers with that write's
\* data or newer, whether from the cache, from shared work or by itself.
ReadYourWrites ==
  \A r \in Readers :
    reader[r].stage = "done" /\ reader[r].seen # None => reader[r].seen >= reader[r].floor

\* A write that nobody announced leaves stale entries behind, but not for ever:
\* once the writes cease, what is stored is what the database holds.
StaleEntriesExpire ==
  \A k \in CachedKeys : <>[](cache[k] # None => cache[k] = data[k])

=============================================================================
