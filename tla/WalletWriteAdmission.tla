------------------------ MODULE WalletWriteAdmission ------------------------
(***************************************************************************)
(* The admission gate every Cash Wallet write passes before it checks a    *)
(* client out of the shared PostgreSQL pool                                *)
(* (src/src/services/walletWriteAdmission.service.js), together with the   *)
(* transaction() wrapper of the two wallet services that holds the permit. *)
(*                                                                         *)
(* JavaScript runs each synchronous block without interruption, so an      *)
(* action is one such block: acquire(), the timer callback, the pool       *)
(* answering connect(), and the finally block of transaction().            *)
(***************************************************************************)
EXTENDS Naturals, FiniteSets, SequencesExt

CONSTANTS
  Writers,      \* wallet write requests in flight
  Requested,    \* WALLET_WRITE_CONCURRENCY after setting() clamps it to 1..3
  MaxPending,   \* WALLET_WRITE_MAX_PENDING
  PoolMax       \* database.options.max

ASSUME WritersAssumption == IsFiniteSet(Writers)
ASSUME SettingsAssumption ==
  /\ Requested \in Nat \ {0}
  /\ MaxPending \in Nat
  /\ PoolMax \in Nat \ {0}

VARIABLES
  active,    \* let active: permits handed out
  waiting,   \* const waiting: queued acquire() promises, oldest first
  pc,        \* where each request is in transaction()
  others     \* pool clients held by everything that is not a wallet write

gateVars == <<active, waiting, pc, others>>

Phases == {"idle", "queued", "permitted", "connected", "done", "failed", "busy"}

Smaller(a, b) == IF a < b THEN a ELSE b
Larger(a, b)  == IF a < b THEN b ELSE a

\* The limit admissionFor() computes: two clients stay free for other requests
\* unless the pool is so small that only one writer is admitted.
Limit == Smaller(Requested, Larger(1, IF PoolMax > 2 THEN PoolMax - 2 ELSE 0))

Holders   == {w \in Writers : pc[w] \in {"permitted", "connected"}}
Connected == {w \in Writers : pc[w] = "connected"}

GateTypeOK ==
  /\ active \in Nat
  /\ waiting \in Seq(Writers)
  /\ pc \in [Writers -> Phases]
  /\ others \in 0..PoolMax

GateInit ==
  /\ active = 0
  /\ waiting = <<>>
  /\ pc = [w \in Writers |-> "idle"]
  /\ others = 0

-----------------------------------------------------------------------------
(* acquire() *)

\* Mutant: admits one request more than the limit.
AcquireFreeOffByOne(w) ==
  /\ pc[w] = "idle" /\ active <= Limit
  /\ active' = active + 1
  /\ pc' = [pc EXCEPT ![w] = "permitted"]
  /\ UNCHANGED <<waiting, others>>

AcquireFree(w) ==
  /\ pc[w] = "idle" /\ active < Limit
  /\ active' = active + 1
  /\ pc' = [pc EXCEPT ![w] = "permitted"]
  /\ UNCHANGED <<waiting, others>>

AcquireRefused(w) ==
  /\ pc[w] = "idle" /\ active >= Limit /\ Len(waiting) >= MaxPending
  /\ pc' = [pc EXCEPT ![w] = "busy"]
  /\ UNCHANGED <<active, waiting, others>>

AcquireQueued(w) ==
  /\ pc[w] = "idle" /\ active >= Limit /\ Len(waiting) < MaxPending
  /\ waiting' = Append(waiting, w)
  /\ pc' = [pc EXCEPT ![w] = "queued"]
  /\ UNCHANGED <<active, others>>

\* The queue timer: an entry already shifted out by a release is left alone.
QueueTimeout(w) ==
  \E i \in 1..Len(waiting) :
    /\ waiting[i] = w
    /\ waiting' = RemoveAt(waiting, i)
    /\ pc' = [pc EXCEPT ![w] = "busy"]
    /\ UNCHANGED <<active, others>>

-----------------------------------------------------------------------------
(* permit(): releasing a permit hands it to the oldest waiter, whose timer  *)
(* is cleared, or lowers the count when nobody waits.                       *)

\* Mutant: the released permit is returned even though a waiter received it.
ReleaseTwice(w, outcome) ==
  /\ active' = active - 1
  /\ IF waiting = <<>>
     THEN pc' = [pc EXCEPT ![w] = outcome] /\ UNCHANGED waiting
     ELSE /\ pc' = [pc EXCEPT ![w] = outcome, ![Head(waiting)] = "permitted"]
          /\ waiting' = Tail(waiting)

\* Mutant: the permit is always returned, and nobody wakes the waiters.
ReleaseForgetful(w, outcome) ==
  /\ active' = active - 1
  /\ pc' = [pc EXCEPT ![w] = outcome]
  /\ UNCHANGED waiting

\* Mutant: the waiter is shifted out and its timer cleared, never resolved.
ReleaseUnresolved(w, outcome) ==
  /\ pc' = [pc EXCEPT ![w] = outcome]
  /\ IF waiting = <<>>
     THEN active' = active - 1 /\ UNCHANGED waiting
     ELSE waiting' = Tail(waiting) /\ UNCHANGED active

Release(w, outcome) ==
  IF waiting = <<>>
  THEN /\ active' = active - 1
       /\ pc' = [pc EXCEPT ![w] = outcome]
       /\ UNCHANGED waiting
  ELSE /\ pc' = [pc EXCEPT ![w] = outcome, ![Head(waiting)] = "permitted"]
       /\ waiting' = Tail(waiting)
       /\ UNCHANGED active

-----------------------------------------------------------------------------
(* transaction(): connect after admission, one permit and one client, both  *)
(* given back in the same finally block whatever the transaction did.       *)

Connect(w) ==
  /\ pc[w] = "permitted"
  /\ Cardinality(Connected) + others < PoolMax
  /\ pc' = [pc EXCEPT ![w] = "connected"]
  /\ UNCHANGED <<active, waiting, others>>

\* database.connect() rejects: connection timeout, full pool queue, outage.
ConnectFailed(w) ==
  /\ pc[w] = "permitted"
  /\ Release(w, "failed")
  /\ UNCHANGED others

\* COMMIT answered, or any error followed by ROLLBACK.
Finish(w, outcome) ==
  /\ pc[w] = "connected"
  /\ Release(w, outcome)
  /\ UNCHANGED others

\* The client retries with the same request key, or makes its next request.
Again(w) ==
  /\ pc[w] \in {"done", "failed", "busy"}
  /\ pc' = [pc EXCEPT ![w] = "idle"]
  /\ UNCHANGED <<active, waiting, others>>

\* Logins, reports and every other route use the same pool without a permit.
OtherConnects ==
  /\ Cardinality(Connected) + others < PoolMax
  /\ others' = others + 1
  /\ UNCHANGED <<active, waiting, pc>>

OtherReleases ==
  /\ others > 0
  /\ others' = others - 1
  /\ UNCHANGED <<active, waiting, pc>>

-----------------------------------------------------------------------------
WriterNext(w) ==
  \/ AcquireFree(w) \/ AcquireRefused(w) \/ AcquireQueued(w)
  \/ QueueTimeout(w)
  \/ Connect(w) \/ ConnectFailed(w)
  \/ \E outcome \in {"done", "failed"} : Finish(w, outcome)
  \/ Again(w)

GateNext == OtherConnects \/ OtherReleases \/ \E w \in Writers : WriterNext(w)

GateSpec == GateInit /\ [][GateNext]_gateVars

(* The queue timer and the pool's connection timer fire, and                *)
(* statement_timeout ends every transaction; whether a request arrives, or  *)
(* a queued one is granted before its timer, is nobody's duty.              *)
Fairness ==
  \A w \in Writers :
    /\ WF_gateVars(QueueTimeout(w))
    /\ WF_gateVars(Connect(w) \/ ConnectFailed(w))
    /\ WF_gateVars(\E outcome \in {"done", "failed"} : Finish(w, outcome))

GateFairSpec == GateSpec /\ Fairness

-----------------------------------------------------------------------------
(* The counter is exactly the number of requests that hold a permit: no     *)
(* path through acquire, timeout, connect failure and release loses or      *)
(* mints one.                                                               *)
PermitConservation == active = Cardinality(Holders)

(* The waiting array holds each queued request once and nobody else: a      *)
(* timer that fired and a release never both answer the same request.       *)
QueueIsQueued ==
  /\ \A w \in Writers :
       pc[w] = "queued" <=> \E i \in 1..Len(waiting) : waiting[i] = w
  /\ \A i, j \in 1..Len(waiting) : waiting[i] = waiting[j] => i = j

(* A permit is never idle while a request waits (NoIdlePermit), and neither *)
(* configured bound is exceeded.                                            *)
NoIdlePermit == waiting # <<>> => active = Limit
WithinBounds == active <= Limit /\ Len(waiting) <= MaxPending

(* The accounting of the gate, which acquire, the queue timer, a failed      *)
(* connection and every release must keep together.                         *)
GateSafe ==
  GateTypeOK /\ PermitConservation /\ QueueIsQueued /\ NoIdlePermit /\ WithinBounds

(* "leaving capacity for login and other APIs": wallet writers alone never  *)
(* hold the last two clients of a pool of three or more.                    *)
PoolHeadroom == PoolMax > 2 => Cardinality(Connected) <= PoolMax - 2

(* A newcomer never takes a permit past a queued request.                   *)
NoOvertaking ==
  [][\A w \in Writers :
       pc[w] = "idle" /\ pc'[w] = "permitted" => waiting = <<>>]_gateVars

(* Every admitted or queued write is eventually answered: with its result,  *)
(* an error, or the 503 "Cash Wallet is busy".                              *)
EveryWriteAnswered ==
  \A w \in Writers :
    pc[w] \in {"queued", "permitted", "connected"}
      ~> pc[w] \in {"done", "failed", "busy"}
=============================================================================
