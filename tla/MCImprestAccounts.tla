--------------------------- MODULE MCImprestAccounts ---------------------------
(* TLC instance of the imprest accounts.                                    *)
EXTENDS ImprestAccounts

CONSTANTS t1, t2

Begins(t) == tx[t] = NoTransaction /\ tx'[t] # NoTransaction

\* The transactions are interchangeable: t2 is used while t1 is busy.  Every
\* paper but a refill request is assigned to somebody who may review it.
InTurn ==
  /\ Begins(t2) => tx[t1] # NoTransaction
  /\ \A t \in Transactions : Begins(t) =>
       LET p == tx'[t].job.paper IN
       p.assigned = Nobody => p.kind \in Direct \cup {"refill"} \/ p.from \in Reviewers
=============================================================================
