---------------------------- MODULE MCResponseCache ----------------------------
(* TLC instances of the response cache.                                     *)
EXTENDS ResponseCache, TLC

\* Bound: keys a behaviour writes.  Writes are not fair, so that leaving the
\* others out cuts only behaviours that have them.
OneKeyWritten == Cardinality({k \in Keys : data[k] > 0}) <= 1
=============================================================================
