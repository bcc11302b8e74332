----------------------------- MODULE FiniteSums -----------------------------
(***************************************************************************)
(* SUM(...) over the rows of a table: the sum of a function over a finite  *)
(* set of its arguments.                                                   *)
(***************************************************************************)
EXTENDS Integers, Functions

SumOver(f, S) == FoldFunctionOnSet(LAMBDA amount, sum : amount + sum, 0, f, S)
=============================================================================
