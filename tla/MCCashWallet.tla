---------------------------- MODULE MCCashWallet ----------------------------
(* TLC instances of the custody transactions.                               *)
EXTENDS CashWallet, TLC

\* Open transactions are interchangeable.
WorkerSymmetry == Permutations(Workers)

\* Two statements on receipts at once are left to the instance without transfers.
OneReceiptStatement ==
  \A w, v \in Workers : job'[w].op \in ReceiptOps /\ job'[v].op \in ReceiptOps => w = v
=============================================================================
