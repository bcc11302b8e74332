\* One transfer of either kind, a receipt that refers to the member of staff,
\* and changing site assignments.
SPECIFICATION Spec
CONSTANTS
  Workers = {w1, w2}
  Users = {1, 2}
  Admins = {1}
  Sites = {1}
  Receipts = {r1}
  Transfers = {t1}
  Keys = {k1}
  Amounts = {1}
  Kinds = {"handover", "imprest"}
  Nobody = Nobody
  References = {{2}}
SYMMETRY WorkerSymmetry
\* See MCCashWallet: one statement on the receipt at a time.
ACTION_CONSTRAINT OneReceiptStatement
INVARIANTS
  NeverOverdrawn
  NoExplicitCycle
  BothAccepted
  RetryNeverCollides
  OutboxComplete
PROPERTIES
  AcceptedByAssigned
  CustodyImplemented
