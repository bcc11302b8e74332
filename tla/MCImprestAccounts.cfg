\* One admin, two members of staff, three requests, two of them at a time.
SPECIFICATION Spec
CONSTANTS
  Staff = {2, 3}
  Admin = 1
  Nobody = 0
  Reviewers = {3}
  Amounts = {1}
  Transactions = {t1, t2}
  Cash = 3
  Float = 1
  Requests = 3
  Removals = 1
  t1 = t1
  t2 = t2
\* See MCImprestAccounts: the transactions are used in turn.
ACTION_CONSTRAINT InTurn
\* Nothing is left to do once the requests are used up.
CHECK_DEADLOCK FALSE
INVARIANTS
  SiteNotOverIssued
  AccountsSound
  CheckStillHolds
  ExplicitLocksOrdered
PROPERTIES
  AcceptanceIsFinal
