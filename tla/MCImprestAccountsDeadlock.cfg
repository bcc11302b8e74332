\* Two requests that refer to one another's users.
SPECIFICATION Spec
CONSTANTS
  Staff = {2, 3}
  Admin = 1
  Nobody = 0
  Reviewers = {2, 3}
  Amounts = {1}
  Transactions = {t1, t2}
  Cash = 3
  Float = 1
  Requests = 2
  Removals = 0
  t1 = t1
  t2 = t2
\* Nothing is left to do once the requests are used up.
CHECK_DEADLOCK FALSE
INVARIANTS
  WithoutDeadlocks
