\* Two servers compete for one reminder while its event is moved or closed, its
\* recipient is edited or the reminder retried by hand, and something fails once.
SPECIFICATION FairSpec
CONSTANTS
  Workers = {w1, w2}
  Reconcilers = {c1}
  Dates = {d1}
  Cancelled = cancelled
  Slots = {s1}
  Recipients = {p1}
  ScheduleOf <- OneDate
  BatchSize = 1
  MaxAttempts = 2
  NoRow = none
  Moves = 1
  Edits = 1
  Faults = 1
  d1 = d1
  d2 = d2
  s1 = s1
  s2 = s2
  s3 = s3
\* Nothing is left to do once every reminder is settled and out of date.
CHECK_DEADLOCK FALSE
INVARIANTS
  ClaimIsExclusive
  DuplicatesExplained
PROPERTIES
  SettledIsFinal
  EveryReminderSettles
