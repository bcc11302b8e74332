\* An event moves to another time and its recipients change while two reconciliations overlap;
\* no server delivers, so that only the reconciliations write the ledger.
SPECIFICATION FairSpec
CONSTANTS
  Workers = {}
  Reconcilers = {c1, c2}
  Dates = {d1, d2}
  Cancelled = cancelled
  Slots = {s1, s2, s3}
  Recipients = {p1}
  ScheduleOf <- TwoDates
  BatchSize = 1
  MaxAttempts = 1
  NoRow = none
  Moves = 1
  Edits = 0
  Faults = 1
  d1 = d1
  d2 = d2
  s1 = s1
  s2 = s2
  s3 = s3
\* Nothing is left to do once every reminder is settled and out of date.
CHECK_DEADLOCK FALSE
PROPERTIES
  EventuallyCovered
