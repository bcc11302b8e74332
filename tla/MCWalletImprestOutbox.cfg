\* Two servers, each with a drain loop and one job slot, race for one row and
\* for the one client of their pools while a participant moves.
SPECIFICATION OutboxFairSpec
CONSTANTS
  Rows = {e1}
  Participants = {u1, u2}
  Movers = {u2}
  Servers = {s1, s2}
  Slots = {b1}
  Drain = drain
  BatchSize = 1
  PoolSize = 1
  JobAttempts = 1
  Faults = 2
INVARIANTS
  AtLeastOnce
PROPERTIES
  DeliveredIsDone
  EventuallyDelivered
  PumpReturns
\* Nothing is left to do once every row is delivered.
CHECK_DEADLOCK FALSE
