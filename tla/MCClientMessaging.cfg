\* A delivery and a retired one, two workers; two faults of different kinds.  As
\* deployed, the receive the worker treats as final is the last one SQS grants.
SPECIFICATION FairSpec
CONSTANTS
  Deliveries = {d1, d2}
  Retired = {d2}
  Workers = {w1, w2}
  LastReceive = 2
  Redrive = 2
  None = None
  Outages = 1
  Crashes = 1
  Losses = 1
  Delays = 1
CONSTRAINT TwoFaults
INVARIANTS DuplicatesExplained
PROPERTIES KeepsPromise DeliveriesSettle
\* A settled campaign stops.
CHECK_DEADLOCK FALSE
