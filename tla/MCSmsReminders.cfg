\* A reminder and a receipt, two runs, two workers, one failure.
SPECIFICATION FairSpec
CONSTANTS
  Keys = {"k1", "k2"}
  Due = {"k1"}
  Runs = {r1, r2}
  Workers = {w1, w2}
  BatchSize = 1
  PollSize = 2
  Faults = 1
INVARIANTS QueuedOnce LogIsTrue DeletedIsDecided
PROPERTY QueueDrains
