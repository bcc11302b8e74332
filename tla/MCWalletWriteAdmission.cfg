\* 5 writers, limit min(2, 4-2) = 2, queue of 2, pool of 4.
SPECIFICATION GateFairSpec
CONSTANTS
  Writers = {w1, w2, w3, w4, w5}
  Requested = 2
  MaxPending = 2
  PoolMax = 4
INVARIANTS GateSafe PoolHeadroom
PROPERTIES NoOvertaking EveryWriteAnswered
