\* Two shares of one plot, two processes, one of which ends; a lost answer and a
\* file removed by hand.
SPECIFICATION FairSpec
CONSTANTS
  Shares = {1, 2}
  Plots = {"p1"}
  Plot <- OnePlot
  Servers = {a, b}
  Slots = {i}
  Cap = 1
  Attempts = 2
  Nothing = Nothing
  Outages = 1
  Losses = 1
  Removals = 1
INVARIANTS NoDuplicateFiles WithinCap
PROPERTY SharesSettle
\* When every share is settled nothing more happens but sweeps.
CHECK_DEADLOCK FALSE
