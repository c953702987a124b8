SPECIFICATION Spec
CONSTANTS
  Ports = {1}
  Pollers = {w1, w2}
  Wide = 16
  Narrow = 6
  Column = 8
  HasHC = TRUE
  Databases = {TRUE, FALSE}
  Window = 2
  Keep = 2
  HistLimit = 3
  HistLength = 1
  Shown <- Starts
  Bursts = {0, 3}
  MaxTime = 3
  MaxPolls = 3
SYMMETRY Symmetric
INVARIANTS
  RatesMatchTraffic
  RatesTile
  RatesRecover
  AverageIsOverNewest
