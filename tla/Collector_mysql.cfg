SPECIFICATION FairSpec
CONSTANTS
  Ticks = {t1}
  Requests = {q1}
  IfIndexes = {i1}
  MaxId = 2
  MaxGen = 2
  MaxRuns = 1
  MaxEdits = 1
  IsMySQL = TRUE
  DbFaults = TRUE

INVARIANTS
  CrashOnlyIfDisturbed
  RowsHaveTheirDevice
  SamplesMatchOutcomes
PROPERTIES
  ImplementsLedger
  EveryPollSettles
