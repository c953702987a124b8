SPECIFICATION Spec
CONSTANTS
  Ticks = {t1}
  Requests = {q1}
  IfIndexes = {i1}
  MaxId = 1
  MaxGen = 2
  MaxRuns = 1
  MaxEdits = 1
  IsMySQL = FALSE
  DbFaults = FALSE
INVARIANT
  SamplesCascade
