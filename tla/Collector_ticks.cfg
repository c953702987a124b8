SPECIFICATION Spec
CONSTANTS
  Ticks = {t1, t2}
  Requests = {}
  IfIndexes = {i1}
  MaxId = 2
  MaxGen = 2
  MaxRuns = 2
  MaxEdits = 1
  IsMySQL = FALSE
  DbFaults = TRUE
SYMMETRY Symmetric
INVARIANTS
  TypeOK
  DoneMeansAllSettled
  StatusMatchesPoll
  AdminEditsSurvive
  SamplesMatchOutcomes
