SPECIFICATION Spec
CONSTANTS
  Requests = {q1, q2}
  MaxId = 2
  MaxGen = 2
  MaxJobs = 4
  MaxEdits = 1
  MaxRestarts = 1
  IsMySQL = FALSE
SYMMETRY Symmetric
INVARIANTS
  TypeOK
  RunningHasOwner
  RunSeesInventory
  FileCatchesUp
