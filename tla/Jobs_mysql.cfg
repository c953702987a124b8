SPECIFICATION FairSpec
CONSTANTS
  Requests = {q1, q2}
  MaxId = 1
  MaxGen = 2
  MaxJobs = 4
  MaxEdits = 1
  MaxRestarts = 1
  IsMySQL = TRUE
PROPERTY
  RequestsEnd
INVARIANTS
  RunningHasOwner
  RunSeesInventory
  JobsHaveTheirDevice
