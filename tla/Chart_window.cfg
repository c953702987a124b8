SPECIFICATION Spec
CONSTANTS
  Ranges = {0, 1, 3}
  Least = 1
  Most = 2
  Limit = 3
  Minute = 2
  Day = 6
  Buckets = 2
  Keep = 5
  MaxTime = 7
INVARIANT
  ShowsAll
