SPECIFICATION Spec
CONSTANTS
  Devices = 2
  Interval = 2
  MaxInstances = 3
  Slow = 4
  Quick = 1
  MaxSlow = 2
  Window = 8
INVARIANTS
  MissedOnlyBeyondCapacity
  NoDeviceForgotten
  RateHasReference
