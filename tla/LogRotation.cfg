\* A file that is full after one batch, so that it is rotated twice in a second.
CONSTANTS
  MaxBytes = 2
  Keep = 1
  DayLength = 2
  MaxTime = 3
  MaxFiles = 3
  MaxBatch = 2
SPECIFICATION Spec
INVARIANT PurgesOldest
CHECK_DEADLOCK FALSE
