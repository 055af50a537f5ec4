SPECIFICATION Spec
CONSTANTS
  Jobs <- MCJobs
  Limit = 14
  RootInterval = 3
  WaitInterval = 4
  Sleep = 1
  Pause = 2
  MaxTrigger = 2
  MaxLvm = 2
  MaxMount = 3
INVARIANTS WaitBounded
PROPERTIES NoneMissed WaitsEnd
CHECK_DEADLOCK FALSE
