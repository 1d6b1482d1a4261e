SPECIFICATION Spec
CONSTANTS
  Instances = {1, 2}
  PeerReasons = {}
  SyncReasons = {}
  NormalInterval = 0
  DegradedInterval = 0
  NormalBuffer = 1
  DegradedBuffer = 1
  RecoveryTimeout = 0
  Reliable = TRUE
  MaxAge = 0
  MaxRuns = 2
  MaxFailures = 1
  AutoUpdate = FALSE
  Stages = 1
CHECK_DEADLOCK FALSE
INVARIANTS FailureReported BoundedStarvation
