SPECIFICATION Spec
CONSTANTS
  Instances = {1}
  PeerReasons = {"eligible_peers"}
  SyncReasons = {}
  NormalInterval = 1
  DegradedInterval = 0
  NormalBuffer = 1
  DegradedBuffer = 2
  RecoveryTimeout = 2
  Reliable = TRUE
  MaxAge = 3
  MaxRuns = 3
  MaxFailures = 2
  AutoUpdate = TRUE
  Stages = 1
CHECK_DEADLOCK FALSE
INVARIANTS DegradationDumped RunFilesAreItsOwn LevelFollowsMode HistoryOrdered
