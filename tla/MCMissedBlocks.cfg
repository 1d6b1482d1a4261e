SPECIFICATION FairSpec
CONSTANTS
  Proposers = {ethrex1}
  MaxSlot = 3
  ScanLimit = 2
  Window = 1
  Threshold = 2
  Schedule <- MCSchedule
  Keep = 1
  MaxAge = 2
  MaxKills = 1
INVARIANTS MissHandledOnce NoMissLost PostsAreBounded BurstCountsAll
PROPERTY BurstResolved
