SPECIFICATION FairSpec
CONSTANTS
  Keys = {1, 2, 3}
  Blocks = {b1, b2}
  MaxAccounts = 1
  Every = 2
  MaxAborts = 2
  None = None
  Torn = Torn
CHECK_DEADLOCK FALSE
INVARIANTS CheckpointCovers StorageIsThere ResultIsWhole
PROPERTY ResumesToTheEnd
