SPECIFICATION FairSpec
CONSTANTS
  Instances = {hoodi}
  SyncTimeout = 2
  BlockProcessingDuration = 2
  BlockStallTimeout = 1
  NodeUnresponsiveTimeout = 1
  Stages = 1
  MaxAge = 3
  MaxBlock = 3
INVARIANTS SuccessMeansProgress ReportedBlocksAreReal TimersNested
PROPERTIES VerdictReached ImplementsLifecycle
