SPECIFICATION FairSpec
CONSTANTS
  NumFeeds = 2
  Keys <- MCKeys
  MaxSources <- MCMaxSources
  MaxFrames = 2
  CtrlCap = 1
  FeedCap = 1
  InternalCap = 1
  EmergencyCap = 1
  RoutineCap = 1
  ProcessCap = 1
  BroadcastCap = 1
  NoFeed = NoFeed
  NoFrame = NoFrame
INVARIANTS
  PipelineInv
  NothingLost
  RegistryAgrees
PROPERTIES
  FramesProcessed
CHECK_DEADLOCK FALSE
