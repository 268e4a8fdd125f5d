SPECIFICATION FairSpec
CONSTANTS
  Threads = {t1, t2}
  Pages = {p1, p2}
  Contents = {v1, v2}
  NumFrames = 1
  NoThread = NoThread
  NoPage = NoPage
  Zeroed = Zeroed
  Torn = Torn
INVARIANTS
  CleanFramesMatchDisk
  OwnershipInv
PROPERTIES
  ImplementsPageMemory
  CallsReturn
