SPECIFICATION StorageSpec
CONSTANTS
  Parts = {"V1", "V2"}
  Threads = {t1, t2}
  Pages = {p1, p2, p3}
  Contents = {v1, v2}
  NumFrames = 2
  MaxUsage = 1
  NoThread = NoThread
  NoPage = NoPage
  NoFrame = NoFrame
  Zeroed = Zeroed
  Torn = Torn
  Clients = {t1, t2}
  Segments = {0, 1}
  PagesPerFile = 2
  MaxPages = 3
  MaxOpens = 2
  Stored = {stored}
  NoFile = NoFile
  Hole = Hole
  PageSize = 8
  HeaderSize = 1
  SlotSize = 2
  Values <- MCValues
  Records <- MCRecords
  Zero = Zero
  Deleted = Deleted
SYMMETRY Symmetry
INVARIANTS
  PoolInv
  CleanFramesMatchDisk
  SweepEnds
PROPERTIES
  ExhaustionIsReal
  ImplementsPageMemory
