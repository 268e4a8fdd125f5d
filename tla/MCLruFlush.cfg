SPECIFICATION HistorySpec
CONSTANTS
  Threads = {t1, t2}
  Contents = {Fresh, v1}
  Fresh = Fresh
  NumFrames = 2
  MaxPages = 3
  NoThread = NoThread
  NoPage = NoPage
  NoFrame = NoFrame
  Zeroed = Zeroed
  Torn = Torn
  Garbage = Garbage
  Faults = {"write", "torn"}
SYMMETRY Symmetry
INVARIANTS
  StoreInv
PROPERTIES
  ImplementsPageMemory
  FlushStoresUpdates
