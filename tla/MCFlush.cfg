SPECIFICATION FlushSpec
CONSTANTS
  Threads = {t1, t2}
  Pages = {p1, p2, p3}
  Contents = {v1, v2}
  NumFrames = 2
  NoThread = NoThread
  NoPage = NoPage
  Zeroed = Zeroed
  Torn = Torn
  MaxCalls = 4
  MaxWrites = 2
  CallModes = {"Normal"}
SYMMETRY Symmetry
INVARIANTS
  WaitsAreAcyclic
PROPERTIES
  FlushIsComplete
