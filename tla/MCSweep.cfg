SPECIFICATION SweepSpec
CONSTANTS
  holder = holder
  visitor = visitor
  third = third
  pageA = pageA
  pageB = pageB
  pageC = pageC
  pageD = pageD
  pageE = pageE
  Threads = {holder, visitor, third}
  Pages = {pageA, pageB, pageC, pageD, pageE}
  Contents = {v1}
  NumFrames = 2
  NoThread = NoThread
  NoPage = NoPage
  Zeroed = Zeroed
  Torn = Torn
PROPERTY ExhaustionIsReal
CHECK_DEADLOCK FALSE
