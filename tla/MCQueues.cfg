SPECIFICATION QueuesSpec
CONSTANTS
  Threads = {t1, t2, t3, t4}
  c1 = c1
  c2 = c2
  c3 = c3
  c4 = c4
  Commands <- MCCommands
  Priority <- MCPriority
  IssuedAt <- MCIssuedAt
  SafeMode <- MCSafeMode
  Capacity = 2
  NoCommand = NoCommand
INVARIANTS
  QueueInv
  UnboundedInv
PROPERTIES
  ImplementsPriorityQueue
  QueuesMakeProgress
  PoppingServesAll
