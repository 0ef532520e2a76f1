SPECIFICATION Spec
CONSTANTS
  o1 = o1
  o2 = o2
  p1 = p1
  p2 = p2
  nobody = nobody
  stub = stub
  Nobody = nobody
  Stub = stub
  Op <- TwoOps
  Poller <- TwoPollers
  Timed <- TwoPollers
  CacheOps <- TwoOps
INVARIANTS IInv NeverBroken NoLostWakeup BegunOpsHoldShutdown
PROPERTY ImplementsQueue
CHECK_DEADLOCK FALSE
SYMMETRY Interchangeable
