SPECIFICATION Spec
CONSTANTS
  o1 = o1
  o2 = o2
  p1 = p1
  p2 = p2
  nobody = nobody
  stub = stub
  Nobody = nobody
  Stub = stub
  Op <- OneOp
  Poller <- TwoPollers
  Timed <- OnePoller
  CacheOps <- NoOps
PROPERTIES EveryEventTaken ShutdownReachesAll
CHECK_DEADLOCK FALSE
