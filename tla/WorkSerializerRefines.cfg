SPECIFICATION Spec
CONSTANTS
  c1 = c1
  c2 = c2
  b1 = b1
  b2 = b2
  b3 = b3
  b4 = b4
  t1 = t1
  t2 = t2
  Nobody = nobody
  Client <- TwoClients
  Callback <- FourCallbacks
  Thread <- TwoThreads
INVARIANTS IInv NeverBroken
PROPERTY ImplementsSerial
CHECK_DEADLOCK FALSE
