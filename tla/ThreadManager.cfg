SPECIFICATION Spec
CONSTANTS
  t1 = t1
  t2 = t2
  t3 = t3
  Thread <- Three
  MinPollers = 2
  MaxPollers = 2
  ThreadMax = 3
  OtherMax = 1
  MaxItems = 2
INVARIANTS IInv QuotaEnforced PoolNeverDrains NoUseAfterFree JoinedOnce ChecksHold
PROPERTIES EveryRequestAnswered ShutdownCompletes
CHECK_DEADLOCK FALSE
