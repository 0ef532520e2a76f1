SPECIFICATION Spec
CONSTANTS
  t1 = t1
  t2 = t2
  t3 = t3
  Thread <- Three
  MinPollers = 1
  MaxPollers = 2
  ThreadMax = 3
  OtherMax = 0
  MaxItems = 1
PROPERTY SurplusPollersFinish
CHECK_DEADLOCK FALSE
