SPECIFICATION Spec
CONSTANTS
  n1 = n1
  n2 = n2
  n3 = n3
  n4 = n4
  Node = {n1, n2, n3}
  None = None
  Trees <- BothTrees
  Calls <- AverageCalls
  FloatSize = 2
  BufSize = 2
  IntMax = 7
  Capacity = 3
  MaxCrashes = 1
  Signals = {"write", "select"}
INVARIANTS
  NoFalseAlarm
PROPERTIES
  ImplementsSumService
CHECK_DEADLOCK FALSE
