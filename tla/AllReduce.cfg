\* One call on four nodes, an inner one of them with two children.
SPECIFICATION FairSpec
CONSTANTS
  n1 = n1
  n2 = n2
  n3 = n3
  n4 = n4
  Node = {n1, n2, n3, n4}
  None = None
  Trees <- OneStem
  Calls <- WeightCalls
  FloatSize = 2
  BufSize = 2
  IntMax = 7
  Capacity = 2
  MaxCrashes = 0
  Signals = {}
INVARIANTS
  TypeOK
  NoFalseAlarm
  Watermarks
  IInv
PROPERTIES
  ImplementsSumService
  Termination
