SPECIFICATION FairSpec
CONSTANTS
  n1 = n1
  n2 = n2
  n3 = n3
  n4 = n4
  Node = {n1, n2, n3}
  None = None
  Trees <- OneFork
  Calls <- WeightCalls
  FloatSize = 2
  BufSize = 2
  IntMax = 7
  Capacity = 3
  MaxCrashes = 0
  Signals = {"write"}
PROPERTIES
  Termination
CHECK_DEADLOCK FALSE
