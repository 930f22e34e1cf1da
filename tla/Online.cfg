SPECIFICATION FairSpec
CONSTANTS
  Thread = {t1, t2, t3}
  Nobody = Nobody
  RingSize = 2
  Jobs <- OnlineJobs
  SizeMax = 15
  SpuriousWakeups = TRUE
INVARIANTS
  TypeOK
  ExamplesAvailable
  LastUser
  OneAccountant
  DelaySlotFree
  EveryPassComplete
  IInv
PROPERTIES
  ImplementsSequentialLearner
  Termination
