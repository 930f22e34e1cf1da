SPECIFICATION FairSpec
CONSTANTS
  Thread = {t1}
  Nobody = Nobody
  RingSize = 2
  Jobs <- SingleThreadJobs
  SizeMax = 15
  SpuriousWakeups = TRUE
INVARIANTS
  OutputWhenFinished
  EtaDecaysOncePerPass
PROPERTIES
  ImplementsSequentialLearner
