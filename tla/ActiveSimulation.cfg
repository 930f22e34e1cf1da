SPECIFICATION Spec
CONSTANTS
  Thread = {t1, t2}
  Nobody = Nobody
  RingSize = 2
  Jobs <- ActiveJob
  SizeMax = 15
  SpuriousWakeups = FALSE
INVARIANTS
  LastUser
