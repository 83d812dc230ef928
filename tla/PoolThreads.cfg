SPECIFICATION FairSpec
CONSTANTS
  Threads = {t1, t2}
  NoThread = none
  Data = {d1, d2}
  NULL = null
  MaxCalls = 3
INVARIANTS TypeOK BlocksDistinct OneInside ListIntact LockGivenBack
PROPERTY CallsReturn
CHECK_DEADLOCK FALSE
