SPECIFICATION FairThreads
CONSTANTS
  t1 = t1  t2 = t2  t3 = t3  none = none
  Threads <- ThreeThreads
  None = none
  CacheOn = TRUE
  MaxMade = 2
  MaxCalls = 3
INVARIANTS ThreadsTypeOK SearchAtOneInstant IndexLostOnlyWhenOvertaken
PROPERTY RequestsEnd
CHECK_DEADLOCK FALSE
