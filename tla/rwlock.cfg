SPECIFICATION FairSpec
CONSTANTS
  t1 = t1
  t2 = t2
  t3 = t3
  t4 = t4
  Threads <- FourThreads
INVARIANTS LockInv NoLostWakeup
PROPERTIES ImplementsLock ReadersGetIn
