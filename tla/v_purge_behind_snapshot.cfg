SPECIFICATION Spec
CONSTANTS
  t1 = t1  t2 = t2  d1 = d1  d2 = d2  none = none
  Threads <- TwoThreads
  Names <- TwoNames
  Docs <- TwoDocs
  Batches <- FewBatches
  Unbindable = {}
  None = none
  MaxVersion = 3
  MaxCrashes = 0
INVARIANT PurgeDropsOnlyExported
CHECK_DEADLOCK FALSE
