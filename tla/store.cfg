SPECIFICATION Spec
CONSTANTS
  t1 = t1  t2 = t2  d1 = d1  d2 = d2  none = none
  Threads <- TwoThreads
  Names <- TwoNames
  Docs <- TwoDocs
  Batches <- SomeBatches
  Unbindable = {}
  None = none
  MaxVersion = 2
  MaxCrashes = 1
INVARIANTS TypeOK OwnRowsOnly WholeInsertsOnly NoIdleWriter
PROPERTIES TableStays ImplementsTables
CHECK_DEADLOCK FALSE
