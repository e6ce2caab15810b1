SPECIFICATION Spec
CONSTANTS
  r1 = r1
  r2 = r2
  r3 = r3
  None = None
  Requests <- ThreeRequests
  MaxData = 2
  MaxBundles = 3
  MaxCrashes = 1
INVARIANTS TypeOK DownloadIsRecent NoResidue PurgeLeavesNoBundle
SYMMETRY Symmetry
CHECK_DEADLOCK FALSE
