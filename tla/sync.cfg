SPECIFICATION Spec
CONSTANTS
  None = None
  MaxIndexes = 3
  MaxVersion = 3
  MaxRecords = 2
INVARIANTS TypeOK VersionSyncSound ChecksumSyncSound
CHECK_DEADLOCK FALSE
