SPECIFICATION FairSpec
CONSTANTS
  d1 = d1
  d2 = d2
  None = None
  Docs <- MCDocs
  Batches <- MCBatches
  ExternalBundles <- OneBundle
  UploadIndexes <- NoUploads
  CacheMaxRows = 1
  MaxRows = 2
  MaxDataVersion = 4
  MaxVersion = 3
  MaxCrashes = 1
  MaxFailures = 0
INVARIANTS TypeOK PurgeSafety EligibleMeansExported FreshIndexMatchesRows SearchReturnsTheRightRow ImportAllOrNothingOverIndex
PROPERTIES DataVersionNeverGoesBack ImportResolves
