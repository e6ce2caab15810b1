SPECIFICATION Spec
CONSTANTS
  d1 = d1
  d2 = d2
  None = None
  Docs <- MCDocs
  Batches <- OneBatch
  ExternalBundles <- OneBundle
  UploadIndexes <- MCUploads
  CacheMaxRows = 0
  MaxRows = 2
  MaxDataVersion = 3
  MaxVersion = 3
  MaxCrashes = 1
  MaxFailures = 1
INVARIANTS EligibleMeansExported EligibleMeansIndexExported ExportedBundleAgrees FailedImportIsSwept
