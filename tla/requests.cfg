SPECIFICATION FairSpec
CONSTANTS
  None = None
  Ops = {"download_index", "insert", "drop_collection", "upload_index", "upload_collection_bundle", "download_collection_bundle"}
  Sizes = {"small", "huge"}
  HttpThreads = 1
  GrpcWorkers = 1
  MaxCalls = 2
  MaxFaults = 1
INVARIANTS TypeOK 
PROPERTIES RequestsAnswered
CHECK_DEADLOCK FALSE
