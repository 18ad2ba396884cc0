SPECIFICATION Spec
CONSTANTS
  Names <- MCNames
  Folders <- MCFolders
  NoPath = NoPath
  Root = "root"
  Clipped <- MCClipped
  Requests <- MCRequests
  BlockModulus = 3
  MaxUploads = 2
  MaxRetries = 3
  MaxFaults = 2
INVARIANTS TypeOK  AcknowledgedIsKept FailsForAReason
CHECK_DEADLOCK FALSE
