SPECIFICATION OperationSpec
CONSTANTS
  o1 = o1
  r1 = r1
  r2 = r2
  op = o1
  Operations <- MCOperations
  Snapshots <- MCSnapshots
  Resolutions = {}
  ReceiptIds <- MCReceipts
  Requests = {}
  MaxRecords = 1
  MaxRevision = 6
  MaxEffects = 2
  MaxOpen = 2
  Evidence = {"Committed"}
  OwnerEvidence = {"NotStarted"}
  Results = {"ok"}
  Targets = {}
  NoRow = NoRow
  NoResolution = NoResolution
  NoReceipt = NoReceipt
  NoCheckpoint = NoCheckpoint
  NoSnapshot = NoSnapshot
INVARIANTS
  DiskRecordsPermission
