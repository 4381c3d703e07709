SPECIFICATION FairSerialSpec
CONSTANTS
  o1 = o1
  r1 = r1
  r2 = r2
  op = o1
  Operations <- MCOperations
  Snapshots <- MCSnapshots
  Resolutions = {}
  ReceiptIds <- MCReceipts
  Requests = {}
  MaxRecords = 1
  MaxRevision = 3
  MaxEffects = 2
  MaxOpen = 1
  Evidence = {"Committed"}
  OwnerEvidence = {"NotStarted"}
  Results = {}
  Targets <- MCTargets
  NoRow = NoRow
  NoResolution = NoResolution
  NoReceipt = NoReceipt
  NoCheckpoint = NoCheckpoint
  NoSnapshot = NoSnapshot
INVARIANTS
  DiskRecordsPermission
PROPERTIES
  GateReleased
