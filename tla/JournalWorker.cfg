SPECIFICATION FairSpec
CONSTANTS
  o1 = o1
  r1 = r1
  r2 = r2
  r3 = r3
  t1 = t1
  t2 = t2
  Operations <- MCOperations
  Snapshots <- MCSnapshots
  Resolutions <- MCResolutions
  ReceiptIds <- MCReceipts
  ThreadIds <- MCThreads
  Size <- MCSize
  Requests <- MCRequests
  MaxRecords = 1
  MaxRevision = 2
  MaxPendingWrites = 2
  MaxPendingBytes = 2
  NoRow = NoRow
  NoResolution = NoResolution
  NoReceipt = NoReceipt
  NoThread = NoThread
INVARIANTS
  WorkerTypeOK
  WorkerSound
PROPERTIES
  NothingReopened
  ImplementsWriter
  WorkEnds
