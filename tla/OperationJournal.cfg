SPECIFICATION JournalSpec
CONSTANTS
  o1 = o1
  o2 = o2
  Operations <- MCOperations
  Snapshots <- MCSnapshots
  Resolutions <- MCResolutions
  MaxRecords = 1
  MaxRevision = 4
  NoRow = NoRow
  NoResolution = NoResolution
INVARIANTS
  JournalTypeOK
  RowsReopenable
  RowsWithinCapacity
  HealthyHasConnection
PROPERTIES
  EvidencePreserved
  FrozenWhileUncertain
