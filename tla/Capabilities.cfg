SPECIFICATION Spec
CONSTANTS
  g1 = g1
  g2 = g2
  n1 = n1
  c1 = c1
  c2 = c2
  RegIds <- OneReg
  Names <- MCNames
  Calls <- MCCalls
  MaxEntries = 1
  MaxConcurrent = 2
  MaxRequests = 2
  NoEntry = NoEntry
  NoReg = NoReg
  NoRecord = NoRecord
  NoCall = NoCall
SYMMETRY MCSymmetry
INVARIANTS
  CapabilitiesTypeOK
  CallsCounted
  CompletionSound
CHECK_DEADLOCK FALSE
