SPECIFICATION FairSpec
CONSTANTS
  g1 = g1
  g2 = g2
  n1 = n1
  c1 = c1
  c2 = c2
  RegIds <- MCRegIds
  Names <- MCNames
  Calls <- OneCall
  MaxEntries = 1
  MaxConcurrent = 1
  MaxRequests = 1
  NoEntry = NoEntry
  NoReg = NoReg
  NoRecord = NoRecord
  NoCall = NoCall
INVARIANTS
  RetiredIsQuiet
PROPERTIES
  DrainedIsFinal
  ClosureEnds
CHECK_DEADLOCK FALSE
