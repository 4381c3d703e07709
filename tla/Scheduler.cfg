\* One failing checkpoint and one closure: of a pool, of the plugin or of the runtime.
SPECIFICATION FairSpec
CONSTANTS
  sp = sp  rp = rp  g1 = g1
  Pools <- MCPools
  Plugins <- MCPlugins
  Policy <- MCPolicy
  Limits <- MCLimits
  MaxQueued = 1
  MaxOperations = 2
  MaxSessions = 1
  MaxPools = 2
  Workers = 1
  LastOperation = 3
  MaxFailures = 1
  MaxClosures = 1
INVARIANTS
  SchedulerTypeOK
  BooksExact
  FinalizedOnce
PROPERTIES
  EverythingEnds
CHECK_DEADLOCK FALSE
