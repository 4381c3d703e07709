\* Two launches and one reaper slot; one session identifier more than the
\* limit; two engines on one configuration file; two lockfiles.
CONSTANTS
  MaxLaunches = 2
  ReaperCapacity = 1
  MaxOutput = 2
  BufferLimit = 1
  SessionOwners = {"a"}
  MaxSessions = 2
  SessionLimit = 1
  MaxKillFailures = 1
  EventTokens = {"t", "u"}
  EventKinds = {"stdout", "exited"}
  MaxEventSessions = 1
  Setters = {"s"}
  MaxSequence = 3
  MaxGenerations = 2
  MaxCallbackFailures = 1
  MaxSnapshots = 2
  CleanupCapacity = 1
  MaxFsFailures = 2
  MaxSwaps = 1
  Engines = {"p", "q"}
  ConfigKeys = {"k", "l"}
  ConfigValues = {"x"}
  Schemas <- MCSchemas
  MaxRevision = 2
  MaxConfigFaults = 1
  EnvUsers = {"u", "v"}
  Lockfiles = {1, 2}
  MaxDirectories = 3
  RecoverySlots = 2
  MaxEnvFaults = 4
  QueueCapacity = 2
  PollLimit = 2
  LastSequence = 5
  MaxReloads = 1
  MaxExecFaults = 2
SPECIFICATION HostSpec
INVARIANTS HostTypeOK SessionsSound PackagesSound
PROPERTIES NothingForeignLost HostWorkEnds
CHECK_DEADLOCK FALSE
