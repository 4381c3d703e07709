\* Two threads everywhere; most resources admit fewer users than ask for them.
CONSTANTS
  Sids = {"s", "u"}
  MaxLeaseIds = 2
  LeaseLimit = 1
  Callers = {"c", "d"}
  WorkerKeys = {"k"}
  Invokers = {"c", "d"}
  PoolSize = 2
  StderrCapacity = 1
  MaxWorkers = 2
  MaxInvocations = 3
  VmThreads = {"a", "b"}
  VmIds = {1, 2}
  MinVms = 1
  MaxVms <- MCMaxVms
  MaxDepth = 2
  MaxVmFaults = 1
  MaxVersion = 2
  MaxLifecycleFaults = 1
  Installers = {"a", "b"}
  Versions = {1, 2}
  ExportSets = {1, 2}
  ArchivesOf <- MCArchives
  HttpWorkers = 1
  HttpQueue = 1
  MaxLoads = 1
  MaxDownloadFaults = 2
  Makers = {"m", "n"}
  MaxReplacements = 3
  ContextKinds <- MCContextKinds
  MaxOwners = 2
  ManifestTexts = {"x", "y"}
  IoHandles = {"h"}
  IoBytes = {1, 2}
  MaxText = 2
  MaxGeneration = 3
  MaxIoFaults = 1
  CacheCallers = {"c", "d"}
  CacheTools = {"t", "u"}
  CacheConfigs <- MCCacheConfigs
  DefaultCache <- MCDefaultCache
  CacheTtls = {9}
  MaxCounter = 5
  MaxCacheClock = 1
  WatchDepth = 2
  MaxRegistrations = 2
  MaxTopology = 2
  MaxWatchFaults = 1
  Natives = {"a", "b"}
  MaxRuntimes = 1
  MaxBuffers = 3
  MaxResultBytes = 4
  MaxResponse = 2
  MaxRequests = 3
  MaxSlots = 1
  MaxCoreFaults = 1
  FfiThreads = {"a", "b"}
  MaxEngines = 2
  MaxCallbacks = 1
  MaxFrames = 3
  SkillArchives <- MCSkillArchives
  PrivateOrigins = {"private", "elsewhere"}
  Allowlist = {"private"}
  MaxApplies = 2
  MaxOtherFetches = 1
SPECIFICATION EngineSpec
INVARIANTS EngineTypeOK EngineSound VmsSound SkillsSound IoSound AbiSound
CHECK_DEADLOCK FALSE
