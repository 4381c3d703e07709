---------------------------- MODULE MCHostEngine ----------------------------
(***************************************************************************)
(* The instance of the engine's own components: runtime leases, managed    *)
(* workers, the VM pools, skill lifecycle and sources, dependency          *)
(* downloads, package contexts, managed I/O, the tool cache, the file      *)
(* watcher and the two foreign-function surfaces.  As in MCHostSessions    *)
(* they share no state, so part says which one moves; the others stay in   *)
(* one initial state.                                                      *)
(***************************************************************************)
EXTENDS RuntimeLease, EngineWorkers, VmPool, SkillLifecycle,
        Downloads, PackageContext, ManagedIo, ToolCache,
        FileWatcher, FfiTransport, FfiEngines,
        SkillSources

VARIABLE part    \* the component this behaviour explores

Components == {"lease", "workers", "vms", "skill", "download", "package",
               "io", "cache", "watch", "transport", "engines", "source"}

\* One main VM and one for runlua; two cache configurations; two archives.
MCMaxVms == [main |-> 1, runlua |-> 1]
MCArchives == << {"zip"}, {"tar", "raw"} >>
\* One thread loads skills, the other embedded plugins.
MCContextKinds == [m |-> {"skill"}, n |-> {"embedded"}]
MCDefaultCache == [max |-> 2, default |-> 1, ceiling |-> 1]
MCCacheConfigs == {MCDefaultCache, [max |-> 1, default |-> 2, ceiling |-> 2]}

\* Two archives claim version 2, one of them built for another platform.
MCSkillArchives == {[version |-> 1, platform |-> "none"], [version |-> 2, platform |-> "mine"],
                    [version |-> 2, platform |-> "other"]}

EngineInit ==
  /\ part \in Components
  /\ LeaseInit
  /\ WorkersInit
  /\ VmPoolInit
  /\ part # "vms" => totalVms["main"] = 0
  /\ LifecycleInit
  /\ part # "skill" => \A r \in SkillRoots : rootDisk[r].package = Nothing /\ rootDisk[r].record = Nothing
  /\ DownloadsInit
  /\ PackageInit
  /\ part # "package" => live.distribution = 0
  /\ IoInit
  /\ part # "io" => ioFile = Absent
  /\ CacheInit
  /\ WatchInit
  /\ part # "watch" => present = {0}
  /\ TransportInit
  /\ EnginesInit
  /\ SourcesInit
  /\ part # "source" => sourcePackage = NoArchive

EngineNext ==
  \/ /\ part = "lease" /\ LeaseNext
     /\ UNCHANGED <<part, workersVars, vmVars, lifecycleVars, downloadVars,
                    packageVars, ioVars, cacheVars, watchVars, transportVars, engineVars, sourceVars>>
  \/ /\ part = "workers" /\ WorkersNext
     /\ UNCHANGED <<part, leaseVars, vmVars, lifecycleVars, downloadVars,
                    packageVars, ioVars, cacheVars, watchVars, transportVars, engineVars, sourceVars>>
  \/ /\ part = "vms" /\ VmPoolNext
     /\ UNCHANGED <<part, leaseVars, workersVars, lifecycleVars, downloadVars,
                    packageVars, ioVars, cacheVars, watchVars, transportVars, engineVars, sourceVars>>
  \/ /\ part = "skill" /\ LifecycleNext
     /\ UNCHANGED <<part, leaseVars, workersVars, vmVars, downloadVars,
                    packageVars, ioVars, cacheVars, watchVars, transportVars, engineVars, sourceVars>>
  \/ /\ part = "download" /\ DownloadsNext
     /\ UNCHANGED <<part, leaseVars, workersVars, vmVars, lifecycleVars,
                    packageVars, ioVars, cacheVars, watchVars, transportVars, engineVars, sourceVars>>
  \/ /\ part = "package" /\ PackageNext
     /\ UNCHANGED <<part, leaseVars, workersVars, vmVars, lifecycleVars,
                    downloadVars, ioVars, cacheVars, watchVars, transportVars, engineVars, sourceVars>>
  \/ /\ part = "io" /\ IoNext
     /\ UNCHANGED <<part, leaseVars, workersVars, vmVars, lifecycleVars,
                    downloadVars, packageVars, cacheVars, watchVars, transportVars, engineVars, sourceVars>>
  \/ /\ part = "cache" /\ CacheNext
     /\ UNCHANGED <<part, leaseVars, workersVars, vmVars, lifecycleVars,
                    downloadVars, packageVars, ioVars, watchVars, transportVars, engineVars, sourceVars>>
  \/ /\ part = "watch" /\ WatchNext
     /\ UNCHANGED <<part, leaseVars, workersVars, vmVars, lifecycleVars,
                    downloadVars, packageVars, ioVars, cacheVars, transportVars, engineVars, sourceVars>>
  \/ /\ part = "transport" /\ TransportNext
     /\ UNCHANGED <<part, leaseVars, workersVars, vmVars, lifecycleVars,
                    downloadVars, packageVars, ioVars, cacheVars, watchVars, engineVars, sourceVars>>
  \/ /\ part = "engines" /\ EnginesNext
     /\ UNCHANGED <<part, leaseVars, workersVars, vmVars, lifecycleVars,
                    downloadVars, packageVars, ioVars, cacheVars, watchVars, transportVars, sourceVars>>
  \/ /\ part = "source" /\ SourcesNext
     /\ UNCHANGED <<part, leaseVars, workersVars, vmVars, lifecycleVars,
                    downloadVars, packageVars, ioVars, cacheVars, watchVars, transportVars, engineVars>>

engineHostVars == <<part, leaseVars, workersVars, vmVars, lifecycleVars,
                    downloadVars, packageVars, ioVars, cacheVars, watchVars, transportVars, engineVars, sourceVars>>

EngineSpec == EngineInit /\ [][EngineNext]_engineHostVars

-----------------------------------------------------------------------------
\* The state of every component keeps its type.
EngineTypeOK ==
  /\ part \in Components
  /\ part = "lease" => LeaseTypeOK
  /\ part = "workers" => WorkersTypeOK
  /\ part = "vms" => VmPoolTypeOK
  /\ part = "skill" => LifecycleTypeOK
  /\ part = "download" => DownloadsTypeOK
  /\ part = "package" => PackageTypeOK
  /\ part = "io" => IoTypeOK
  /\ part = "cache" => CacheTypeOK
  /\ part = "watch" => WatchTypeOK
  /\ part = "transport" => TransportTypeOK
  /\ part = "engines" => EnginesTypeOK
  /\ part = "source" => SourcesTypeOK

\* Leases and workers: the index, the generations and the tombstones of the
\* leases agree, a managed worker is owned by one call or idle in its bucket,
\* and a caller gets the reply to its own request.
EngineSound ==
  /\ part = "lease" => LeasesAgree
  /\ part = "workers" => WorkersAccounted /\ ReplyMatches

\* VM pools: no VM is lost or shared, no thread sleeps while a VM is free, and
\* the context in a VM is the one of the call that runs in it.
VmsSound == part = "vms" => NoVmLost /\ ContextOwned

\* Skills and their packages: the answer of a lifecycle operation describes the
\* disk, a cached or installed dependency is the declared one and no load waits
\* for ever, a package context speaks for one package and one distribution, and
\* an install record tells the truth about the package beside it.
SkillsSound ==
  /\ part = "skill" => AnswerIsTrue
  /\ part = "download" => CacheSound /\ LoadsGoOn
  /\ part = "package" => AuthoritySound
  /\ part = "source" => RecordTellsTruth

\* Files and caches of scripts: a successful flush put the handle's text on
\* disk, the cache evicts only what it must, and native watches are those the
\* registrations ask for.
IoSound ==
  /\ part = "io" => FlushedIsBuffer
  /\ part = "cache" => EntriesKept
  /\ part = "watch" => CountsAreRegistrations

\* The foreign-function surfaces: responses and slots are accounted for and
\* outlive their use, and engine handles and callbacks are used while alive.
AbiSound ==
  /\ part = "transport" => TransportSound
  /\ part = "engines" => HandlesSound
=============================================================================
