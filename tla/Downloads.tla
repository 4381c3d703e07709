----------------------------- MODULE Downloads -----------------------------
(***************************************************************************)
(* Dependencies of skills (dependency/manager.rs) fetched through the      *)
(* shared download cache (download/manager.rs) and unpacked into install   *)
(* roots (download/archive.rs).                                            *)
(*                                                                         *)
(* Each installer is a thread that loads one skill with one dependency of  *)
(* one name: the installers therefore share the cache path of the payload, *)
(* whose key is made of the kind, the name and the platform, and each has  *)
(* install roots of its own, one per version.  A payload is the version it *)
(* carries, or Garbage; a checksum is the payload it belongs to.           *)
(***************************************************************************)
EXTENDS Naturals, Sequences, FiniteSets

CONSTANTS Installers,         \* threads, each loading the skill of its name
          Versions,           \* versions of the dependency
          ExportSets,            \* files the dependency must install
          ArchivesOf,         \* archive types manifests declare for a version
          HttpWorkers,        \* threads of the HTTP executor
          HttpQueue,          \* httpTasks that may wait for them
          MaxLoads,           \* bound on the loads of one skill
          MaxDownloadFaults   \* bound on failing steps

ASSUME DownloadsAssumption == HttpWorkers \in Nat \ {0} /\ HttpQueue \in Nat \ {0}

VARIABLES payloadCache,  \* the published payload, or NoFile
          indexCache,    \* the published skill list, or NoFile
          targetLock,    \* the installer that holds the target's mutex
          httpTasks,         \* HTTP httpTasks waiting for a worker
          httpRunning,       \* installers whose task a worker executes
          partFiles,     \* installers whose temporary file is open or unpublished
          strayParts,    \* temporary files no PendingDownloadFile owns any more
          installRoots,         \* content of every install root
          job,           \* what each installer is doing
          loads,         \* loads begun by each installer
          downloadFaults \* failing steps so far

partVars == <<partFiles, strayParts>>

downloadVars == <<payloadCache, indexCache, targetLock, httpTasks, httpRunning, partVars,
                  installRoots, job, loads, downloadFaults>>

NoFile == 0
Garbage == Cardinality(Versions) + 1   \* versions are 1..n
Torn == Garbage + 1                    \* a file whose writing failed half-way
NoSum == 0
NoInstaller == "nobody"
Payloads == Versions \union {Garbage}
Sources == {"url", "skilllist", "bundled", "host"}
NoExports == [e \in ExportSets |-> NoFile]
IdleJob == [at |-> "idle", version |-> CHOOSE v \in Versions : TRUE, source |-> "url",
            archive |-> "zip", sum |-> NoSum, attempts |-> 0, round |-> 0,
            got |-> NoFile, answer |-> "none"]

DownloadsInit ==
    /\ payloadCache = NoFile
    /\ indexCache = "none"
    /\ targetLock = NoInstaller
    /\ httpTasks = <<>>
    /\ httpRunning = {}
    /\ partFiles = {}
    /\ strayParts = 0
    /\ installRoots = [i \in Installers |-> [v \in Versions |-> NoExports]]
    /\ job = [i \in Installers |-> IdleJob]
    /\ loads = [i \in Installers |-> 0]
    /\ downloadFaults = 0
----------------------------------------------------------------------------
(* Pure parts: detection, checksums and the three archive formats.         *)

\* dependency_export_target_is_ready: a regular file, whatever its content.
TargetReady(file) == file # NoFile

Detected(files) == \A e \in ExportSets : TargetReady(files[e])

\* A declared checksum must agree with the one the release reports.
SumsAgree(declared, reported) ==
    declared = NoSum \/ reported = NoSum \/ declared = reported

ExpectedSum(declared, reported) == IF declared # NoSum THEN declared ELSE reported

\* verify_file_sha256_normalized; without a checksum everything passes.
Verifies(content, sum) == sum \in {NoSum, content}

\* A complete response is one more attempt's worth when its checksum is known.
Attempts(sum, cached) == IF sum # NoSum /\ cached = NoFile THEN 2 ELSE 1

\* Copying the payload itself; only one export may be declared.
RawOutcomes(content, files) ==
    IF Cardinality(ExportSets) # 1 THEN {[files |-> files, ok |-> FALSE]}
    ELSE {[files |-> [e \in ExportSets |-> content], ok |-> TRUE],
          [files |-> [e \in ExportSets |-> Torn], ok |-> FALSE]}

\* In the order of the declaration: what precedes the failure is complete.
ZipOutcomes(content, files) ==
    IF content = Garbage THEN {[files |-> files, ok |-> FALSE]}
    ELSE {[files |-> [e \in ExportSets |-> IF e < k THEN content
                                        ELSE IF e = k /\ t THEN Torn ELSE files[e]],
           ok |-> FALSE] : k \in ExportSets, t \in BOOLEAN}
         \union {[files |-> [e \in ExportSets |-> content], ok |-> TRUE]}

\* In the order of the archive: any of the exports may be complete.
TarOutcomes(content, files) ==
    IF content = Garbage THEN {[files |-> files, ok |-> FALSE]}
    ELSE {[files |-> [e \in ExportSets |-> IF e \in done THEN content
                                        ELSE IF e = k /\ t THEN Torn ELSE files[e]],
           ok |-> FALSE] : done \in SUBSET ExportSets, k \in ExportSets, t \in BOOLEAN}
         \union {[files |-> [e \in ExportSets |-> content], ok |-> TRUE]}

\* What unpacking may leave in a root, by archive type; a missing archive cannot be opened.
InstallOutcomes(archive, content, files) ==
    IF content = NoFile THEN {[files |-> files, ok |-> FALSE]}
    ELSE IF archive = "raw" THEN RawOutcomes(content, files)
    ELSE IF archive = "zip" THEN ZipOutcomes(content, files)
    ELSE TarOutcomes(content, files)

\* An outcome the archive itself does not force is a failing step.
Costs(outcomes, outcome) == IF ~outcome.ok /\ \E o \in outcomes : o.ok THEN 1 ELSE 0
----------------------------------------------------------------------------
(* Changes of one installer's job.                                         *)

InstallerMoves(i, to) == job' = [job EXCEPT ![i].at = to]

Answers(i, answer) ==
    job' = [job EXCEPT ![i] = [IdleJob EXCEPT !.version = job[i].version, !.answer = answer]]

Failing(n) ==
    /\ downloadFaults + n <= MaxDownloadFaults
    /\ downloadFaults' = downloadFaults + n

WantedRoot(i) == installRoots[i][job[i].version]

\* PendingDownloadFile::create makes a new file of a unique name beside the target.
OpenPart(i) == partFiles' = partFiles \union {i}

\* Mutant: the file of a failed attempt is left to a later one.
DropNothing(i, removed) == UNCHANGED partVars

\* A PendingDownloadFile dropped unpublished removes its file, best-effort: a
\* failure is ignored and the file stays.
DropPart(i, removed) ==
    /\ partFiles' = partFiles \ {i}
    /\ strayParts' = IF removed THEN strayParts ELSE strayParts + 1

\* remove_stale_dependency_root and remove_skill_private_dependency_root
StaleRemoved(i, v) == [installRoots EXCEPT ![i][v] = NoExports]
PrivateRemoved(i) == [installRoots EXCEPT ![i] = [v \in Versions |-> NoExports]]

SetRoot(i, files) == installRoots' = [installRoots EXCEPT ![i][job[i].version] = files]
----------------------------------------------------------------------------
(* Loading a skill.                                                        *)

\* ensure_skill_dependencies: the manifest names version, source, archive and checksum.
EnsureDependency(i, v, source, archive, declared) ==
    /\ job[i].at = "idle"
    /\ loads[i] < MaxLoads
    /\ declared \in {NoSum, v}
    /\ job' = [job EXCEPT ![i] = [IdleJob EXCEPT !.at = "probe", !.version = v,
                                  !.source = source, !.archive = archive, !.sum = declared]]
    /\ loads' = [loads EXCEPT ![i] = @ + 1]
    /\ UNCHANGED <<payloadCache, indexCache, targetLock, httpTasks, httpRunning, partVars, installRoots,
                   downloadFaults>>

\* find_existing_local_dependency_request; a missing host dependency is an error.
ProbeLocal(i) ==
    /\ job[i].at = "probe"
    /\ IF Detected(WantedRoot(i)) THEN Answers(i, "present")
       ELSE IF job[i].source = "host" THEN Answers(i, "error")
       ELSE InstallerMoves(i, IF job[i].source = "bundled" THEN "bundled"
                     ELSE IF job[i].source = "skilllist" THEN "index" ELSE "resolve")
    /\ UNCHANGED <<payloadCache, indexCache, targetLock, httpTasks, httpRunning, partVars, installRoots, loads,
                   downloadFaults>>

\* fetch_skilllist_index: a published text is reused for ever, whatever it contains.
FetchIndex(i) ==
    /\ job[i].at = "index"
    /\ \E text \in IF indexCache # "none" THEN {indexCache} ELSE {"good", "garbage", "none"} :
        /\ Failing(IF indexCache = "none" /\ text # "good" THEN 1 ELSE 0)
        /\ indexCache' = text
        /\ IF text = "good" THEN InstallerMoves(i, "resolve") ELSE Answers(i, "error")
    /\ UNCHANGED <<payloadCache, targetLock, httpTasks, httpRunning, partVars, installRoots, loads>>

\* resolve_dependency_request: the release may report a checksum of its own.
ResolveRequest(i) ==
    /\ job[i].at = "resolve"
    /\ \E reported \in {NoSum, job[i].version, Garbage} :
        /\ Failing(IF reported = Garbage THEN 1 ELSE 0)
        /\ IF SumsAgree(job[i].sum, reported)
           THEN job' = [job EXCEPT ![i].at = "lock", ![i].round = 1,
                                   ![i].sum = ExpectedSum(@, reported)]
           ELSE Answers(i, "error")
    /\ UNCHANGED <<payloadCache, indexCache, targetLock, httpTasks, httpRunning, partVars, installRoots, loads>>

\* resolve_github_release fails: no such tag, no such asset, no network.
ResolveFails(i) ==
    /\ job[i].at = "resolve"
    /\ Failing(1)
    /\ Answers(i, "error")
    /\ UNCHANGED <<payloadCache, indexCache, targetLock, httpTasks, httpRunning, partVars, installRoots, loads>>
----------------------------------------------------------------------------
(* download_internal.                                                      *)

TargetFree(i) == targetLock = NoInstaller

\* shared_download_target_lock: one thread of the process works on a cache path at a time.
LockTarget(i) ==
    /\ job[i].at = "lock"
    /\ TargetFree(i)
    /\ targetLock' = i
    /\ InstallerMoves(i, "lookup")
    /\ UNCHANGED <<payloadCache, indexCache, httpTasks, httpRunning, partVars, installRoots, loads, downloadFaults>>

\* Without a checksum the published payload is taken as it is.
CacheHit(i) == payloadCache # NoFile /\ Verifies(payloadCache, job[i].sum)

LookUpCache(i) ==
    /\ job[i].at = "lookup"
    /\ job' = [job EXCEPT ![i].at = IF CacheHit(i) THEN "return" ELSE "submit",
                          ![i].attempts = Attempts(job[i].sum, payloadCache)]
    /\ UNCHANGED <<payloadCache, indexCache, targetLock, httpTasks, httpRunning, partVars, installRoots, loads,
                   downloadFaults>>

\* run_http_task: the bounded queue blocks the caller while it is full.
SubmitTask(i) ==
    /\ job[i].at = "submit"
    /\ Len(httpTasks) < HttpQueue
    /\ httpTasks' = Append(httpTasks, i)
    /\ InstallerMoves(i, "await")
    /\ UNCHANGED <<payloadCache, indexCache, targetLock, httpRunning, partVars, installRoots, loads,
                   downloadFaults>>

\* run_download_http_worker takes the next task and opens its temporary file.
StartTask ==
    /\ httpTasks # <<>>
    /\ Cardinality(httpRunning) < HttpWorkers
    /\ LET i == Head(httpTasks)
       IN /\ httpRunning' = httpRunning \union {i}
          /\ OpenPart(i)
          /\ InstallerMoves(i, "stream")
    /\ httpTasks' = Tail(httpTasks)
    /\ UNCHANGED <<payloadCache, indexCache, targetLock, strayParts, installRoots, loads, downloadFaults>>

NestedAccepted == FALSE

\* A download started by a progress callback is refused, which ends the callback.
NestedRefused == TRUE

\* invoke_download_progress_callback: the host's callback asks for another download.
ProgressCallback(i) ==
    /\ job[i].at = "stream"
    /\ InstallerMoves(i, IF NestedRefused THEN "tail" ELSE "nested")
    /\ UNCHANGED <<payloadCache, indexCache, targetLock, httpTasks, httpRunning, partVars, installRoots, loads,
                   downloadFaults>>

\* The nested download would wait for the lock of the download that waits for it.
NestedDownload(i) ==
    /\ job[i].at = "nested"
    /\ TargetFree(i)
    /\ InstallerMoves(i, "tail")
    /\ UNCHANGED <<payloadCache, indexCache, targetLock, httpTasks, httpRunning, partVars, installRoots, loads,
                   downloadFaults>>

\* stream_download_to_temp_file ends; a dropped PendingDownloadFile removes its file.
EndTask(i) ==
    /\ job[i].at \in {"stream", "tail"}
    /\ httpRunning' = httpRunning \ {i}
    /\ \E got \in {job[i].version, Garbage, NoFile}, removed \in BOOLEAN :
        /\ Failing((IF got = job[i].version THEN 0 ELSE 1) + (IF removed THEN 0 ELSE 1))
        /\ IF got # NoFile /\ Verifies(got, job[i].sum)
           THEN /\ removed
                /\ job' = [job EXCEPT ![i].at = "publish", ![i].got = got]
                /\ UNCHANGED partVars
           ELSE /\ job' = [job EXCEPT ![i].at = IF got # NoFile /\ job[i].attempts > 1
                                                THEN "submit" ELSE "failed",
                                      ![i].attempts = @ - 1]
                /\ DropPart(i, removed)
    /\ UNCHANGED <<payloadCache, indexCache, targetLock, httpTasks, installRoots, loads>>

\* publish replaces the cache file atomically.
PublishPart(i) ==
    /\ job[i].at = "publish"
    /\ payloadCache' = job[i].got
    /\ partFiles' = partFiles \ {i}
    /\ InstallerMoves(i, "return")
    /\ UNCHANGED <<indexCache, targetLock, httpTasks, httpRunning, strayParts, installRoots, loads, downloadFaults>>

PublishFails(i) ==
    /\ job[i].at = "publish"
    /\ \E removed \in BOOLEAN :
        /\ Failing(IF removed THEN 1 ELSE 2)
        /\ DropPart(i, removed)
    /\ InstallerMoves(i, "failed")
    /\ UNCHANGED <<payloadCache, indexCache, targetLock, httpTasks, httpRunning, installRoots, loads>>

\* The path is returned and the target's mutex released.
ReturnPath(i) ==
    /\ job[i].at \in {"return", "failed"}
    /\ targetLock' = NoInstaller
    /\ IF job[i].at = "return" THEN InstallerMoves(i, "install") ELSE Answers(i, "error")
    /\ UNCHANGED <<payloadCache, indexCache, httpTasks, httpRunning, partVars, installRoots, loads, downloadFaults>>
----------------------------------------------------------------------------
(* Installing.                                                             *)

\* install_downloaded_payload opens whatever the cache path holds by now.
InstallPayload(i) ==
    /\ job[i].at = "install"
    /\ \E outcomes \in {InstallOutcomes(job[i].archive, payloadCache, WantedRoot(i))} :
       \E outcome \in outcomes :
        /\ Failing(Costs(outcomes, outcome))
        /\ SetRoot(i, outcome.files)
        /\ IF outcome.ok THEN InstallerMoves(i, "detect")
           ELSE IF job[i].round = 1 THEN InstallerMoves(i, "cleanup") ELSE Answers(i, "error")
    /\ UNCHANGED <<payloadCache, indexCache, targetLock, httpTasks, httpRunning, partVars, loads>>

\* cleanup_failed_dependency_install_attempt takes no lock; then the download once more.
CleanupFailedInstall(i) ==
    /\ job[i].at = "cleanup"
    /\ payloadCache' = NoFile
    /\ SetRoot(i, NoExports)
    /\ job' = [job EXCEPT ![i].at = "lock", ![i].round = 2]
    /\ UNCHANGED <<indexCache, targetLock, httpTasks, httpRunning, partVars, loads, downloadFaults>>

DetectInstalled(i) ==
    /\ job[i].at = "detect"
    /\ Answers(i, IF Detected(WantedRoot(i)) THEN "installed" ELSE "error")
    /\ UNCHANGED <<payloadCache, indexCache, targetLock, httpTasks, httpRunning, partVars, installRoots, loads,
                   downloadFaults>>

\* install_bundled_dependency takes the payload from the skill's own directory.
InstallBundled(i) ==
    /\ job[i].at = "bundled"
    /\ \E outcomes \in {InstallOutcomes(job[i].archive, job[i].version, WantedRoot(i))} :
       \E outcome \in outcomes :
        /\ Failing(Costs(outcomes, outcome))
        /\ SetRoot(i, IF outcome.ok THEN outcome.files ELSE NoExports)
        /\ IF outcome.ok THEN InstallerMoves(i, "detect") ELSE Answers(i, "error")
    /\ UNCHANGED <<payloadCache, indexCache, targetLock, httpTasks, httpRunning, partVars, loads>>

\* cleanup_updated_skill_dependencies: the new manifest names another version.
CleanupUpdated(i, old) ==
    /\ job[i].at = "idle"
    /\ job[i].answer \in {"present", "installed"}
    /\ old # job[i].version
    /\ installRoots[i][old] # NoExports
    /\ installRoots' = StaleRemoved(i, old)
    /\ UNCHANGED <<payloadCache, indexCache, targetLock, httpTasks, httpRunning, partVars, job, loads,
                   downloadFaults>>

\* cleanup_uninstalled_skill_dependencies removes every private root of the skill.
CleanupUninstalled(i) ==
    /\ job[i].at = "idle"
    /\ job[i].answer # "none"
    /\ installRoots' = PrivateRemoved(i)
    /\ job' = [job EXCEPT ![i] = IdleJob]
    /\ UNCHANGED <<payloadCache, indexCache, targetLock, httpTasks, httpRunning, partVars, loads,
                   downloadFaults>>

\* The process is killed: its threads, queue and mutexes are gone; no Drop runs,
\* so its temporary files stay, and the next process, whose names differ, never
\* looks for them.
CrashProcess ==
    /\ \E i \in Installers : job[i].at # "idle"
    /\ Failing(1)
    /\ job' = [i \in Installers |-> IdleJob]
    /\ targetLock' = NoInstaller
    /\ httpTasks' = <<>>
    /\ httpRunning' = {}
    /\ partFiles' = {}
    /\ strayParts' = strayParts + Cardinality(partFiles)
    /\ UNCHANGED <<payloadCache, indexCache, installRoots, loads>>

InstallerStep(i) ==
    \/ ProbeLocal(i) \/ FetchIndex(i) \/ ResolveRequest(i) \/ ResolveFails(i)
    \/ LockTarget(i) \/ LookUpCache(i) \/ SubmitTask(i)
    \/ ProgressCallback(i) \/ NestedDownload(i) \/ EndTask(i)
    \/ PublishPart(i) \/ PublishFails(i) \/ ReturnPath(i)
    \/ InstallPayload(i) \/ CleanupFailedInstall(i) \/ DetectInstalled(i) \/ InstallBundled(i)

DownloadsNext ==
    \/ \E i \in Installers : InstallerStep(i)
    \/ StartTask
    \/ CrashProcess
    \/ \E i \in Installers, v \in Versions, source \in Sources :
        \E archive \in ArchivesOf[v], declared \in {NoSum, v} : EnsureDependency(i, v, source, archive, declared)
    \/ \E i \in Installers, old \in Versions : CleanupUpdated(i, old)
    \/ \E i \in Installers : CleanupUninstalled(i)

----------------------------------------------------------------------------
\* The variables keep their types.
DownloadsTypeOK ==
    /\ payloadCache \in Payloads \union {NoFile}
    /\ indexCache \in {"none", "good", "garbage"}
    /\ targetLock \in Installers \union {NoInstaller}
    /\ httpTasks \in Seq(Installers)
    /\ httpRunning \subseteq Installers
    /\ partFiles \subseteq Installers
    /\ strayParts \in Nat
    /\ installRoots \in [Installers -> [Versions -> [ExportSets -> Payloads \union {NoFile, Torn}]]]
    /\ \A i \in Installers : job[i].version \in Versions /\ job[i].sum \in Versions \union {NoSum, Garbage}
    /\ loads \in [Installers -> 0..MaxLoads]
    /\ downloadFaults \in 0..MaxDownloadFaults

(* While its mutex is held, the path handed to a caller that named a        *)
(* checksum holds that payload, or nothing when another load has just       *)
(* removed it.  A temporary file is owned exactly by an attempt in          *)
(* progress, so no way out of an attempt forgets its file: files are left   *)
(* behind only by a killed process or a removal that failed                 *)
(* (download_internal, PendingDownloadFile::drop).                          *)
CacheSound ==
    /\ \A i \in Installers :
        job[i].at = "return" /\ job[i].sum # NoSum =>
            payloadCache \in {job[i].sum, NoFile}
    /\ partFiles = {i \in Installers : job[i].at \in {"stream", "nested", "tail", "publish"}}
    /\ downloadFaults = 0 => strayParts = 0
    /\ httpRunning \subseteq partFiles
    /\ Cardinality(httpRunning) <= HttpWorkers

(* No load is stuck, although downloads share one mutex per path and a      *)
(* fixed number of workers, and callbacks may ask for downloads             *)
(* (run_http_task, active_download_progress_target).                        *)
LoadsGoOn ==
    (\E i \in Installers : job[i].at # "idle") =>
        ENABLED (StartTask \/ \E i \in Installers : InstallerStep(i))

(* Does not hold: a dependency reported as installed or present should be   *)
(* the wanted version, but the cache key of an archive has no version.      *)
InstalledIsWanted ==
    \A i \in Installers :
        job[i].at = "idle" /\ job[i].answer \in {"present", "installed"} =>
            \A e \in ExportSets : WantedRoot(i)[e] = job[i].version
============================================================================
