---------------------------- MODULE ConfigStore ----------------------------
(***************************************************************************)
(* The package configuration store of one scope (runtime/config.rs) and    *)
(* the service above it (runtime/config_service.rs), shared by several     *)
(* engines, each in a process of its own.  The document is one file that   *)
(* is replaced atomically; writers of all processes exclude each other     *)
(* with a companion lock file, threads of one process with a path mutex.   *)
(* Every engine answers reads from a cached snapshot, which its own writes *)
(* and the reloads of its file watcher replace.                            *)
(*                                                                         *)
(* The name of a value, a key or a schema is opaque.  Debouncing is a      *)
(* delay of any length between a file event and the refresh it causes.     *)
(*                                                                         *)
(* At the end, on its own state, the bounded queue of configuration events *)
(* of one engine: publishers append under a lock that also numbers the     *)
(* event, hosts poll with the cursor of their last batch.  A reload of the *)
(* engine replaces the service, and with it the queue.                     *)
(***************************************************************************)
EXTENDS Naturals, FiniteSets, Sequences, SequencesExt

CONSTANTS Engines,          \* one engine per process
          ConfigKeys,       \* keys of the package
          ConfigValues,     \* stored texts
          Schemas,          \* declarations a loaded package may have
          MaxRevision,      \* bound on the revisions written
          MaxConfigFaults   \* bound on failing steps

VARIABLES disk,      \* the document in the file; revision 0 is no file
          durable,   \* the document a power loss leaves behind
          cache,     \* each engine's last valid snapshot
          pathLock,  \* who holds the process's path mutex
          fileLock,  \* the engine that holds the companion lock file
          api,       \* the management call each engine is executing
          watcher,   \* the reload each engine's watcher is executing
          hint,      \* a file event is pending
          missed,    \* the last change of the file came before the watcher
          failed,    \* a reload_failed event was published
          acked,     \* the highest revision a changing call reported as committed
          faults     \* failing steps so far

configVars == <<disk, durable, cache, pathLock, fileLock, api, watcher, hint, missed,
                failed, acked, faults>>

Unset == "unset"
NoHolder == "nobody"
AnyRevision == MaxRevision + 1   \* the caller expects no particular revision
Texts == ConfigValues \union {Unset}
Document == [revision : 0..MaxRevision, values : [ConfigKeys -> Texts]]
Missing == [revision |-> 0, values |-> [k \in ConfigKeys |-> Unset]]

IdleCall == [at |-> "idle"]
IdleReload == [at |-> "idle"]
NoWatcher == [at |-> "off"]
OpeningCall == [at |-> "opening"]
----------------------------------------------------------------------------
(* Declarations: effective values and the package status.                  *)

\* A stored text that the declaration refuses makes the key invalid.
NormalizedValue(schema, values, k) ==
    IF values[k] # Unset
    THEN IF values[k] \in schema.accepts[k] THEN values[k] ELSE "invalid"
    ELSE schema.default[k]

\* list_effective_values stops at the first invalid declared value.
EffectiveFails(schema, values) ==
    \E k \in schema.declared : NormalizedValue(schema, values, k) = "invalid"

EffectiveValues(schema, values) ==
    [k \in {d \in schema.declared : NormalizedValue(schema, values, d) # Unset} |->
        NormalizedValue(schema, values, k)]

\* The validator script sees the effective values; it cannot run on an invalid one.
ValidatorRefuses(schema, values) ==
    /\ schema.validator
    /\ \/ EffectiveFails(schema, values)
       \/ EffectiveValues(schema, values) \in schema.rejects

MissingKeys(schema, values) ==
    {k \in schema.declared \intersect schema.required :
        values[k] = Unset /\ schema.default[k] = Unset}

InvalidKeys(schema, values) ==
    {k \in schema.declared : values[k] # Unset /\ values[k] \notin schema.accepts[k]}

\* status_for_package runs the validator only when no stored value is invalid.
Complete(schema, values) ==
    /\ MissingKeys(schema, values) = {}
    /\ InvalidKeys(schema, values) = {}
    /\ ~ValidatorRefuses(schema, values)

\* describe_item without a business issue.
Satisfied(schema, values, k) ==
    LET value == NormalizedValue(schema, values, k)
    IN  IF values[k] # Unset THEN value # "invalid"
        ELSE value # Unset \/ k \notin schema.required
----------------------------------------------------------------------------
(* The store.                                                              *)

ChangedKeys(before, after) == {k \in ConfigKeys : before.values[k] # after.values[k]}

\* validate_snapshot_progression; the digest identifies the document.
Progresses(current, candidate) ==
    /\ candidate.revision >= current.revision
    /\ candidate.revision = current.revision => candidate = current

Applied(call, values) ==
    [k \in ConfigKeys |-> IF k \in DOMAIN call.batch THEN call.batch[k] ELSE values[k]]

\* Every engine has opened the store before there was a file; RestartEngine opens it
\* again.
ConfigInit ==
    /\ disk = Missing /\ durable = Missing
    /\ cache = [e \in Engines |-> Missing]
    /\ pathLock = [e \in Engines |-> NoHolder]
    /\ fileLock = NoHolder
    /\ api = [e \in Engines |-> IdleCall]
    /\ watcher = [e \in Engines |-> IdleReload]
    /\ hint = [e \in Engines |-> FALSE]
    /\ missed = [e \in Engines |-> FALSE]
    /\ failed = [e \in Engines |-> FALSE]
    /\ acked = 0 /\ faults = 0

\* Snapshots are installed under the path mutex and announced after it is released.
Install(e, document) == cache' = [cache EXCEPT ![e] = document]

\* The bound on revisions: a call starts only when every call under way may still commit.
RevisionsLeft ==
    disk.revision + Cardinality({e \in Engines : api[e].at \in {"file", "replace"}})
        < MaxRevision

\* set_declared_values: every key declared, every value normalized, against the
\* registry entry cloned when the call starts; a skill reload may replace the registry at
\* any time, so the entry is any schema.  The call then holds the process's path mutex.
BeginSet(e, batch, schema, expected) ==
    /\ api[e].at = "idle" /\ pathLock[e] = NoHolder
    /\ RevisionsLeft
    /\ \A k \in DOMAIN batch : k \in schema.declared /\ batch[k] \in schema.accepts[k]
    /\ pathLock' = [pathLock EXCEPT ![e] = "api"]
    /\ api' = [api EXCEPT ![e] = [at |-> "file", kind |-> "set", batch |-> batch,
                                  expected |-> expected, package |-> schema]]
    /\ UNCHANGED <<disk, durable, cache, fileLock, watcher, hint, missed, failed,
                   acked, faults>>

\* delete_raw_value: the key need not be declared and no validator runs.
BeginDelete(e, k, expected) ==
    /\ api[e].at = "idle" /\ pathLock[e] = NoHolder
    /\ RevisionsLeft
    /\ pathLock' = [pathLock EXCEPT ![e] = "api"]
    /\ api' = [api EXCEPT ![e] = [at |-> "file", kind |-> "delete",
                                  batch |-> [d \in {k} |-> Unset], expected |-> expected]]
    /\ UNCHANGED <<disk, durable, cache, fileLock, watcher, hint, missed, failed,
                   acked, faults>>

FileLockFreeAlways == TRUE

\* The companion lock excludes the writers of every process.
FileLockFree == fileLock = NoHolder

FileLockTimesOut(e) ==
    /\ api[e].at = "file" /\ fileLock # NoHolder
    /\ pathLock' = [pathLock EXCEPT ![e] = NoHolder]
    /\ api' = [api EXCEPT ![e] = IdleCall]
    /\ UNCHANGED <<disk, durable, cache, fileLock, watcher, hint, missed, failed,
                   acked, faults>>

\* Under the companion lock no other engine replaces the file, so taking the lock and
\* reading are one step.  These early returns release both locks and install nothing.
RefusedBy(call, current) ==
    \/ ~Progresses(current, disk)
    \/ call.expected # AnyRevision /\ call.expected # disk.revision
    \/ call.kind = "set" /\ ValidatorRefuses(call.package, Applied(call, disk.values))

ReadAndRefuse(e) ==
    /\ api[e].at = "file" /\ FileLockFree /\ RefusedBy(api[e], cache[e])
    /\ pathLock' = [pathLock EXCEPT ![e] = NoHolder]
    /\ api' = [api EXCEPT ![e] = IdleCall]
    /\ UNCHANGED <<disk, durable, cache, fileLock, watcher, hint, missed, failed,
                   acked, faults>>

\* A call that changes nothing installs what it read and reports that revision.
ReadUnchanged(e) ==
    /\ api[e].at = "file" /\ FileLockFree /\ ~RefusedBy(api[e], cache[e])
    /\ Applied(api[e], disk.values) = disk.values
    /\ Install(e, disk)
    /\ pathLock' = [pathLock EXCEPT ![e] = NoHolder]
    /\ api' = [api EXCEPT ![e] = IdleCall]
    /\ UNCHANGED <<disk, durable, fileLock, watcher, hint, missed, failed, acked,
                   faults>>

ReadForChange(e) ==
    /\ api[e].at = "file" /\ FileLockFree /\ ~RefusedBy(api[e], cache[e])
    /\ Applied(api[e], disk.values) # disk.values
    /\ fileLock' = e
    /\ api' = [api EXCEPT ![e] =
                 [at |-> "replace",
                  keys |-> {k \in DOMAIN @.batch : @.batch[k] # disk.values[k]},
                  document |-> [revision |-> disk.revision + 1,
                                values |-> Applied(@, disk.values)]]]
    /\ UNCHANGED <<disk, durable, cache, pathLock, watcher, hint, missed, failed,
                   acked, faults>>

\* write_document_to up to the rename; every registered watcher of the directory gets
\* an event.
ReplaceFile(e) ==
    /\ api[e].at = "replace"
    /\ disk' = api[e].document
    /\ hint' = [x \in Engines |-> watcher[x].at # "off"]
    /\ missed' = [x \in Engines |-> api[x].at = "opening"]
    /\ api' = [api EXCEPT ![e].at = "sync"]
    /\ UNCHANGED <<durable, cache, pathLock, fileLock, watcher, failed,
                   acked, faults>>

ReplaceFails(e) ==
    /\ api[e].at = "replace" /\ faults < MaxConfigFaults
    /\ faults' = faults + 1
    /\ pathLock' = [pathLock EXCEPT ![e] = NoHolder]
    /\ fileLock' = NoHolder
    /\ api' = [api EXCEPT ![e] = IdleCall]
    /\ UNCHANGED <<disk, durable, cache, watcher, hint, missed, failed, acked>>

ReportsCommitAnyway(synced) == TRUE

\* The call answers with an error when the directory could not be synced.
ReportsCommit(synced) == synced

\* The committed snapshot is installed whether or not the directory could be synced.
SyncDirectory(e, synced) ==
    /\ api[e].at = "sync"
    /\ ~synced => faults < MaxConfigFaults
    /\ faults' = IF synced THEN faults ELSE faults + 1
    /\ durable' = IF synced THEN disk ELSE durable
    /\ Install(e, api[e].document)
    /\ pathLock' = [pathLock EXCEPT ![e] = NoHolder]
    /\ fileLock' = NoHolder
    /\ api' = [api EXCEPT ![e] = [at |-> "publish", kind |-> "write",
                                  revision |-> @.document.revision,
                                  reported |-> ReportsCommit(synced)]]
    /\ UNCHANGED <<disk, watcher, hint, missed, failed, acked>>

\* finish_local_write and finish_local_delete: the event, then the answer.
PublishLocal(e) ==
    /\ api[e].at = "publish" /\ api[e].kind = "write"
    /\ acked' = IF api[e].reported /\ api[e].revision > acked THEN api[e].revision ELSE acked
    /\ api' = [api EXCEPT ![e] = IdleCall]
    /\ UNCHANGED <<disk, durable, cache, pathLock, fileLock, watcher, hint, missed,
                   failed, faults>>
----------------------------------------------------------------------------
(* Reloads: by the host and by the watcher's worker.                        *)

ReloadedNextOnly(e) == disk.revision = cache[e].revision + 1

\* SkillConfigStore::refresh reads the file under the path mutex, without the companion
\* lock; it holds the mutex for this one step.
Reloaded(e) == Progresses(cache[e], disk) /\ disk.revision # cache[e].revision

ReloadByApi(e) ==
    /\ api[e].at = "idle" /\ pathLock[e] = NoHolder
    /\ IF Reloaded(e) THEN Install(e, disk) ELSE UNCHANGED cache
    /\ api' = [api EXCEPT ![e] =
                 IF Progresses(cache[e], disk)
                 THEN [at |-> "publish", kind |-> "refresh"]
                 ELSE [at |-> "publish", kind |-> "failure"]]
    /\ UNCHANGED <<disk, durable, pathLock, fileLock, watcher, hint, missed, failed,
                   acked, faults>>

PublishReload(e) ==
    /\ api[e].at = "publish" /\ api[e].kind \in {"refresh", "failure"}
    /\ failed' = [failed EXCEPT ![e] = @ \/ api[e].kind = "failure"]
    /\ api' = [api EXCEPT ![e] = IdleCall]
    /\ UNCHANGED <<disk, durable, cache, pathLock, fileLock, watcher, hint, missed,
                   acked, faults>>

\* The worker takes the pending batch, then waits for the path mutex.
PendingTaken(e) == [hint EXCEPT ![e] = FALSE]

WatchDue(e) ==
    /\ watcher[e].at = "idle" /\ hint[e]
    /\ hint' = PendingTaken(e)
    /\ watcher' = [watcher EXCEPT ![e] = [at |-> "mutex"]]
    /\ UNCHANGED <<disk, durable, cache, pathLock, fileLock, api, missed, failed,
                   acked, faults>>

WatchReload(e) ==
    /\ watcher[e].at = "mutex" /\ pathLock[e] = NoHolder
    /\ IF Reloaded(e) THEN Install(e, disk) ELSE UNCHANGED cache
    /\ watcher' = [watcher EXCEPT ![e] =
                     [at |-> "publish", failure |-> ~Progresses(cache[e], disk)]]
    /\ UNCHANGED <<disk, durable, pathLock, fileLock, api, hint, missed, failed, acked,
                   faults>>

WatchPublish(e) ==
    /\ watcher[e].at = "publish"
    /\ failed' = [failed EXCEPT ![e] = @ \/ watcher[e].failure]
    /\ watcher' = [watcher EXCEPT ![e] = IdleReload]
    /\ UNCHANGED <<disk, durable, cache, pathLock, fileLock, api, hint, missed, acked,
                   faults>>

\* A backend error replaces whatever was pending: the worker publishes the failure
\* and does not reload.
WatchBackendFails(e) ==
    /\ watcher[e].at = "idle" /\ faults < MaxConfigFaults
    /\ faults' = faults + 1
    /\ hint' = [hint EXCEPT ![e] = FALSE]
    /\ failed' = [failed EXCEPT ![e] = TRUE]
    /\ UNCHANGED <<disk, durable, cache, pathLock, fileLock, api, watcher, missed,
                   acked>>
----------------------------------------------------------------------------
(* Processes and the machine may stop.                                     *)

\* SkillPackageConfigService::new registers the watcher after it has read the file, and
\* does not read it again; a backend that cannot start is published as a failure.  A
\* host may also open an engine without a watcher: such an engine is not modelled.
StartWatcher(e) ==
    /\ api[e].at = "opening"
    /\ api' = [api EXCEPT ![e] = IdleCall]
    /\ \/ /\ watcher' = [watcher EXCEPT ![e] = IdleReload]
          /\ UNCHANGED failed
       \/ /\ failed' = [failed EXCEPT ![e] = TRUE]
          /\ UNCHANGED watcher
    /\ UNCHANGED <<disk, durable, cache, pathLock, fileLock, hint, missed, acked,
                   faults>>

\* A new process opens the store and reads the file; the old one's locks are gone.
RestartEngine(e) ==
    /\ faults < MaxConfigFaults
    /\ faults' = faults + 1
    /\ cache' = [cache EXCEPT ![e] = disk]
    /\ pathLock' = [pathLock EXCEPT ![e] = NoHolder]
    /\ fileLock' = IF fileLock = e THEN NoHolder ELSE fileLock
    /\ api' = [api EXCEPT ![e] = OpeningCall]
    /\ watcher' = [watcher EXCEPT ![e] = NoWatcher]
    /\ hint' = [hint EXCEPT ![e] = FALSE]
    /\ missed' = [missed EXCEPT ![e] = FALSE]
    /\ failed' = [failed EXCEPT ![e] = FALSE]
    /\ UNCHANGED <<disk, durable, acked>>

\* A rename whose directory was never synced may or may not survive.
PowerLoss(survivor) ==
    /\ faults < MaxConfigFaults
    /\ survivor \in {disk, durable}
    /\ faults' = faults + 1
    /\ disk' = survivor /\ durable' = survivor
    /\ cache' = [e \in Engines |-> survivor]
    /\ pathLock' = [e \in Engines |-> NoHolder]
    /\ fileLock' = NoHolder
    /\ api' = [e \in Engines |-> OpeningCall]
    /\ watcher' = [e \in Engines |-> NoWatcher]
    /\ hint' = [e \in Engines |-> FALSE]
    /\ missed' = [e \in Engines |-> FALSE]
    /\ failed' = [e \in Engines |-> FALSE]
    /\ UNCHANGED acked
----------------------------------------------------------------------------
Batches == UNION {[K -> ConfigValues] : K \in SUBSET ConfigKeys \ {{}}}
\* A client expects nothing, or the revision this engine shows now; one it showed
\* earlier is refused like one that another engine overtakes before the file is read.
Expectations(e) == {AnyRevision, cache[e].revision}

ApiStep(e) ==
    \/ StartWatcher(e)
    \/ FileLockTimesOut(e) \/ ReadAndRefuse(e) \/ ReadUnchanged(e) \/ ReadForChange(e)
    \/ ReplaceFile(e) \/ \E synced \in BOOLEAN : SyncDirectory(e, synced)
    \/ PublishLocal(e) \/ PublishReload(e)

WatchStep(e) == WatchReload(e) \/ WatchPublish(e)

ConfigNext ==
    \/ \E e \in Engines, b \in Batches, s \in Schemas :
          \E x \in Expectations(e) : BeginSet(e, b, s, x)
    \/ \E e \in Engines, k \in ConfigKeys : \E x \in Expectations(e) : BeginDelete(e, k, x)
    \/ \E e \in Engines : ReloadByApi(e) \/ ApiStep(e) \/ ReplaceFails(e)
    \/ \E e \in Engines : WatchDue(e) \/ WatchStep(e) \/ WatchBackendFails(e)
    \/ \E e \in Engines : RestartEngine(e)
    \/ \E survivor \in {disk, durable} : PowerLoss(survivor)

\* A thread that can run runs, and a waiting thread gets the path mutex in the end:
\* management calls are finite and the operating system's mutex does not starve it.
ConfigFairness ==
    \A e \in Engines :
        /\ WF_configVars(ApiStep(e)) /\ WF_configVars(WatchDue(e))
        /\ WF_configVars(WatchStep(e)) /\ SF_configVars(WatchReload(e))
----------------------------------------------------------------------------
\* The variables keep their types.
ConfigTypeOK ==
    /\ disk \in Document /\ durable \in Document
    /\ cache \in [Engines -> Document]
    /\ pathLock \in [Engines -> {NoHolder, "api"}]
    /\ fileLock \in Engines \union {NoHolder}
    /\ \A e \in Engines :
         /\ api[e].at \in {"opening", "idle", "file", "replace", "sync", "publish"}
         /\ watcher[e].at \in {"off", "idle", "mutex", "publish"}
    /\ hint \in [Engines -> BOOLEAN] /\ missed \in [Engines -> BOOLEAN]
    /\ failed \in [Engines -> BOOLEAN]
    /\ acked \in 0..MaxRevision
    /\ faults \in 0..MaxConfigFaults

\* No snapshot is ahead of the file or differs from it at the same revision, so no
\* engine can meet a regression or a conflict that only the engines themselves caused;
\* a changing write that was answered without an error survives a power loss; and a
\* package reported complete has every required value and no value the readers refuse.
ConfigAgrees ==
    /\ \A e \in Engines : Progresses(cache[e], disk)
    /\ acked <= disk.revision /\ acked <= durable.revision
    /\ \A e \in Engines, s \in Schemas :
         Complete(s, cache[e].values) =>
            /\ ~EffectiveFails(s, cache[e].values)
            /\ s.declared \intersect s.required
                 \subseteq DOMAIN EffectiveValues(s, cache[e].values)
            /\ \A k \in s.declared : Satisfied(s, cache[e].values, k)

\* Replacing the file never drops what another engine committed: a replacement is the
\* next revision of the document it replaces and differs only in the keys of the call;
\* going back to an older revision is the work of a power loss alone.
KeepsUpdates ==
    /\ disk'.revision > disk.revision =>
         \E e \in Engines :
            /\ api[e].at = "replace" /\ api'[e].at = "sync"
            /\ disk'.revision = disk.revision + 1
            /\ ChangedKeys(disk, disk') = api[e].keys
    /\ (disk' # disk /\ disk'.revision <= disk.revision) => disk' = durable

\* An engine whose snapshot is behind the file catches up, or publishes the failure
\* that tells its host to refresh (flush_due_skill_config_watch_targets), unless the
\* last change fell between its first read and the registration of its watcher.
CachesConverge ==
    \A e \in Engines : (cache[e] # disk) ~> (cache[e] = disk \/ failed[e] \/ missed[e])

\* Does not hold: a change that another process commits between the first read and the
\* registration of the watcher stays unseen until the next change or refresh.
NoChangeMissed ==
    \A e \in Engines : (cache[e] # disk) ~> (cache[e] = disk \/ failed[e])

\* Does not hold: a management call that installs a snapshot should name in its event
\* every key whose cached value changed, but a write that also loads another process's
\* change names only its own keys.
EveryChangeAnnounced ==
    \A e \in Engines :
        (api[e].at \in {"file", "sync"} /\ api'[e].at # "opening" /\ cache'[e] # cache[e]) =>
            api[e].at = "sync" /\ ChangedKeys(cache[e], cache'[e]) \subseteq api[e].keys
----------------------------------------------------------------------------
(* The event queue.                                                        *)

CONSTANTS QueueCapacity,   \* SKILL_CONFIG_EVENT_QUEUE_CAPACITY
          PollLimit,       \* SKILL_CONFIG_MAX_EVENT_POLL_LIMIT
          LastSequence,    \* the largest sequence number, u64::MAX
          MaxReloads       \* bound: reloads of the engine

ASSUME EventQueueAssumption ==
  /\ QueueCapacity \in Nat \ {0} /\ PollLimit \in Nat \ {0}
  /\ LastSequence \in Nat /\ MaxReloads \in Nat

VARIABLES
  configQueue,    \* retained events, oldest first
  configSequence, \* number of the last event
  configEpoch,    \* reloads so far
  poller          \* the host: its cursor, the service it came from, where it
                  \* started in that service and what it was told since

eventQueueVars == <<configQueue, configSequence, configEpoch, poller>>

EventQueueInit ==
  /\ configQueue = <<>> /\ configSequence = 0 /\ configEpoch = 0
  /\ poller = [cursor |-> 0, epoch |-> 0, from |-> 0, told |-> {}]

\* The oldest events make room.
KeepNewest(events) ==
  IF Len(events) > QueueCapacity THEN SubSeq(events, Len(events) - QueueCapacity + 1, Len(events))
  ELSE events

\* publish: numbered and appended in one critical section; after the last
\* number nothing is accepted any more.
PublishEvent ==
  /\ configSequence < LastSequence
  /\ configSequence' = configSequence + 1
  /\ configQueue' = KeepNewest(Append(configQueue, configSequence'))
  /\ UNCHANGED <<configEpoch, poller>>

CursorExpiredLate(after) == configQueue # <<>> /\ after + 2 < Head(configQueue)
CursorExpired(after) == configQueue # <<>> /\ after + 1 < Head(configQueue)
CursorInvalid(after) == after > configSequence

Batch(after, limit) ==
  LET newer == SelectSeq(configQueue, LAMBDA e : e > after)
  IN SubSeq(newer, 1, IF Len(newer) < limit THEN Len(newer) ELSE limit)

\* poll: a batch of at most limit events after the cursor, whose last one is
\* the next cursor.
PollEvents(limit) ==
  LET batch == Batch(poller.cursor, limit)
  IN /\ ~CursorInvalid(poller.cursor) /\ ~CursorExpired(poller.cursor)
     /\ poller' = [poller EXCEPT !.told = @ \cup ToSet(batch),
                     !.cursor = IF batch = <<>> THEN @ ELSE Last(batch)]
     /\ UNCHANGED <<configQueue, configSequence, configEpoch>>

\* A refused cursor tells the host that it missed events; it starts again from
\* the beginning, or from the oldest event left when that is refused too.
PollRefused ==
  /\ CursorInvalid(poller.cursor) \/ CursorExpired(poller.cursor)
  /\ LET start == IF CursorExpired(0) THEN Head(configQueue) - 1 ELSE 0
     IN poller' = [cursor |-> start, epoch |-> configEpoch, from |-> start, told |-> {}]
  /\ UNCHANGED <<configQueue, configSequence, configEpoch>>

\* replace_runtime_state_from: the queue of the new service is empty.
ReloadService ==
  /\ configEpoch < MaxReloads /\ configEpoch' = configEpoch + 1
  /\ configQueue' = <<>> /\ configSequence' = 0
  /\ UNCHANGED poller

EventQueueNext ==
  PublishEvent \/ (\E limit \in 1..PollLimit : PollEvents(limit)) \/ PollRefused \/ ReloadService

----------------------------------------------------------------------------
\* The event queue keeps its types.
EventQueueTypeOK ==
  /\ configSequence \in 0..LastSequence /\ Len(configQueue) <= QueueCapacity
  /\ poller.cursor \in 0..LastSequence /\ poller.told \subseteq 1..LastSequence

\* A host whose cursor came from the present service was told every event
\* between where it started and that cursor, although events expire and batches
\* are cut short; and the events it can still get are exactly the newest ones,
\* without a gap.
NothingMissedSilently ==
  /\ poller.epoch = configEpoch => poller.told = (poller.from + 1)..poller.cursor
  /\ configQueue = [i \in 1..Len(configQueue) |-> configSequence - Len(configQueue) + i]
=============================================================================
