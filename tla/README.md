# LuaSkills: TLA+ models of the runtime

LuaSkills runs Lua skills and plugins inside a host process. This directory
models the parts of it that keep state and that several actors reach at once,
checks them with TLC on small instances, and proves the safety of the operation
journal, of its worker, of the checkpoints of an operation, of the capability
broker, of the pools of embedded modules and of the scheduler for every instance
with TLAPS.

The system has two halves.

* The **embedded runtime** (`src/src/runtime/embedded/`) makes the hard promises:
  the host admits an operation, the operation calls back into the host, and after
  a crash the host must be able to tell from disk what may have happened.
* The **host side** (the rest of `src/src/`) owns what skills use: Lua VMs and
  leases, child processes, managed Python and Node sessions, package directories,
  configuration, downloads, files, caches, and the two C interfaces.

Paths below are relative to `src/src/runtime/embedded/` in the first table and to
`src/src/` elsewhere.

## The system

### Embedded runtime

| component | state | operations | hard part |
|---|---|---|---|
| journal store (`journal/sqlite.rs`, `recovery.rs`, `reconciliation.rs`, `storage.rs`) | one row per (runtime, operation): revision, snapshot, attestation; a retained failure; the exclusive connection | insert, replace, `reconcile`, `forget`, `recover_storage`, `open` | commits whose confirmation is lost; rows that must stay readable |
| journal worker (`journal/worker.rs`, `worker/recovery.rs`) | queue, active write, quota, failure, close flag, thread handle | `submit`, `run`, `fail`, `request_close`, `poll_closed`, `recover_worker`, receipt drop | panic supervision, one writer only, exact quota |
| operation (`operations.rs`, `operations/*`) | public snapshot, retained checkpoint under the transition gate, revision, frozen completion | advance, poll, retry, finalization, completion, cancel | several actors write one revision; results must be durable before they are public |
| effect ledger (`effects.rs`) | ordered host-call records, stage, seal | prepare, checkpoint_start, begin, observe, drop | disk must record permission before a handler runs |
| capabilities (`capabilities/*`) | registrations, permits, host request queue | register, unregister, submit, invoke, take, complete, cancel, close | callbacks outside locks, retirement racing completion |
| governor, pool, cleanup, retirement (`governor*`, `capacity.rs`, `pool*`, `cleanup.rs`, `retirement.rs`) | budgets with floors, VM slots, registrations, generations | create, lease, return, evict, clean, retire, revise, close | balance of budgets after failed cleanups, late leases |
| scheduler (`scheduler.rs`, `scheduler/*`) | queues by plugin, workers, sessions, reusable instances, reservations, retained operations | submit, execute, finalize, persist, cancel, expire, close, forget, shut down | sessions closed while they run, one failed checkpoint stopping everybody |

The actors of one operation are its owner (a scheduler worker), the host
(queries, cancellation, retries, storage recovery), any number of effect callers,
the journal's writer thread and its supervisor.

### Host side

| component | state | hard part |
|---|---|---|
| leases (`runtime/engine/lease.rs`) | leases by session id, generations, tombstones, retired owners | two locks; a lease checked under one and used under the other |
| managed workers (`runtime/engine.rs`) | buckets of warm processes, snapshot cells | late answers, owners retired during a spawn |
| VM pools (`runtime/engine.rs`) | idle VMs, request and nested contexts | a context installed or restored half way; lost notifications |
| one-shot commands (`runtime/engine/runlua.rs`), process sessions (`runtime/process_session.rs`) | child, process tree, pipes, reaper slots | two owners of one teardown, timeouts racing exits |
| session services and events (`runtime/managed_runtime_services.rs`, `managed_session_events.rs`) | session table, retiring map, event queue, wake callback | kills outside the lock; a host that frees a callback |
| package snapshots, environments, package contexts (`runtime/managed_runtime_session.rs`, `managed_runtime.rs`, `managed_package.rs`) | directories with identities, build locks, leases, backups, owner tokens | foreign directories at the same path, failing renames, replaced packages |
| configuration (`runtime/config.rs`, `config_service.rs`) | one document per scope, lock file, snapshots per engine, event queue | several processes, durability, cursors |
| skills and dependencies (`skill/`, `download/`, `dependency/`, `package/`) | packages, records, backups, caches | failing steps and roll-backs, changing sources |
| files and caches (`runtime/managed_io.rs`, `cache.rs`, `file_watcher.rs`) | buffers, fingerprints, entries, reference counts | foreign writers, partial failures |
| C interfaces (`ffi_embedded*`, `ffi.rs`, `ffi_standard.rs`, `host/`) | response room, slots, handles, callbacks | foreign code during a close or a free, re-entry |

Host components call each other through narrow interfaces: sessions take
environments and snapshots, the engine takes leases and workers, the lifecycle
asks the downloader for archives. The models follow these cuts. A callee appears
in its caller's model as the set of outcomes the callee's own model allows: a
`PackageSnapshot` as a reservation that may fail, a `ProcessSession` as a process
that can be killed or not, `SkillLifecycle` as the publication at the end of
`SkillSources`.

## Modules

| module | models | uses |
|---|---|---|
| `OperationSnapshot` | the value a checkpoint stores and the rules over it | |
| `OperationJournal` | the durable rows | `OperationSnapshot` |
| `CheckpointWriter` | what the worker promises its clients (abstract) | `OperationJournal` |
| `JournalWorker` | the worker, shown to implement `CheckpointWriter` | `OperationJournal`, `CheckpointWriter` |
| `Sums` | the total of a function's values, as the number of units it counts | |
| `QueueFacts` | lemmas about queues (what taking, removing and appending keeps) and about totals | `Sums` |
| `JournalWorker_proofs` | theorems about the journal and the worker, its refinement included | `JournalWorker`, `QueueFacts` |
| `CheckpointContract` | what checkpointing promises about one operation (abstract) | `OperationSnapshot` |
| `DurableOperation` | one operation and everybody who checkpoints it, shown to implement `CheckpointContract` | `CheckpointWriter`, `CheckpointContract` |
| `DurableOperation_proofs` | theorems about the operation, its refinement included | `DurableOperation` |
| `Capabilities` | registrations, permits, native and queued calls, the request broker | |
| `Capabilities_proofs` | theorems about the broker and the registrations | `Capabilities`, `QueueFacts` |
| `PoolGovernor` | groups, shared capacities, floors, the parent budget | `Sums` |
| `ModulePool` | pools, leases, generations, cleanup, the retirement thread, closing | `PoolGovernor` |
| `ModulePool_proofs` | theorems about the pools and the budgets they share | `ModulePool`, `QueueFacts` |
| `Scheduler` | queues, workers, supervisor, sessions, instances, finalizers, registry of operations, shutdown | `Sums` |
| `SchedulerTables_proofs` | that calls, sessions, instances, queues and reservations stay linked | `Scheduler`, `QueueFacts` |
| `Scheduler_proofs` | theorems about the scheduler | `SchedulerTables_proofs` |
| `ProcessSession`, `OneShotExec` | child processes, pipes, teardown, the reaper; `process.exec` | |
| `RuntimeServices`, `SessionEvents` | managed sessions and their retirement; events and the wake callback | |
| `PackageSnapshot`, `ManagedEnvironment`, `PackageContext` | directories of managed packages; environments; the authority of a package | |
| `RuntimeLease`, `EngineWorkers`, `VmPool` | leases; pooled worker processes; VM pools and request scopes | |
| `ConfigStore` | the configuration document and its caches; the event queue | |
| `SkillLifecycle`, `SkillSources`, `Downloads` | changes of a skill with their reloads and roll-backs; where a package comes from; dependencies | |
| `ManagedIo`, `ToolCache`, `FileWatcher` | buffered files; cache entries; native watches | |
| `FfiTransport`, `FfiEngines` | the embedded C transport; engine handles and host callbacks | |
| `MC*` | instances for TLC | |
| `HostEngine_proofs` | theorems about the components `MCHostEngine` composes: the VM pools, the leases, the managed workers | `MCHostEngine` |

`DurableOperation` uses the abstract writer, not the worker: `JournalWorker`
shows that every behaviour of the worker is one of the abstract writer, so what
holds over the latter holds over the former.

### How state and actions correspond to the code

* Variables carry the code's field names where TLA+ allows it. One action is one
  critical section, or the work a thread does between two of them; a handler that
  unlocks in the middle is several actions with a program counter, so that what it
  read may be stale when it goes on. `map` in `PROJECT.json` gives the lines of
  every definition.
* A JSON value, a text or an error message is only the class of outcome it
  decides. A digest is the thing it is the digest of. A fingerprint is a
  generation. Time is nondeterminism: whatever may have expired may expire now.
  Exceptions are `ToolCache`, where the order of expiry matters and a small clock
  is kept, and timeouts, which are steps that become possible.
* A call to the operating system may fail wherever the code handles the failure,
  a bounded number of times (`Max...Faults`, `Max...Failures`). A failure that may
  leave something half done leaves it so (`"torn"` in `SkillLifecycle`,
  `Unreadable` in `ManagedEnvironment`, part of a context in `VmPool`).
* What other processes do is an action: a foreign directory in `PackageSnapshot`,
  another engine's write in `ConfigStore`, a replaced package in `PackageContext`,
  a foreign write in `ManagedIo`, a changed release in `SkillSources`.
* In `OperationJournal`, `Transaction` is `OperationJournal::transaction` around a
  verdict, and `WriteVerdict`, `ReconcileVerdict`, `ForgetVerdict` are the
  mutations' tests in the code's order. SQLite is external: a transaction is
  atomic, and any storage step may fail before, or be unconfirmed after it.
* In `JournalWorker` a receipt is reference counted in the code; here its owners
  are explicit, and the action that removes the last one runs
  `ReceiptState::drop`. `executions` and `written` are ghost data.
* In `DurableOperation` a native caller that waits for disk keeps the transition
  gate, so its call is two actions with `gate` set in between. `Driven` is
  `PendingCheckpoint::drive`. `Captured` is the set of snapshots an operation can
  take; `handler` tells a caller that gave up before its handler ran
  (`abandoned`) from one whose result was handed over (`done`), which the code
  tells apart by where the last owner of the attempt is dropped.
* In `Capabilities`, `calls` is where each caller's thread is and what it still
  owns, `cancels` the cancellations decided under one lock and applied under a
  later one, `retiring` and `shutdown` the positions of `unregister` and of
  shutdown. Schema, permission and deadline checks are one `revoke`.
* In `PoolGovernor` one budget dimension stands for VMs, Lua bytes and native
  bytes, which the code tests with the same comparisons one after the other.
  `commitment` adds the charges of the groups and of the capacities with `Total`,
  a sum written as the number of units it counts, so that it can be reasoned about
  without recursion.
* In `ModulePool`, `retire_expired` leaves the idle list in any order, because
  `swap_remove` moves the last entry into every gap.
* In `Scheduler` an operation is the number the registry gave it; a session is
  named by the operation that opens it, an instance by the one that allocated it.
  Identities grow and calls are admitted under one lock, so a plugin's queue is the
  set of its queued identities and its front is the least of them. `Retain` is the
  one sequence that keeps the order of the rotation for the queues that stay.
* In `RuntimeServices` an evaluation checks once, when it enters, that its lease is
  active (`EvalEnter`). Neither `begin_transaction` nor `retire_owner` looks at the
  other afterwards, so a lease that is replaced has its sessions retired while its
  evaluation goes on: a reservation may be gone when the event token is to be
  recorded (`MarkToken`, `LostTokens`) or the session to be activated, and a session
  opened after the retirement is rolled back or dropped with its VM. The userdata
  takes the cleanup callback, runs it, unregisters and only then marks it finished
  (`UserdataTakes`, `UserdataCleanup`, `UserdataFinish`).
* In `ConfigStore` a service reads the document first (`RestartEngine`) and its
  watcher is registered or refused later (`StartWatcher`); `missed` records that the
  last change fell in between.
* In `SkillLifecycle` an operation may still return an error after its commit: the
  dependency manifest of the new package cannot be read, or the dependency manager
  cannot be configured. `settled.committed` tells these failures from the ones that are
  rolled back. A reload may also fail after the new state was put in place.
* In `Downloads` a temporary file is removed on the way out of an attempt on a
  best-effort basis (`DropPart`); a removal that fails, and a killed process, leave a
  stray file, which nothing ever removes (`strayParts`).
* In `FfiTransport` a response is either prepared at its worst size before the command
  runs (`PreparedFirst`: every command that changes something) or encoded afterwards,
  and an encoding that does not fit gives the request up. That may befall queries,
  statuses and every error, the error of a close that already set its flag included.
* In `FfiEngines` an export is only what the handles tell apart: whether it locks the
  engine for reading or for writing and which callbacks it may run. `JsonLoad`,
  `StandardQueries` and their like are one line for a family of exports that share
  their control flow (about 2,800 lines of argument checks and result conversion,
  none of which is modelled).
* In `FileWatcher` a registration chooses what to watch before it takes the registry
  lock (`AskRegistration`), so the directory may be gone, or a better one be there,
  when it is counted.
* In `PackageContext` a system package is a skill without the prepared check, so
  `ContextKinds` is exercised with the other two, one thread building each: two
  contexts meet only in the shared root set and the registry of owner tokens, which
  do not look at the kind.

## Runs

Properties that one reviewer would read together are conjuncts of one named
property; the parts are definitions of their own with a comment each.

| run | instance | question |
|---|---|---|
| `journal` | 2 operations, 1 record, 6 snapshots, revisions to 4 | does any order of writes, retries, attestations, lost confirmations, recovery and restart keep the evidence and keep the database openable? |
| `worker` | 3 receipts, 2 threads, 2 pending writes, fair threads | is an admitted write ever lost, stranded, replayed or miscounted across panics, recovery and close; does the worker implement `CheckpointWriter`; is every write answered and does close end the thread? |
| `operation` | 1 effect, revisions to 6, native and queued | do phase, intent, outcome and terminal checkpoints agree on one revision, is the public state always durable, and does the operation implement `CheckpointContract`? |
| `operation_serial` | 2 effects one at a time, fair writer | does disk keep every execution permission under the scheduler's own discipline, and is the gate always released? |
| `operation_parallel` | 2 overlapping effects | expected violation, see below |
| `capabilities` | 2 calls of 1 registration | do permits balance, is the ready queue exact, and does one thread at a time own each completion? |
| `capabilities_replaced` | 1 call, 2 registrations of 1 name, 1 retained entry, fair threads | does "drained" mean that nobody can reach the callback, for ever; can a published name dangle; does closing end what it found? |
| `pool` | 2 pools under 1 name, 2 leases, 2 VMs, a shared capacity with a floor | do the budgets of parent, group and capacity equal what their owners hold after any failure, and is a closed or replaced pool never used again? |
| `pool_race` | the same, polling concurrent with closing | expected violation, see below |
| `scheduler` | a session and a reusable pool on the only VM of a plugin, 1 worker, operations to 3, 1 failing checkpoint, 1 closure | are all counts exact, is every VM finalized exactly once before it is retired, and does every call, session, instance and thread end? |
| `host_sessions` | 8 components with 2 competitors and 1 resource each | do children, directories, callbacks and stored values keep exactly one owner; is nothing foreign removed or overwritten; does background work end? |
| `host_engine` | 12 components with 2 callers and 1 or 2 resources each | do indexes, contexts, records, handles and slots agree with what they describe? |

`MCHostSessions` and `MCHostEngine` hold components that share no state. A
product of them would multiply states that cannot influence each other, so `part`
is chosen initially and only that component moves: the instance explores their
union. Each property says for each part what it requires of it; the mutants in
`PROJECT.json` break each of them in a component of its own.

### Bounds

They are the smallest at which each case happens: two rows compete for one
record; three receipts over a quota of two give a refused submission; two threads
let a recovery overlap the failed thread; a second call sees what the first leaves
behind, and a second registration or pool of a name is published while a call or
lease still holds the first; one session identifier more than the limit; one
worker, one reaper slot, one cleanup slot and one HTTP worker that two callers
want; one main VM less than the calls that nest. Two recovery slots and four faults
let the recovery worker of `ManagedEnvironment` serve a backup it can never put back
beside one that is to be removed. The transport's three buffers and four bytes, with
responses of at most two, let two reservations overlap and refuse a third; a larger
instance (five bytes, four requests, 4.3 million states) gives the same answer. The
other fault budgets are one or two, which lets a roll-back or a retry fail after the
step it repairs. Both VM pools have the same least and greatest size, so idle VMs are
reaped only in the theorem `VmsAlwaysSound`, which holds for all sizes. Calls,
registrations, leases and VMs are interchangeable, so `capabilities`, `pool` and `pool_race`
use symmetry; runs with temporal properties never do. `CHECK_DEADLOCK FALSE`
marks the systems that really stop when all their callers are done and their
bounded identities are used up; the journal, the worker and the operation never
may.

In `scheduler` both pools have finalizers: without one a VM is retired at once,
which is a prefix of the same path. The parent's capacities are `PoolGovernor`'s
subject and not repeated there.

### Fairness

* `JournalWorker!FairSpec`: the operating system runs the writer thread and SQLite
  returns (its busy timeout is bounded). Nothing is assumed of clients or the host.
* `DurableOperation!FairSerialSpec`: the writer settles what it admitted, which
  `worker` shows, and a thread woken by its receipt runs.
* `Capabilities!FairSpec`: a thread inside one call of the broker or of
  `unregister` is scheduled and gets the mutex; handlers, waiters, the SDK's pump
  and storage may stop for ever.
* `Scheduler!Fairness`: a worker and the supervisor run, deadlines pass, a
  module's Lua ends (the runtime interrupts it), and a failed checkpoint is
  retried by the host, each as one weak fairness over all operations: some step of
  the kind is taken, not one of each operation. The strong fairness is on a
  checkpoint that, tried again and again, succeeds.
* `HostWorkEnds` contains for each component the fairness of that component's own
  threads. Strong fairness is used only where a mutex or a lock file is taken and
  released by others again and again: the owners of one teardown and the reader's
  probe in `ProcessSession`, the reload in `ConfigStore`, the recovery worker in
  `ManagedEnvironment`; and, in `OneShotExec`, for a deadline checked in a loop.
  A child that was killed exits; one that was not may run for ever. In
  `RuntimeServices` an evaluation ends and the VM of a retired lease is dropped once
  nobody evaluates in it. Failures are bounded by the instance.

### Refinements

`ImplementsWriter` maps the worker's queue, active write and receipts to the
abstract writer, in which a receipt is admitted, attempted at most once and
settled. `ImplementsContract` maps an operation with its journal row, retained
checkpoint and gate to the contract: a public revision, durable before it is
public, that only moves forward and ends once.

### What the expected violations show

`operation_parallel`: `checkpoint_effect_start` returns once the intent is
acknowledged and releases the transition gate
(`operations/checkpoint.rs:363`); the ledger becomes `Running` only in
`EffectAttempt::begin`. If another effect or the owner captures a checkpoint in
between, it stores the acknowledged effect as `Prepared`/`NotStarted` again, and
the handler then runs while disk denies its permission.
`operations/checkpoint.rs:346` says disk records the permission first.
`operation_serial` shows that the scheduler's own use, which never overlaps, is
not affected; `submit_queued` is a public nonblocking call and can overlap.

`pool_race`: `request_close` (`pool.rs:158`) sets `closing` and collects the pools
under the lock, then closes them one by one without it. A thread that polls
`poll_closed` in between sees no resident token and is told that everything is
closed; a pool not closed yet still admits an allocation, whose VM nobody will
destroy. `pool.rs:176` promises the opposite. With closing and polling serialized
(`SerialClose = TRUE`, run `pool`) it cannot happen.

### Statements of the repository that do not hold

These are definitions of the modules, marked "Does not hold", kept beside the
weaker property that does and that a run checks.

| definition | what the code does | says otherwise |
|---|---|---|
| `Capabilities.EvidenceAfterAdmission` | an early return drops its locals in reverse order, evidence before admission (`runtime/embedded/capabilities/registry.rs:1016`) | `runtime/embedded/effects.rs:286` |
| `Capabilities.NoPermitDropUnderLock` | a submission refused by a closed registration drops its permit under the broker's lock (`capabilities/broker.rs:216`); it is a queued entry, so no host code runs | `capabilities/broker.rs:148` |
| `RuntimeLease.ReplacedIsQuiet` | an evaluation enters a lease after it was found idle and before it is replaced, and runs on (`runtime/engine/lease.rs:541`) | `runtime/engine/lease.rs:532` |
| `EngineWorkers.OnlyHealthyReused` | a worker whose line reader ended on an overlong line is put back into its bucket (`runtime/engine.rs:4763`) | `runtime/engine.rs:4108` |
| `SkillLifecycle.RolledBackIsOld` | a backup removed half way is published again by the roll-back, which reports success (`skill/manager.rs:1980`) | `docs/zh-CN/integration/ffi-integration-guide.md:1863` of the repository |
| `SkillLifecycle.FailedIsRolledBack` | an error after the commit of an update or uninstall is returned with the change in place (`runtime/engine.rs:8450`, `runtime/engine.rs:8226`) | `docs/zh-CN/integration/ffi-integration-guide.md:1865` of the repository: problems with old dependencies never make an update a failure |
| `ConfigStore.NoChangeMissed` | a change between the first read of a service and the registration of its watcher is not noticed until the next one (`runtime/config.rs:748`, `runtime/config.rs:514`) | no comment; it is what watching is for |
| `ConfigStore.EveryChangeAnnounced` | a write installs other processes' changes without naming their keys in its event (`runtime/config.rs:1078`) | `docs/completed/20260723/03-SKILL_CONFIG_PRODUCTION_HARDENING.md:720` of the repository |
| `Downloads.InstalledIsWanted` | the cache key has no version, so an archive without a declared checksum may be another version's (`dependency/manager.rs:341`) | `dependency/manager.rs:93` |
| `FileWatcher.MovedIsWatched` | when unwatching the old path fails, the new path is already counted and never watched (`runtime/file_watcher.rs:417`) | `runtime/file_watcher.rs:351` |

Other behaviour a maintainer should know of, which no property is about:

* a reload of the engine numbers configuration events from 1 again, so an old
  cursor is accepted once there are enough new ones (`runtime/engine.rs:7427`);
* a process that stops between staging an old environment and publishing the new
  one leaves a directory no later process looks for (`runtime/managed_runtime.rs:2592`),
  and a torn marker is an error for every later build (`managed_runtime.rs:2114`);
* a one-shot command with a timeout waits for ever if a process that left its tree
  keeps the pipe open (`runtime/engine/runlua.rs:1211`); `ExecReturns` shows that
  this is the only reason;
* enabling and disabling write their record before the reload that may fail
  (`runtime/engine.rs:8077`), and a skill that fails to load is only logged
  (`runtime/engine.rs:7924`);
* replacing a process-wide host callback does not wait for calls that copied the
  old one (`host/callbacks.rs:560`), and two engines whose callbacks call each
  other can wait in a circle (`ffi.rs:290`).

## Proofs

Every theorem holds for every value of the constants that the named assumptions
of the modules allow: any set of operations, receipts, threads, requests, calls,
registrations, pools, leases and VMs, any limit. The assumptions say that
limits are positive numbers and that the markers for "nothing here" differ from
every real value.

### The journal (`JournalWorker_proofs`)

* `JournalTyped`: type correctness;
* `JournalHealthy`: a healthy journal has its connection;
* `JournalFrozen`: rows do not change while an outcome is unproven;
* `JournalPreservesEvidence`: the action property `EvidencePreserved`;
* `JournalReopens`: `RowsReopenable`, inductive together with the types;
* `JournalWithinCapacity`: `RowsWithinCapacity`, strengthened by finiteness of
  the stored keys (`FiniteCapacity`), because a cardinality is only meaningful
  for a finite set and nothing bounds the set of operations.

The argument reduces every action to one of four row changes (`Inserted`,
`Replaced`, `Attested`, `Forgotten`) or none (`EveryStepChanges`); each property
is then a fact about those changes.

### The worker (`JournalWorker_proofs`)

`WorkerInductive` proves one inductive invariant, `WorkerInv`, from which follow

* `WorkerTyped` and `WorkerAlwaysSound`: `WorkerTypeOK` and `WorkerSound`, the
  single writer, the single execution and the owner of every admitted write, and
  a quota that is what the live receipts hold;
* `WorkerNeverReopens`: the action property `NothingReopened`;
* `WorkerImplementsWriter`: the refinement `ImplementsWriter`, step by step;
* `WorkerKeepsJournal`: every step of the worker is a step the journal's theorems
  allow its callers, so these hold of the worker too.

`WorkerSound` alone is not inductive: that nothing is counted twice needs to know
that the queue has no duplicates, that the write in a thread's hands is not in the
queue, and where each receipt is while its thread has unlocked. The facts about
queues this needs (what is left after taking the head, removing a member, or
appending a new one) are `QueueFacts`.

### The operation (`DurableOperation_proofs`)

`OperationInductive` proves `OperationInv`, the conjunction of

* `TypePart`, the types;
* `WriterPart`: the row, the revision and the only receipt seen from the retained
  checkpoint. Without a checkpoint the row is the acknowledged one and no receipt
  is live; with one, the row is the acknowledged one or that checkpoint's
  candidate, and only the receipt it names is live;
* `LedgerPart`: every record says what its caller is doing;
* `PublicPart`, `TransitionPart`, `CompletionPart`: what the public snapshot, the
  checkpoint of the gate and the frozen terminal snapshot say of the finalization,
  of the records and of each other;
* `DiskPart`: the row carries every granted effect, and a terminal row is the last.

The steps are proved in two layers. `DriveSound`, `ExecuteSound` and `SettleSound`
say what one drive of a checkpoint and one step of the writer leave, whoever takes
them; `GateDrive`, `EffectOnly` and `CaptureStep` lift that to the steps of the
owner, of the callers of effects and of captures. It follows:

* `OperationTyped`: `OperationTypeOK`;
* `EvidenceAlwaysSound`: `EvidenceSound`, all six of its parts. In particular the
  code's `Internal` error for a receipt of another revision is unreachable, and
  none of the operation's own checkpoints conflicts with another;
* `OperationImplementsContract`: the refinement `ImplementsContract`;
* `PermissionAlwaysRecorded`: `DiskRecordsPermission` under `SerialSpec` with one
  open handler (`MaxOpen = 1`, the discipline of the scheduler). It needs
  `SerialPart` besides: while a handler is permitted or runs, no checkpoint is
  retained, so nothing that was captured before the permission can overwrite it.
  `operation_parallel` shows that the hypothesis cannot be dropped.

### The capabilities (`Capabilities_proofs`)

`CapabilitiesInductive` proves `CapabilitiesInv`, which adds to the checked
properties where each call, cancellation and retirement is between two locks and
what it then owns. It follows:

* `CapabilitiesTyped`, `CallsAlwaysCounted`, `CompletionAlwaysSound`,
  `RetiredAlwaysQuiet`: the four invariants of the runs;
* `DrainedStaysFinal`: the action property `DrainedIsFinal`.

Counts are proved as cardinalities of the sets of their owners (`Left` is what a
counter keeps when one of them goes), so no count underflows for any number of
calls.

### The pools (`ModulePool_proofs`)

`PoolInductive` proves `PoolInv`, the conjunction of

* `PoolTypeOK`, the types;
* `Owners`: what is true of a VM in a lease's hands at each point of the call, in
  an idle list, taken out of a pool and not yet queued, queued, or in the hands of
  the retirement thread, and that every charged VM is in one of these places;
* `OwnedOnce`: no VM is in two of them, and no list has one twice;
* `Registrations`: a registration is retired only after admission ended, its group
  exists until it is released, no two live pools share one, and every charged VM
  belongs to a registration that still is;
* `Budgets`: the commitment and the executions fit the parent.

None of them is inductive alone: that a released VM leaves the budget needs its
only owner, and that a group is empty when its registration ends needs where each
VM is. Sums are handled as counts: `TotalMonotone` and `TotalReplaced` say what a
`Total` becomes when one charge changes, and `ReservingCommits`,
`RegisteringCommits`, `CapacityCommits` and `ShrinkingCommits` are the four ways in
which a step changes the commitment. The moves of a VM between owners are lemmas of
their own (`IdleLeased`, `IdleReturned`, `TokenReserved`, `TakenQueued`,
`CleanerMoves`, ...); each action is then one of them. It follows:

* `PoolTyped` and `BudgetsAlwaysOwned`: `PoolTypeOK` and `BudgetsOwned`;
* `IdleAlwaysUsable`: the part of `StatesSound` about VMs at rest, without any
  assumption on who polls;
* `StatesAlwaysSound`: `StatesSound` for `SerialClose = TRUE`. It needs
  `ClosingShape` (a closing manager has closed each pool or still lists it) and
  `QuietAfterPoll` (once a poll saw no token, closing is through and no token comes
  back), which hold because the scheduler does not poll while `request_close`
  runs. `pool_race` shows that the hypothesis cannot be dropped.

The assumptions are `GovernorAssumption` and `PoolAssumption`, which type the
limits and policies and say that groups, capacities and VMs are finite in number,
and `AbsentAssumption` and `NoPoolAssumption`, which keep the markers apart from
records.

### The scheduler (`SchedulerTables_proofs`, `Scheduler_proofs`)

The properties of the scheduler are about counters, and a counter is only right
while the tables it counts are. The proofs therefore go in layers.

* `Structure` is `Shape` (types, counters being integers so far), `Owning` and
  `Books`. `Owning` links the tables: which calls the queues, the rotation and
  `live` hold (`Tables`), that identities are handed out in order (`Fresh`), what a
  call's record says at each point (`CallOK`), that a live call belongs to an owner
  that knows the call it runs (`CallOwned`), that an owner has its VM or the call
  that runs on it, and its reservation (`SessionOK`, `InstanceOK`), and that no two
  owners share a reservation (`Distinct`). `Books` says what each counter counts.
  `StructureKept` and `BooksKept` go through the actions; the many that only move
  one call on are `Quiet` and need one argument together. `StructureAlways` is the
  result, and `SchedulerTyped` (`SchedulerTypeOK`: no counter below zero) follows.
* `BooksAlwaysExact` (`BooksExact`) adds what the limits need. `Registered`: pools
  and plugins of owners and counted calls are registered, which is what `forget_pool`
  and `forget_plugin` refuse to break. `Threads`: a thread left only when everything
  had drained. `Charged`: the charges of a plugin's pools fit its limit, a pool being
  charged with its floor before its VMs exist; `Retains` and `Runs`: reservations
  count towards the operations a plugin and the registry retain, and active calls
  stay below the limits. A step moves a VM from one holder to another (`Gives`,
  `Returns`), allocates one where there is room (`Allocates`), or loses one
  (`Shrinks`), and that decides what it does to the sums.
* `FinalizedAlwaysOnce` (`FinalizedOnce`) adds `Finalizers`: for every VM, the
  finalizer is due exactly when some holder has a lease that owes it, a VM nobody
  ran Lua on has no finalizer to run, and a finalizer that ran is marked until its
  call is acknowledged. Every action but two leaves this alone (`Preserves`); for
  `invoke` and `finish_finalization` the call is the only holder of its VM
  (`HolderAlone`), so no other record can speak for it.

The assumption is `SchedulerConstants`: pools and plugins are finite in number,
policies and limits are natural numbers.

### The VM pools, the leases and the managed workers (`HostEngine_proofs`)

`VmsAlwaysSound` proves `VmsSound` (`NoVmLost` and `ContextOwned`) from `VmInv`, the
conjunction of

* `VmShape`: the types, and the shape of a thread's stack of leases at each step (a
  lease has its VM from the moment it is built or taken, only the innermost may wait,
  the main lease is below the one for luaexec);
* `VmOwned`: a VM is idle in one pool or in one lease, so installing a context in one
  VM disturbs nobody else's;
* `VmCounted`: `total_count` is the idle VMs and the leases that hold or build one;
* `VmAwake`: while somebody sleeps, at least as many threads are awake and on their
  way as there are idle VMs and free slots. The part about sleepers of `NoVmLost` is
  this, and it is inductive only with the exact count beside it: a release adds one
  spare thing and wakes one thread, a served thread takes one of each, and reaping
  idle VMs trades them for slots;
* `VmContexts`: the context of every lease Lua runs under, or that is suspended below
  another lease, and the contexts its nested calls captured, unless a restore failed
  and Lua was told. `ContextOwned` speaks of the innermost lease only; what a nested
  call returns to needs the captured ones.

Each action is first shown to be one of thirteen moves (`VmMoves`), with the contexts
worked out from the orders in which the parts are installed (`AppliedReset`,
`AppliedEnter`, `AppliedRestore`, `AppliedPopulate`, `RecapturedRight`); each conjunct
is then proved move by move (`MovesBooks`, `MovesAwake`, `MovesContexts`).

The assumption is `VmPoolAssumption`: threads are finite in number, each pool's
maximum is at least its minimum as the code normalises it, and there are names for as
many VMs as both pools may have, because `FreshVm` stands for a VM that is created.

`EngineAlwaysSound` proves `EngineSound`: `LeasesAgree`, `WorkersAccounted` and
`ReplyMatches`.

* `LeaseInv`, for the leases. `LeasesAgree` speaks of the tables, and every step of a
  caller relies on what it saw under a lock it has given up since. `CallerRight` says
  what survives: a caller that is to commit still holds the manager's lock, finds the
  index as it read it and has room for one lease more; a caller that evaluates holds
  the session's lock, and its lease is active or was replaced under it.
  `LeaseIndexed` adds to the property that an entry of the index leads back to its
  session id, `LeaseRetired` that a lease out of the table carries a terminal state,
  so the check that an evaluation makes of the lease alone (`StillActive`) speaks for
  the table, which it can no longer see.
* `WorkersInv`, for the workers. `BookRight` says what `total_count` is in each phase
  of a retirement, since calls go on releasing into a bucket that is being emptied;
  `WorkerRight` that a process is in its bucket or with one call and has nothing under
  way when idle; `CallRight` and `Awaiting` what stands in the channel of a worker at
  each point of a call, which is why a late answer cannot reach the next call: a
  worker is reused only after its channel was emptied by the answer it owed.
  `CellRight` names the call that will forget a snapshot cell of a retired key.
  `Reserving` and `Releasing` are what a reservation and a release make of a bucket,
  idle workers that expired included.

The assumptions are `LeaseAssumption` (the marker of a free lock is no caller) and
`WorkersAssumption` (invokers are finite in number, because charged calls are counted).

### Only model-checked

* Liveness: `GateReleased`, the worker's and the capabilities' endings,
  `EverythingEnds` of the scheduler, `HostWorkEnds`. Fairness and `ENABLED`
  (`LoadsGoOn`) are out of the prover's reach.
* The other components of the host side (`SkillsSound`, `IoSound`, `AbiSound`,
  `SessionsSound`, `PackagesSound`) and the types of the two instances
  (`EngineTypeOK`, `HostTypeOK`): checked on the instances above.

## Not modelled

* SQLite, file formats, digests, encodings and byte limits of rows and messages.
* Lock poisoning, and overflow of 64-bit sequences that no run of the program
  reaches, except in the event queue of `ConfigStore`, which has a last sequence.
* Pure validation and formatting: descriptors, schemas, manifests, lockfiles,
  version selection, help and result texts, argument marshalling of both C
  interfaces.
* LuaJIT and the Lua tables of the API; the working directory of the process,
  which one guard serializes (`runtime/engine/runlua.rs:1609`).
* HTTP, mirrors and archive formats; the installers of Python and Node packages;
  `popen` pipes.
* The SQLite provider for skills, which forwards calls to a loaded library, and
  the command-line tool that builds release archives.
* Crashes are modelled where something outlives the process: the journal
  (`reopen`), the configuration document, and skill packages. The other components
  keep their state in memory.

## Plan

1. Proofs for small components with a simple inductive invariant: the event queue,
   the response room of the transport.
2. `Capabilities` composed with `DurableOperation`, and `Scheduler` as the owner
   of the latter.
