------------------------------ MODULE Scheduler ------------------------------
(***************************************************************************)
(* The embedded scheduler (runtime/embedded/scheduler.rs and scheduler/):  *)
(* fixed worker threads take queued calls plugin by plugin, one supervisor *)
(* thread owns every call from the end of its execution to its published   *)
(* terminal record, and one mutex protects the shared state.  Sessions and *)
(* reusable instances keep a VM between calls and own a reservation for    *)
(* the closing operation that finalizes it.                                *)
(*                                                                         *)
(* An action is one critical section of that mutex, or the work a thread   *)
(* does between two of them.  Operation identities are the numbers of the  *)
(* registry's sequence; a session is named by the operation that opens it  *)
(* and a reusable instance by the operation that allocated it.  Bytes,     *)
(* values, errors' texts, diagnostics and parent capacities are left out.  *)
(***************************************************************************)
EXTENDS Integers, FiniteSets, Sequences, Sums

CONSTANTS
  Pools,          \* pool identities
  Plugins,        \* plugin identities
  Policy,         \* [Pools -> [plugin, reuse, finalizer, running, queued, resident, floor]]
  Limits,         \* [Plugins -> [running, queued, operations, sessions, resident]]
  MaxQueued,      \* max_queued_calls of the runtime
  MaxOperations,  \* max_operations of the registry
  MaxSessions,    \* max_sessions of the runtime
  MaxPools,       \* max_registered_pools of the runtime
  Workers,        \* max_running_calls: the number of execution threads
  LastOperation,  \* bound: the last identity the registry hands out
  MaxFailures,    \* bound: how many checkpoints fail
  MaxClosures     \* bound: how many pools, plugins and runtimes the host closes

Ops == 1..LastOperation

ASSUME SchedulerConstants ==
  /\ IsFiniteSet(Pools) /\ Pools # {} /\ IsFiniteSet(Plugins)
  /\ Policy \in [Pools -> [plugin : Plugins, reuse : {"none", "reusable", "session"},
                           finalizer : BOOLEAN, running : Nat, queued : Nat,
                           resident : Nat, floor : Nat]]
  /\ Limits \in [Plugins -> [running : Nat, queued : Nat, operations : Nat,
                             sessions : Nat, resident : Nat]]
  /\ {MaxQueued, MaxOperations, MaxSessions, MaxPools, Workers, LastOperation, MaxFailures, MaxClosures} \subseteq Nat

VARIABLES
  call,        \* the calls and their completion records, by operation
  session,     \* state.sessions
  instance,    \* state.reusable_instances
  pool,        \* state.pools
  plugin,      \* state.plugins
  queue,       \* state.queues, each in the order of its operations' identities
  rotation,    \* state.rotation
  live,        \* the keys of state.live
  queued,      \* state.queued
  cleaning,    \* state.cleaning_count
  closing,     \* state.closing
  shared,      \* state.shared_checkpoint_failed
  registry,    \* the operation registry: next identity, records and reservations
  supervisor,  \* where the supervisor thread is in its loop
  workers,     \* execution threads that have not exited
  failures,    \* how many checkpoints have failed so far (bounded by MaxFailures)
  finalized    \* history: the VMs that ran Lua initialization and their finalizer runs

vars == <<call, session, instance, pool, plugin, queue, rotation, live, queued, cleaning,
          closing, shared, registry, supervisor, workers, failures, finalized>>

-----------------------------------------------------------------------------
(* Leases.  A VM is prepared before it exists ("raw"), initialized and      *)
(* retainable ("live"), initialized and no longer retainable ("worn"), or   *)
(* created without usable exports ("dead").                                 *)

Lease == {"none", "raw", "live", "worn", "dead"}

\* ModuleLease::finalization_plan: exports were captured and the pool declares a finalizer.
Plan(lease, p) == Policy[p].finalizer /\ lease \in {"live", "worn"}

\* ModuleLease::finish: a lease without a VM has nothing to retire.
Receipt(lease) == IF lease \in {"none", "raw"} THEN "none" ELSE "pending"

(* A call with its PendingCompletion.  `owner` is the session or instance it *)
(* belongs to (0: none); `final` follows PendingFinalization; `retry` is the *)
(* entry of state.persistence_failures; `evidence` a failed shared           *)
(* checkpoint of the running operation.                                      *)
Call == [pc : {"free", "reserved", "queued", "running", "cleaning", "supervised", "publishing",
               "held", "finalizing", "closing", "done", "forgotten"},
         kind : {"none", "invoke", "prewarm", "open", "session", "closeSession", "closeInstance"},
         pool : Pools, owner : Ops \cup {0}, dispatched : BOOLEAN, started : BOOLEAN,
         lease : Lease, final : {"none", "intent", "durable", "ran"},
         receipt : {"none", "pending", "completed"}, prepared : BOOLEAN,
         retry : {"none", "waiting", "requested", "retrying"},
         expired : BOOLEAN, evidence : BOOLEAN]

Session == [state : {"none", "kept", "forgotten"}, pool : Pools, lease : Lease,
            active : Ops \cup {0}, queued : Nat, unfinished : Nat, opened : BOOLEAN,
            closing : BOOLEAN, closed : BOOLEAN, retiring : BOOLEAN,
            receipt : {"none", "pending", "completed"}, reservation : Ops \cup {0}]

Instance == [state : {"none", "kept"}, pool : Pools, lease : Lease, active : Ops \cup {0},
             closing : BOOLEAN, retiring : BOOLEAN, receipt : {"none", "pending", "completed"},
             reservation : Ops \cup {0}]

AnyPool == CHOOSE p \in Pools : TRUE

Blank(pc, p) ==
  [pc |-> pc, kind |-> "none", pool |-> p, owner |-> 0, dispatched |-> FALSE,
   started |-> FALSE, lease |-> "none", final |-> "none", receipt |-> "none",
   prepared |-> FALSE, retry |-> "none", expired |-> FALSE, evidence |-> FALSE]

NoSession ==
  [state |-> "none", pool |-> AnyPool, lease |-> "none", active |-> 0, queued |-> 0,
   unfinished |-> 0, opened |-> FALSE, closing |-> FALSE, closed |-> FALSE,
   retiring |-> FALSE, receipt |-> "none", reservation |-> 0]

NoInstance ==
  [state |-> "none", pool |-> AnyPool, lease |-> "none", active |-> 0, closing |-> FALSE,
   retiring |-> FALSE, receipt |-> "none", reservation |-> 0]

Init ==
  /\ call = [o \in Ops |-> Blank("free", AnyPool)]
  /\ session = [o \in Ops |-> NoSession]
  /\ instance = [o \in Ops |-> NoInstance]
  /\ pool = [p \in Pools |-> [state |-> "absent", queued |-> 0, active |-> 0]]
  /\ plugin = [g \in Plugins |-> [state |-> "open", queued |-> 0, operations |-> 0, reserved |-> 0]]
  /\ queue = [g \in Plugins |-> {}]
  /\ rotation = <<>>
  /\ live = {} /\ queued = 0 /\ cleaning = 0
  /\ closing = FALSE /\ shared = FALSE
  /\ registry = [next |-> 1, records |-> 0, reserved |-> 0]
  /\ supervisor = "maintain" /\ workers = Workers
  /\ failures = 0
  /\ finalized = [o \in Ops |-> "raw"]

-----------------------------------------------------------------------------
(* Derived views of the state. *)

PluginOf(p) == Policy[p].plugin
SessionOf(o) == IF call[o].kind \in {"open", "session", "closeSession"} THEN call[o].owner ELSE 0
InstanceOf(o) == IF SessionOf(o) = 0 THEN call[o].owner ELSE 0
Kept(table) == {o \in Ops : table[o].state = "kept"}
PoolsOf(g) == {p \in Pools : PluginOf(p) = g /\ pool[p].state \in {"open", "closed"}}
Larger(a, b) == IF a >= b THEN a ELSE b
Least(S) == CHOOSE x \in S : \A y \in S : x <= y

\* state.plugin_active
plugin_active(g) == Total([p \in PoolsOf(g) |-> pool[p].active])

\* state.plugin_sessions
plugin_sessions(g) == Cardinality({s \in Kept(session) : PluginOf(session[s].pool) = g})

\* The VMs of a pool: in a session or instance, with a call, or not yet destroyed.
Resident(p) ==
  LET Holding(r) == r.pool = p /\ (r.lease # "none" \/ r.receipt = "pending")
  IN Cardinality({o \in Ops : Holding(call[o])}) + Cardinality({o \in Ops : Holding(session[o])})
       + Cardinality({o \in Ops : Holding(instance[o])})

\* ModulePool::accounting: a registered pool is charged with its VMs or its floor; a closed
\* pool releases its registration with its last VM.
Guarantee(q) ==
  IF pool[q].state = "closed" /\ Resident(q) = 0 THEN 0 ELSE Larger(Resident(q), Policy[q].floor)
Charges(S) == Total([q \in S |-> Guarantee(q)])

\* state.plugin_commitment: every other pool counts at least its floor.
plugin_commitment(p) == Resident(p) + Charges(PoolsOf(PluginOf(p)) \ {p})

\* state.plugin_allows_allocation
plugin_allows_allocation(p) ==
  /\ plugin[PluginOf(p)].state = "open"
  /\ plugin_commitment(p) < Limits[PluginOf(p)].resident

\* ModulePool::prepare_with_budget finds room for one more VM.
Allocatable(p) == Resident(p) < Policy[p].resident /\ plugin_allows_allocation(p)

\* No failed checkpoint waits for its recovery.
Persisting == ~shared /\ \A o \in live : call[o].retry = "none"

\* The plugin and the registry can retain `n` more operations or reservations.
PluginRetains(g, n) == plugin[g].operations + n <= Limits[g].operations - plugin[g].reserved
RegistryRetains(n) == registry.records + n <= MaxOperations - registry.reserved

-----------------------------------------------------------------------------
(* Admission. *)

\* SchedulerCenter::enqueue after `r` identities were reserved by the same handler.
CanEnqueue(p, r) ==
  LET g == PluginOf(p)
  IN /\ ~closing /\ Persisting
     /\ pool[p].state = "open" /\ plugin[g].state = "open"
     /\ pool[p].queued < Policy[p].queued
     /\ queued < MaxQueued
     /\ plugin[g].queued < Limits[g].queued
     /\ PluginRetains(g, r + 1) /\ RegistryRetains(r + 1)
     /\ registry.next + r <= LastOperation

\* The effect of SchedulerCenter::enqueue on everything but the session.
enqueue(kind, p, owner, r) ==
  LET g == PluginOf(p)
      o == registry.next + r
      reserved == {registry.next} \ {o}
  IN /\ call' = [x \in Ops |->
                   IF x = o THEN [Blank("queued", p) EXCEPT !.kind = kind, !.owner = owner]
                   ELSE IF x \in reserved THEN Blank("reserved", p) ELSE call[x]]
     /\ plugin' = [plugin EXCEPT ![g].queued = @ + 1, ![g].operations = @ + 1, ![g].reserved = @ + r]
     /\ pool' = [pool EXCEPT ![p].queued = @ + 1]
     /\ queued' = queued + 1
     /\ live' = live \cup {o}
     /\ rotation' = IF queue[g] = {} THEN Append(rotation, g) ELSE rotation
     /\ queue' = [queue EXCEPT ![g] = @ \cup {o}]
     /\ registry' = [next |-> o + 1, records |-> registry.records + 1,
                     reserved |-> registry.reserved + r]
     /\ UNCHANGED <<instance, cleaning, closing, shared, supervisor, workers, failures, finalized>>

submit(p) ==
  /\ Policy[p].reuse # "session"
  /\ CanEnqueue(p, 0)
  /\ enqueue("invoke", p, 0, 0)
  /\ UNCHANGED session

prewarm_instance(p) ==
  /\ Policy[p].reuse = "reusable"
  /\ CanEnqueue(p, 0)
  /\ enqueue("prewarm", p, 0, 0)
  /\ UNCHANGED session

\* The VM and, where the pool declares a finalizer, its closing operation are reserved first.
open_session(p) ==
  LET r == IF Policy[p].finalizer THEN 1 ELSE 0
      s == registry.next + r
  IN /\ Policy[p].reuse = "session"
     /\ Cardinality(Kept(session)) < MaxSessions
     /\ plugin_sessions(PluginOf(p)) < Limits[PluginOf(p)].sessions
     /\ CanEnqueue(p, r)
     /\ Allocatable(p)
     /\ enqueue("open", p, s, r)
     /\ session' = [session EXCEPT ![s] =
                      [NoSession EXCEPT !.state = "kept", !.pool = p, !.lease = "raw", !.queued = 1,
                       !.unfinished = 1, !.reservation = IF r = 1 THEN registry.next ELSE 0]]

submit_session(s) ==
  /\ s \in Kept(session)
  /\ ~session[s].closing /\ ~session[s].closed /\ session[s].opened
  /\ CanEnqueue(session[s].pool, 0)
  /\ enqueue("session", session[s].pool, s, 0)
  /\ session' = [session EXCEPT ![s].queued = @ + 1, ![s].unfinished = @ + 1]

-----------------------------------------------------------------------------
(* Dispatch. *)

Idle(p, gone) ==
  {i \in Kept(instance) : /\ instance[i].pool = p /\ ~instance[i].closing
                          /\ instance[i].active = 0 /\ instance[i].lease # "none"} \ gone

\* Only the first queued call of a pool and session is a candidate.
IsFirst(o, q) ==
  \A x \in q : (call[x].pool = call[o].pool /\ SessionOf(x) = SessionOf(o)) => x >= o

\* select: the calls it may try to prepare.
Candidates ==
  {o \in Ops :
     LET p == call[o].pool  g == PluginOf(p)  s == SessionOf(o)
     IN /\ o \in queue[g] /\ IsFirst(o, queue[g])
        /\ plugin[g].state = "open" /\ plugin_active(g) < Limits[g].running
        /\ pool[p].state = "open" /\ ~call[o].expired
        /\ pool[p].active < Policy[p].running
        /\ s # 0 => ~session[s].closing /\ session[s].active = 0}

\* Where an element stands in a sequence.
Position(seq, x) == CHOOSE k \in DOMAIN seq : seq[k] = x

\* A scan follows the rotation and, in one queue, the identities.
Precedes(a, b) ==
  LET g == PluginOf(call[a].pool)  h == PluginOf(call[b].pool)
  IN IF g = h THEN a < b ELSE Position(rotation, g) < Position(rotation, h)
Reached(candidates, o) == {x \in candidates : x = o \/ Precedes(x, o)}

\* What preparing a VM for `o` answers while the instances `gone` are closing.
Prepared(o, gone) ==
  LET p == call[o].pool
      warm == call[o].kind = "prewarm"
      reusable == Policy[p].reuse = "reusable"
      needs == reusable /\ Policy[p].finalizer
  IN IF SessionOf(o) # 0 THEN "session"
     ELSE IF warm /\ Resident(p) >= Policy[p].resident THEN "reject"
     ELSE IF reusable /\ ~warm /\ Idle(p, gone) # {} THEN "cached"
     ELSE IF needs /\ ~PluginRetains(PluginOf(p), 1) THEN "reject"
     ELSE IF ~Allocatable(p) THEN "blocked"
     ELSE IF needs /\ ~RegistryRetains(1) THEN "reject"
     ELSE "fresh"

\* reusable::expire may close this many idle instances whose time is over.
Expirable(p) ==
  {e \in SUBSET Idle(p, {}) : Cardinality(e) <= Larger(0, Cardinality(Idle(p, {})) - Policy[p].floor)}
Elapsed == {e \in SUBSET Kept(instance) :
              \A p \in Pools : {i \in e : instance[i].pool = p} \in Expirable(p)}

\* reusable::reclaim: an idle instance above its pool's floor makes room for `p`.
Victims(p, gone) ==
  LET limited == ~plugin_allows_allocation(p)
      Above(q) == Cardinality(Idle(q, gone)) > Policy[q].floor
      Fits(q) == limited => PluginOf(q) = PluginOf(p)
      from == UNION {Idle(q, gone) : q \in {q \in Pools : Above(q) /\ Fits(q)}}
  IN IF from = {} THEN {} ELSE {Least(from)}

\* The elapsed instances of the reusable pools that a scan of `seen` prepared from.
Outlived(elapsed, seen) ==
  LET Asks(x, p) == /\ call[x].pool = p /\ Policy[p].reuse = "reusable"
                    /\ call[x].kind = "prewarm" => Resident(p) < Policy[p].resident
  IN {i \in elapsed : \E x \in seen : Asks(x, instance[i].pool)}

\* A scan reclaims at most once: for the first blocked candidate that finds a victim.
Reclaimers(elapsed, candidates) ==
  LET Before(o) == Outlived(elapsed, Reached(candidates, o))
      finds == {o \in candidates :
                  /\ \A x \in Reached(candidates, o) : Prepared(x, Before(x)) = "blocked"
                  /\ Resident(call[o].pool) < Policy[call[o].pool].resident
                  /\ Victims(call[o].pool, Before(o)) # {}}
  IN {o \in finds : \A x \in finds : ~Precedes(x, o)}

\* The instances that are closed once a scan has come through `seen`.
Gone(elapsed, candidates, seen) ==
  Outlived(elapsed, seen) \cup
    UNION {Victims(call[o].pool, Outlived(elapsed, Reached(candidates, o))) :
             o \in Reclaimers(elapsed, candidates) \cap seen}

(* take_call: the calls `taken` leave the queue, rotated to `turned`, and every count. *)
\* (mutant) the count ignores which pool a call belongs to.
PoolTakenAnywhere(taken, p) == Cardinality(taken)
PoolTaken(taken, p) == Cardinality({o \in taken : call[o].pool = p})
PluginTaken(taken, g) == Cardinality({o \in taken : PluginOf(call[o].pool) = g})
\* (mutant) rejected calls stay counted by their session.
SessionTakenNever(taken, s) == 0
SessionTaken(taken, s) == Cardinality({o \in taken : SessionOf(o) = s})
\* The elements of `kept` in the order they have in a sequence (the only member).
Retain(seq, kept) ==
  {r \in [1..Cardinality(kept) -> kept] :
     \A i, j \in DOMAIN r : i < j => Position(seq, r[i]) < Position(seq, r[j])}
take_call(taken, turned) ==
  /\ queue' = [g \in Plugins |-> queue[g] \ taken]
  /\ rotation' \in Retain(turned, {g \in Plugins : queue[g] \ taken # {}})
  /\ queued' = queued - Cardinality(taken)

\* rotation.rotate_left: the plugin that was served goes to the back.
Turned(g) ==
  LET k == Position(rotation, g)
  IN SubSeq(rotation, k + 1, Len(rotation)) \o SubSeq(rotation, 1, k)

\* An execution thread waits for work and no failed checkpoint holds it back.
WorkerReady ==
  /\ Persisting
  /\ Cardinality({o \in live : call[o].pc \in {"running", "closing"}}) < workers

Closing(table, gone) == [i \in Ops |-> IF i \in gone THEN [table[i] EXCEPT !.closing = TRUE] ELSE table[i]]

\* select took a call: the tables after its VM moved to the worker.
Dispatched(o, gone, how) ==
  LET p == call[o].pool  g == PluginOf(p)  s == SessionOf(o)
      marked == Closing(instance, gone)
      i == IF how = "cached" THEN Least(Idle(p, gone)) ELSE o
      owned == how = "cached" \/ (how = "fresh" /\ Policy[p].reuse = "reusable")
      r == IF how = "fresh" /\ owned /\ Policy[p].finalizer THEN 1 ELSE 0
      lease == CASE how = "session" -> session[s].lease
                 [] how = "cached" -> instance[i].lease
                 [] how = "fresh" -> "raw"
                 [] how = "reject" -> "none"
  IN /\ r = 1 => registry.next <= LastOperation
     /\ call' = [x \in Ops |->
          IF x = o
          THEN [call[o] EXCEPT !.pc = IF how = "reject" THEN "cleaning" ELSE "running",
                               !.dispatched = how # "reject", !.lease = lease,
                               !.owner = IF owned THEN i ELSE call[o].owner]
          ELSE IF r = 1 /\ x = registry.next THEN Blank("reserved", p) ELSE call[x]]
     /\ session' = IF s = 0 THEN session
                   ELSE [session EXCEPT ![s].lease = "none", ![s].active = o, ![s].queued = @ - 1]
     /\ instance' = IF ~owned THEN marked
                    ELSE [marked EXCEPT ![i] =
                            IF how = "cached" THEN [@ EXCEPT !.active = o, !.lease = "none"]
                            ELSE [NoInstance EXCEPT !.state = "kept", !.pool = p, !.active = o,
                                  !.reservation = IF r = 1 THEN registry.next ELSE 0]]
     /\ pool' = [pool EXCEPT ![p].queued = @ - 1, ![p].active = IF how = "reject" THEN @ ELSE @ + 1]
     /\ plugin' = [plugin EXCEPT ![g].queued = @ - 1, ![g].reserved = @ + r]
     /\ registry' = [registry EXCEPT !.next = @ + r, !.reserved = @ + r]
     /\ cleaning' = IF how = "reject" THEN cleaning + 1 ELSE cleaning
     /\ take_call({o}, Turned(g))

\* An idle worker scans the queues; a scan without a call may still have closed instances.
select ==
  /\ WorkerReady /\ ~closing
  /\ \A o \in live : call[o].pc # "finalizing"
  /\ \E candidates \in {Candidates} : \E elapsed \in Elapsed :
       LET Before(o) == Gone(elapsed, candidates, Reached(candidates, o))
           Blocked(o) == Prepared(o, Before(o)) = "blocked"
       IN \/ \E o \in candidates :
               /\ ~Blocked(o) /\ \A x \in Reached(candidates, o) \ {o} : Blocked(x)
               /\ Dispatched(o, Before(o), Prepared(o, Before(o)))
          \/ /\ \A o \in candidates : Blocked(o)
             /\ Gone(elapsed, candidates, candidates) # {}
             /\ instance' = Closing(instance, Gone(elapsed, candidates, candidates))
             /\ UNCHANGED <<call, session, pool, plugin, queue, rotation, queued, cleaning, registry>>
  /\ UNCHANGED <<live, closing, shared, supervisor, workers, failures, finalized>>

\* How a worker's initialization and call can leave the result and the VM.
Outcomes(o) ==
  LET used == IF Policy[call[o].pool].finalizer THEN "worn" ELSE "dead"
      born == {<<TRUE, "live">>, <<TRUE, used>>, <<FALSE, "live">>, <<FALSE, used>>}
  IN IF call[o].lease = "raw" THEN born \cup {<<FALSE, "raw">>, <<FALSE, "dead">>} ELSE born

\* The VM a call runs on, named by its session, its instance or itself.
VmOf(o) == IF call[o].owner = 0 THEN o ELSE call[o].owner

\* The end of invoke and the section of execute that hands the call to the supervisor.
invoke(o) ==
  /\ call[o].pc = "running"
  /\ \E out \in Outcomes(o) :
       LET ok == out[1]  lease == out[2]  p == call[o].pool
           s == SessionOf(o)  i == InstanceOf(o)
           plan == Plan(lease, p)
           final == call[o].owner = 0 /\ plan
           keep == call[o].owner # 0 /\ ((ok /\ lease = "live") \/ plan)
           lost == ~keep \/ ~ok \/ lease # "live"
       IN /\ call' = [call EXCEPT ![o].pc = "cleaning",
                                  ![o].lease = IF final \/ keep THEN lease ELSE "none",
                                  ![o].final = IF final THEN "intent" ELSE "none",
                                  ![o].receipt = IF final \/ keep THEN "none" ELSE Receipt(lease)]
          /\ session' = IF s # 0 /\ lost THEN [session EXCEPT ![s].closing = TRUE] ELSE session
          /\ instance' = IF i # 0 /\ lost THEN [instance EXCEPT ![i].closing = TRUE] ELSE instance
          /\ finalized' = IF plan /\ finalized[VmOf(o)] = "raw"
                          THEN [finalized EXCEPT ![VmOf(o)] = "due"] ELSE finalized
  /\ cleaning' = cleaning + 1
  /\ UNCHANGED <<pool, plugin, queue, rotation, live, queued, closing, shared, registry,
                 supervisor, workers, failures>>

\* (mutant) finalizers wait, like queued calls, until the runtime is not closing.
BeginFinalizationUnlessClosing(o) ==
  /\ WorkerReady /\ ~closing
  /\ call[o].pc = "finalizing"
  /\ call' = [call EXCEPT ![o].pc = "closing"]
  /\ UNCHANGED <<session, instance, pool, plugin, queue, rotation, live, queued, cleaning,
                 closing, shared, registry, supervisor, workers, failures, finalized>>

\* A worker takes a durable closing continuation before any queued call.
begin_finalization(o) ==
  /\ WorkerReady
  /\ call[o].pc = "finalizing"
  /\ call' = [call EXCEPT ![o].pc = "closing"]
  /\ UNCHANGED <<session, instance, pool, plugin, queue, rotation, live, queued, cleaning,
                 closing, shared, registry, supervisor, workers, failures, finalized>>

\* finalization::execute and the following section: the finalizer ran, with any outcome.
finish_finalization(o) ==
  LET s == SessionOf(o)  i == InstanceOf(o)
  IN /\ call[o].pc = "closing"
     /\ call' = [call EXCEPT ![o].pc = "cleaning", ![o].final = "ran"]
     /\ session' = IF s # 0 THEN [session EXCEPT ![s].closing = TRUE] ELSE session
     /\ instance' = IF i # 0 THEN [instance EXCEPT ![i].closing = TRUE] ELSE instance
     /\ finalized' = [finalized EXCEPT ![VmOf(o)] = IF @ = "due" THEN "once" ELSE "again"]
     /\ UNCHANGED <<pool, plugin, queue, rotation, live, queued, cleaning, closing, shared,
                    registry, supervisor, workers, failures>>

\* Nothing is left for any thread of a closing runtime.
Drained ==
  /\ closing /\ live = {}
  /\ \A s \in Kept(session) : session[s].closed
  /\ Kept(instance) = {}

exit_worker ==
  /\ Drained /\ workers > 0
  /\ workers' = workers - 1
  /\ UNCHANGED <<call, session, instance, pool, plugin, queue, rotation, live, queued, cleaning,
                 closing, shared, registry, supervisor, failures, finalized>>

-----------------------------------------------------------------------------
(* Supervision.  Each round maintains sessions and instances, takes the      *)
(* completions, drives every one of them and puts back what is unfinished.   *)

\* observe_shared_checkpoint_failures and the first sections of sessions::maintain and
\* reusable::maintain.  An idle lease is taken here and finished before the next section.
maintain ==
  /\ supervisor = "maintain"
  /\ shared' = \E o \in live : call[o].evidence \/ (call[o].retry \in {"waiting", "requested"} /\ ~call[o].prepared)
  /\ \E elapsed \in Elapsed :
       LET Ends(r) == r.state = "kept" /\ (r.closing \/ closing \/ pool[r.pool].state = "closed")
           Retires(r) == r.lease # "none" /\ r.active = 0 /\ ~Plan(r.lease, r.pool)
           Kill(r) == [r EXCEPT !.closing = TRUE, !.retiring = TRUE, !.lease = "none",
                                !.receipt = Receipt(r.lease)]
           Mark(r) == [r EXCEPT !.closing = TRUE]
       IN /\ session' = [s \in Ops |->
               IF ~Ends(session[s]) THEN session[s]
               ELSE IF Retires(session[s]) /\ session[s].unfinished = 0 THEN Kill(session[s])
               ELSE Mark(session[s])]
          /\ instance' = [i \in Ops |->
               LET r == Closing(instance, elapsed)[i]
               IN IF ~Ends(r) THEN r ELSE IF Retires(r) THEN Kill(r) ELSE Mark(r)]
  /\ supervisor' = "schedule"
  /\ UNCHANGED <<call, pool, plugin, queue, rotation, live, queued, cleaning, closing, registry,
                 workers, failures, finalized>>

\* A closing owner without work whose VM must run its finalizer, and capacity to run it.
Finalizable(r) ==
  /\ r.state = "kept" /\ r.closing /\ r.active = 0 /\ r.lease # "none" /\ Plan(r.lease, r.pool)
  /\ pool[r.pool].active < Policy[r.pool].running
  /\ plugin_active(PluginOf(r.pool)) < Limits[PluginOf(r.pool)].running

\* sessions_finalization::schedule and reusable_finalization::schedule: the reservation
\* becomes a live operation that is already with the supervisor.
Scheduled(kind, owner, r) ==
  LET o == r.reservation  g == PluginOf(r.pool)
  IN /\ call' = [call EXCEPT ![o] = [Blank("cleaning", r.pool) EXCEPT !.kind = kind, !.owner = owner,
                                       !.dispatched = TRUE, !.lease = r.lease, !.final = "intent"]]
     /\ plugin' = [plugin EXCEPT ![g].reserved = @ - 1, ![g].operations = @ + 1]
     /\ registry' = [registry EXCEPT !.reserved = @ - 1, !.records = @ + 1]
     /\ pool' = [pool EXCEPT ![r.pool].active = @ + 1]
     /\ live' = live \cup {o}
     /\ cleaning' = cleaning + 1
     /\ UNCHANGED <<queue, rotation, queued, closing, shared, supervisor, workers, failures, finalized>>

schedule_session(s) ==
  /\ supervisor = "schedule"
  /\ Finalizable(session[s]) /\ session[s].unfinished = 0
  /\ Scheduled("closeSession", s, session[s])
  /\ session' = [session EXCEPT ![s].reservation = 0, ![s].lease = "none", ![s].unfinished = 1,
                                ![s].active = session[s].reservation]
  /\ UNCHANGED instance

schedule_instance(i) ==
  /\ supervisor = "schedule"
  /\ Finalizable(instance[i])
  /\ Scheduled("closeInstance", i, instance[i])
  /\ instance' = [instance EXCEPT ![i].reservation = 0, ![i].lease = "none",
                                  ![i].active = instance[i].reservation]
  /\ UNCHANGED session

\* reusable::prune: closing instances whose VM is destroyed.
Pruned ==
  {i \in Kept(instance) : LET r == instance[i] IN
     /\ r.closing /\ r.active = 0 /\ r.lease = "none" /\ ~r.retiring /\ r.receipt # "pending"}

\* Unused reservations return to the plugin and the registry; their identities are spent.
Unreserved(ids) ==
  /\ call' = [o \in Ops |-> IF o \in ids THEN Blank("forgotten", call[o].pool) ELSE call[o]]
  /\ plugin' = [g \in Plugins |-> [plugin[g] EXCEPT !.reserved = @ - PluginTaken(ids, g)]]
  /\ registry' = [registry EXCEPT !.reserved = @ - Cardinality(ids)]

\* The last sections of sessions::maintain and reusable::maintain.
finish_maintain ==
  LET rested(table) == [o \in Ops |-> [table[o] EXCEPT !.retiring = FALSE]]
      ended == {s \in Kept(session) : LET r == session[s] IN
                  /\ r.closing /\ r.active = 0 /\ r.unfinished = 0 /\ r.lease = "none"
                  /\ r.receipt # "pending"}
      gone == {i \in Kept(instance) : LET r == instance[i] IN
                  /\ r.closing /\ r.active = 0 /\ r.lease = "none" /\ r.receipt # "pending"}
  IN /\ supervisor = "schedule"
     /\ \A s \in Ops : ~(Finalizable(session[s]) /\ session[s].unfinished = 0)
     /\ \A i \in Ops : ~Finalizable(instance[i])
     /\ session' = [s \in Ops |->
          IF s \in ended THEN [rested(session)[s] EXCEPT !.closed = TRUE, !.reservation = 0]
          ELSE rested(session)[s]]
     /\ instance' = [i \in Ops |-> IF i \in gone THEN NoInstance ELSE rested(instance)[i]]
     /\ Unreserved(({session[s].reservation : s \in ended} \cup {instance[i].reservation : i \in gone}) \ {0})
     /\ supervisor' = "take"
     /\ UNCHANGED <<pool, queue, rotation, live, queued, cleaning, closing, shared, workers,
                    failures, finalized>>

\* (mutant) the session of a refused opening stays open.
OpeningRefusedQuietly(r) == [r EXCEPT !.lease = "none", !.queued = @ - 1]

\* A refused opening closes its session and takes the prepared VM along.
OpeningRefused(r) == [r EXCEPT !.closing = TRUE, !.lease = "none", !.queued = @ - 1]

\* reject_expired, then the supervisor takes every completion.
reject_expired ==
  LET Refused(o) ==
        /\ call[o].pc = "queued"
        /\ \/ call[o].expired \/ closing \/ pool[call[o].pool].state = "closed"
           \/ SessionOf(o) # 0 /\ session[SessionOf(o)].closing
      expired == {o \in live : Refused(o)}
      opening == {o \in expired : call[o].kind = "open"}
  IN /\ supervisor = "take"
     /\ call' = [o \in Ops |->
          IF o \in opening THEN [call[o] EXCEPT !.pc = "supervised", !.lease = session[o].lease]
          ELSE IF o \in expired \/ call[o].pc = "cleaning" THEN [call[o] EXCEPT !.pc = "supervised"]
          ELSE call[o]]
     /\ session' = [s \in Ops |->
          IF s \in opening THEN OpeningRefused(session[s])
          ELSE [session[s] EXCEPT !.queued = @ - SessionTaken(expired, s)]]
     /\ pool' = [p \in Pools |-> [pool[p] EXCEPT !.queued = @ - PoolTaken(expired, p)]]
     /\ plugin' = [g \in Plugins |-> [plugin[g] EXCEPT !.queued = @ - PluginTaken(expired, g)]]
     /\ cleaning' = cleaning + Cardinality(expired)
     /\ take_call(expired, rotation)
     /\ supervisor' = "complete"
     /\ UNCHANGED <<instance, live, closing, shared, registry, workers, failures, finalized>>

-----------------------------------------------------------------------------
(* complete: one completion, from the gates of its first section to its publication. *)

OwnerClosing(o) ==
  \/ closing \/ pool[call[o].pool].state = "closed"
  \/ SessionOf(o) # 0 /\ session[SessionOf(o)].closing
  \/ InstanceOf(o) # 0 /\ instance[InstanceOf(o)].closing

\* (mutant) a VM that still owes its finalizer is retired as well.
MustCloseAnyVm(o) ==
  /\ call[o].final = "none" /\ ~call[o].prepared /\ call[o].lease # "none" /\ OwnerClosing(o)

\* A retained VM that may not return to its owner and has no finalizer of its own.
MustClose(o) ==
  /\ call[o].final = "none" /\ ~call[o].prepared /\ call[o].lease # "none"
  /\ OwnerClosing(o) /\ ~Plan(call[o].lease, call[o].pool)

\* The supervisor retires such a VM itself and looks again in its next round.
close_retained(o) ==
  LET s == SessionOf(o)  i == InstanceOf(o)
  IN /\ call[o].pc = "supervised" /\ MustClose(o)
     /\ call' = [call EXCEPT ![o].pc = "held", ![o].lease = "none", ![o].receipt = Receipt(call[o].lease)]
     /\ session' = IF s # 0 THEN [session EXCEPT ![s].closing = TRUE] ELSE session
     /\ instance' = IF i # 0 THEN [instance EXCEPT ![i].closing = TRUE] ELSE instance
     /\ UNCHANGED <<pool, plugin, queue, rotation, live, queued, cleaning, closing, shared,
                    registry, supervisor, workers, failures, finalized>>

\* The next durable step a completion needs, and the record once it is acknowledged.
Needs(c) == c.final \in {"intent", "ran"} \/ ~c.started \/ c.receipt # "pending"
Acknowledged(c) ==
  CASE c.final = "intent" -> [c EXCEPT !.pc = "finalizing", !.final = "durable", !.started = TRUE, !.retry = "none"]
    [] c.final = "ran" -> [c EXCEPT !.final = "none", !.lease = "none", !.receipt = "pending", !.retry = "none"]
    [] c.final = "none" /\ ~c.started -> [c EXCEPT !.started = TRUE, !.retry = "none"]
    [] OTHER -> [c EXCEPT !.pc = "publishing", !.receipt = "none", !.prepared = TRUE]
\* A terminal candidate is frozen before its checkpoint is attempted.
Attempted(c) ==
  [c EXCEPT !.pc = "held", !.receipt = IF c.final = "none" /\ c.started THEN "none" ELSE @,
            !.prepared = @ \/ (c.final = "none" /\ c.started)]

\* A checkpoint that is not acknowledged, acknowledged, or failed.
advance(o, result) ==
  LET c == call[o]
      tried == IF c.retry = "requested" THEN [c EXCEPT !.retry = "retrying"] ELSE c
  IN /\ c.pc = "supervised" /\ ~MustClose(o)
     /\ c.retry # "waiting" /\ Needs(c)
     /\ c.evidence => result = "pending"
     /\ call' = [call EXCEPT ![o] =
          CASE result = "pending" -> IF c.evidence THEN [tried EXCEPT !.pc = "held"] ELSE Attempted(tried)
            [] result = "done" -> Acknowledged(tried)
            [] result = "failed" -> [Attempted(tried) EXCEPT !.retry = "waiting"]]
     /\ failures' = IF result = "failed" THEN failures + 1 ELSE failures
     /\ failures' <= MaxFailures
     /\ UNCHANGED <<session, instance, pool, plugin, queue, rotation, live, queued, cleaning,
                    closing, shared, registry, supervisor, workers, finalized>>

\* A failed checkpoint nobody asked to retry, or a VM that is not destroyed yet.
hold(o) ==
  /\ call[o].pc = "supervised" /\ ~MustClose(o)
  /\ call[o].retry = "waiting" \/ ~Needs(call[o])
  /\ call' = [call EXCEPT ![o].pc = "held"]
  /\ UNCHANGED <<session, instance, pool, plugin, queue, rotation, live, queued, cleaning,
                 closing, shared, registry, supervisor, workers, failures, finalized>>

\* The last section: the terminal record is published and every owner settles its count.
publish_completion(o) ==
  LET c == call[o]  p == c.pool  s == SessionOf(o)  i == InstanceOf(o)
      back == c.lease # "none"
      res == IF i # 0 /\ ~back THEN {instance[i].reservation} \ {0} ELSE {}
  IN /\ c.pc = "publishing"
     /\ live' = live \ {o}
     /\ cleaning' = cleaning - 1
     /\ pool' = IF c.dispatched THEN [pool EXCEPT ![p].active = @ - 1] ELSE pool
     /\ instance' = IF i = 0 THEN instance
                    ELSE IF back THEN [instance EXCEPT ![i].active = 0, ![i].lease = c.lease]
                    ELSE [instance EXCEPT ![i] = NoInstance]
     /\ session' = IF s = 0 THEN session
                   ELSE LET less == [session EXCEPT ![s].unfinished = @ - 1]
                        IN IF c.dispatched /\ back
                           THEN [less EXCEPT ![s].active = 0, ![s].lease = c.lease, ![s].opened = TRUE]
                           ELSE IF c.dispatched THEN [less EXCEPT ![s].active = 0, ![s].closing = TRUE]
                           ELSE IF c.kind = "open" THEN [less EXCEPT ![s].closing = TRUE] ELSE less
     /\ call' = [x \in Ops |-> IF x = o THEN Blank("done", p)
                               ELSE IF x \in res THEN Blank("forgotten", p) ELSE call[x]]
     /\ plugin' = [plugin EXCEPT ![PluginOf(p)].reserved = @ - Cardinality(res)]
     /\ registry' = [registry EXCEPT !.reserved = @ - Cardinality(res)]
     /\ UNCHANGED <<queue, rotation, queued, closing, shared, supervisor, workers, failures, finalized>>

\* The end of a round: unfinished completions return, and a drained runtime ends the thread.
extend ==
  /\ supervisor = "complete"
  /\ \A o \in live : call[o].pc \notin {"supervised", "publishing"}
  /\ call' = [o \in Ops |-> IF call[o].pc = "held" THEN [call[o] EXCEPT !.pc = "cleaning"] ELSE call[o]]
  /\ supervisor' = IF Drained THEN "exited" ELSE "maintain"
  /\ UNCHANGED <<session, instance, pool, plugin, queue, rotation, live, queued, cleaning, closing,
                 shared, registry, workers, failures, finalized>>

-----------------------------------------------------------------------------
(* The retirement worker and failing checkpoints. *)

\* A pending cleanup ends (ModulePool models it).
retire(o) ==
  /\ \/ call[o].receipt = "pending" /\ call' = [call EXCEPT ![o].receipt = "completed"]
        /\ UNCHANGED <<session, instance>>
     \/ session[o].receipt = "pending" /\ session' = [session EXCEPT ![o].receipt = "completed"]
        /\ UNCHANGED <<call, instance>>
     \/ instance[o].receipt = "pending" /\ instance' = [instance EXCEPT ![o].receipt = "completed"]
        /\ UNCHANGED <<call, session>>
  /\ UNCHANGED <<pool, plugin, queue, rotation, live, queued, cleaning, closing, shared, registry,
                 supervisor, workers, failures, finalized>>

\* A checkpoint of the host effects of a running call fails and stays with the operation.
fail_evidence(o) ==
  /\ call[o].pc = "running" /\ ~call[o].evidence /\ failures < MaxFailures
  /\ call' = [call EXCEPT ![o].evidence = TRUE]
  /\ failures' = failures + 1
  /\ UNCHANGED <<session, instance, pool, plugin, queue, rotation, live, queued, cleaning, closing,
                 shared, registry, supervisor, workers, finalized>>

-----------------------------------------------------------------------------
(* The host's operations. *)

\* The host asks for one retry of a failed checkpoint.
retry_checkpoint(o) ==
  /\ o \in live
  /\ \/ call[o].retry = "waiting" /\ call' = [call EXCEPT ![o].retry = "requested"]
     \/ call[o].retry = "none" /\ call[o].evidence /\ call' = [call EXCEPT ![o].evidence = FALSE]
  /\ UNCHANGED <<session, instance, pool, plugin, queue, rotation, live, queued, cleaning, closing,
                 shared, registry, supervisor, workers, failures, finalized>>

\* A queued call is cancelled or its deadline passes.
expire_call(o) ==
  /\ call[o].pc = "queued" /\ ~call[o].expired
  /\ call' = [call EXCEPT ![o].expired = TRUE]
  /\ UNCHANGED <<session, instance, pool, plugin, queue, rotation, live, queued, cleaning, closing,
                 shared, registry, supervisor, workers, failures, finalized>>

forget_operation(o) ==
  LET g == PluginOf(call[o].pool)
  IN /\ call[o].pc = "done"
     /\ call' = [call EXCEPT ![o].pc = "forgotten"]
     /\ registry' = [registry EXCEPT !.records = @ - 1]
     /\ plugin' = [plugin EXCEPT ![g].operations = @ - 1]
     /\ UNCHANGED <<session, instance, pool, queue, rotation, live, queued, cleaning, closing,
                    shared, supervisor, workers, failures, finalized>>

close_session(s) ==
  /\ s \in Kept(session) /\ ~session[s].closing
  /\ session' = [session EXCEPT ![s].closing = TRUE]
  /\ UNCHANGED <<call, instance, pool, plugin, queue, rotation, live, queued, cleaning, closing,
                 shared, registry, supervisor, workers, failures, finalized>>

forget_session(s) ==
  /\ s \in Kept(session) /\ session[s].closed
  /\ session' = [session EXCEPT ![s] = [NoSession EXCEPT !.state = "forgotten"]]
  /\ UNCHANGED <<call, instance, pool, plugin, queue, rotation, live, queued, cleaning, closing,
                 shared, registry, supervisor, workers, failures, finalized>>

register_pool(p) ==
  LET g == PluginOf(p)
  IN /\ ~closing /\ pool[p].state = "absent" /\ plugin[g].state = "open"
     /\ Cardinality({q \in Pools : pool[q].state \in {"open", "closed"}}) < MaxPools
     /\ Policy[p].floor + Charges(PoolsOf(g)) <= Limits[g].resident
     /\ pool' = [pool EXCEPT ![p].state = "open"]
     /\ UNCHANGED <<call, session, instance, plugin, queue, rotation, live, queued, cleaning,
                    closing, shared, registry, supervisor, workers, failures, finalized>>

\* What the host has closed so far.
Closures ==
  Cardinality({g \in Plugins : plugin[g].state # "open"}) + (IF closing THEN 1 ELSE 0)
    + Cardinality({p \in Pools : plugin[PluginOf(p)].state = "open" /\ pool[p].state \in {"closed", "forgotten"}})
MayClose == Closures < MaxClosures

close_pool(p) ==
  /\ pool[p].state = "open" /\ MayClose
  /\ pool' = [pool EXCEPT ![p].state = "closed"]
  /\ UNCHANGED <<call, session, instance, plugin, queue, rotation, live, queued, cleaning, closing,
                 shared, registry, supervisor, workers, failures, finalized>>

\* (mutant) closed sessions no longer keep their pool.
ForgetPoolWithSessions(p) ==
  /\ pool[p].state = "closed" /\ pool[p].queued = 0 /\ pool[p].active = 0 /\ Resident(p) = 0
  /\ \A i \in Kept(instance) \ Pruned : instance[i].pool # p
  /\ pool' = [pool EXCEPT ![p].state = "forgotten"]
  /\ instance' = [i \in Ops |-> IF i \in Pruned THEN NoInstance ELSE instance[i]]
  /\ Unreserved({instance[i].reservation : i \in Pruned} \ {0})
  /\ UNCHANGED <<session, queue, rotation, live, queued, cleaning, closing, shared, supervisor,
                 workers, failures, finalized>>

\* forget_pool prunes first, then refuses a pool that still owns anything.
forget_pool(p) ==
  /\ pool[p].state = "closed" /\ pool[p].queued = 0 /\ pool[p].active = 0
  /\ Resident(p) = 0
  /\ \A s \in Kept(session) : session[s].pool # p
  /\ \A i \in Kept(instance) \ Pruned : instance[i].pool # p
  /\ pool' = [pool EXCEPT ![p].state = "forgotten"]
  /\ instance' = [i \in Ops |-> IF i \in Pruned THEN NoInstance ELSE instance[i]]
  /\ Unreserved({instance[i].reservation : i \in Pruned} \ {0})
  /\ UNCHANGED <<session, queue, rotation, live, queued, cleaning, closing, shared, supervisor,
                 workers, failures, finalized>>

close_plugin(g) ==
  /\ plugin[g].state = "open" /\ MayClose
  /\ plugin' = [plugin EXCEPT ![g].state = "closing"]
  /\ pool' = [p \in Pools |-> IF p \in PoolsOf(g) THEN [pool[p] EXCEPT !.state = "closed"] ELSE pool[p]]
  /\ UNCHANGED <<call, session, instance, queue, rotation, live, queued, cleaning, closing, shared,
                 registry, supervisor, workers, failures, finalized>>

forget_plugin(g) ==
  /\ plugin[g].state = "closing" \/ (plugin[g].state = "open" /\ closing)
  /\ plugin[g].operations = 0 /\ plugin[g].reserved = 0 /\ PoolsOf(g) = {}
  /\ plugin' = [plugin EXCEPT ![g].state = "absent"]
  /\ UNCHANGED <<call, session, instance, pool, queue, rotation, live, queued, cleaning, closing,
                 shared, registry, supervisor, workers, failures, finalized>>

request_close ==
  /\ ~closing /\ MayClose
  /\ closing' = TRUE
  /\ UNCHANGED <<call, session, instance, pool, plugin, queue, rotation, live, queued, cleaning,
                 shared, registry, supervisor, workers, failures, finalized>>

-----------------------------------------------------------------------------
Host ==
  \/ \E p \in Pools : \/ submit(p) \/ prewarm_instance(p) \/ open_session(p)
                      \/ register_pool(p) \/ close_pool(p) \/ forget_pool(p)
  \/ \E o \in Ops : \/ submit_session(o) \/ close_session(o) \/ forget_session(o)
                    \/ forget_operation(o) \/ retry_checkpoint(o) \/ expire_call(o)
  \/ \E g \in Plugins : close_plugin(g) \/ forget_plugin(g)
  \/ request_close

Worker ==
  \/ select \/ exit_worker
  \/ \E o \in Ops : invoke(o) \/ begin_finalization(o) \/ finish_finalization(o)

Supervise ==
  \/ maintain \/ finish_maintain \/ reject_expired \/ extend
  \/ \E o \in Ops : \/ schedule_session(o) \/ schedule_instance(o)
                    \/ close_retained(o) \/ hold(o) \/ publish_completion(o)
                    \/ \E result \in {"pending", "done", "failed"} : advance(o, result)

Next == Host \/ Worker \/ Supervise \/ \E o \in Ops : retire(o) \/ fail_evidence(o)

Spec == Init /\ [][Next]_vars

-----------------------------------------------------------------------------
\* The variables keep their types.
SchedulerTypeOK ==
  /\ call \in [Ops -> Call] /\ session \in [Ops -> Session] /\ instance \in [Ops -> Instance]
  /\ pool \in [Pools -> [state : {"absent", "open", "closed", "forgotten"}, queued : Nat, active : Nat]]
  /\ plugin \in [Plugins -> [state : {"open", "closing", "absent"}, queued : Nat, operations : Nat,
                             reserved : Nat]]
  /\ live \subseteq Ops

Fairness ==
  /\ WF_vars(Supervise) /\ WF_vars(Worker)
  /\ WF_vars(\E o \in Ops : retire(o))
  /\ WF_vars(\E o \in Ops : retry_checkpoint(o) \/ expire_call(o))
  /\ SF_vars(\E o \in Ops : advance(o, "done"))

FairSpec == Spec /\ Fairness

-----------------------------------------------------------------------------
In(pcs) == {o \in Ops : call[o].pc \in pcs}
Retained == Ops \ In({"free", "reserved", "forgotten"})

\* Every count the scheduler keeps beside its tables is the count of what it stands for: the
\* queues and their rotation (enqueue, take_call), the active and cleaning calls (select,
\* publish), unfinished session calls, retained operations and reservations, in the plugin and
\* in the registry.
CountsExact ==
  LET Of(g, set) == {o \in set : PluginOf(call[o].pool) = g}
  IN /\ live = Retained \ In({"done"})
     /\ queued = Cardinality(In({"queued"}))
     /\ cleaning = Cardinality(live \ In({"queued", "running"}))
     /\ registry.records = Cardinality(Retained) /\ registry.reserved = Cardinality(In({"reserved"}))
     /\ \A g \in Plugins :
          /\ queue[g] = Of(g, In({"queued"})) /\ plugin[g].queued = Cardinality(queue[g])
          /\ Cardinality({k \in DOMAIN rotation : rotation[k] = g}) = IF queue[g] = {} THEN 0 ELSE 1
          /\ plugin[g].operations = Cardinality(Of(g, Retained))
          /\ plugin[g].reserved = Cardinality(Of(g, In({"reserved"})))
     /\ \A p \in Pools :
          /\ pool[p].queued = Cardinality({o \in In({"queued"}) : call[o].pool = p})
          /\ pool[p].active = Cardinality({o \in live : call[o].pool = p /\ call[o].dispatched})
     /\ \A s \in Kept(session) :
          /\ session[s].queued = Cardinality({o \in In({"queued"}) : SessionOf(o) = s})
          /\ session[s].unfinished = Cardinality({o \in live : SessionOf(o) = s})

\* The limits hold whatever the order of calls, closings and prewarms: a reserved closing
\* operation always finds its place, and no pool or plugin runs or keeps more than it may.
LimitsKept ==
  /\ registry.records + registry.reserved <= MaxOperations
  /\ \A g \in Plugins :
       /\ plugin[g].operations + plugin[g].reserved <= Limits[g].operations
       /\ plugin_active(g) <= Limits[g].running
       /\ Total([p \in PoolsOf(g) |-> Resident(p)]) <= Limits[g].resident
  /\ \A p \in Pools : pool[p].active <= Policy[p].running /\ Resident(p) <= Policy[p].resident

\* An owner that can be given a call has its VM at hand ("idle session lost its lease" is never
\* answered), and a VM is never with its owner and with a call at once.
OneHolder ==
  \A o \in Ops :
    LET with == {x \in live : VmOf(x) = o /\ call[x].lease # "none"}
    IN /\ \A r \in {session[o], instance[o]} :
            r.state = "kept" =>
              /\ r.active = 0 /\ ~r.closing => r.lease # "none"
              /\ r.lease # "none" => r.active = 0 /\ with = {}
              /\ r.active # 0 => r.active \in live /\ VmOf(r.active) = o
       /\ Cardinality(with) <= 1

\* What the code looks up with expect() is there: pools of owners and of counted calls, owners
\* of live calls, plugins of retained operations, and the reservation of a VM that must finalize;
\* and no thread has left while a call, a session or an instance still needs one.
OwnersRetained ==
  /\ supervisor = "exited" \/ workers < Workers => Drained
  /\ \A r \in {session[s] : s \in Kept(session)} \cup {instance[i] : i \in Kept(instance)} :
       /\ pool[r.pool].state \in {"open", "closed"}
       /\ Plan(r.lease, r.pool) => r.reservation # 0 /\ call[r.reservation].pc = "reserved"
  /\ \A o \in live :
       /\ call[o].pc = "queued" \/ call[o].dispatched => pool[call[o].pool].state \in {"open", "closed"}
       /\ SessionOf(o) # 0 => SessionOf(o) \in Kept(session)
       /\ InstanceOf(o) # 0 => InstanceOf(o) \in Kept(instance)
  /\ \A o \in Retained \cup In({"reserved"}) : plugin[PluginOf(call[o].pool)].state # "absent"

\* The scheduler's books: counters and limits are exact, every VM has one holder,
\* and nothing that is still needed is forgotten.
BooksExact == CountsExact /\ LimitsKept /\ OneHolder /\ OwnersRetained

\* A VM that ran Lua in a pool with a finalizer runs the finalizer exactly once before it is
\* retired, through every path of closing, failure, reuse and shutdown.
FinalizedOnce ==
  \A o \in Ops :
    /\ finalized[o] # "again"
    /\ finalized[o] = "due" =>
         \/ session[o].lease # "none" \/ instance[o].lease # "none"
         \/ \E x \in live : VmOf(x) = o /\ call[x].lease # "none"

\* Every admitted call ends, every closing session or instance is closed and a closing runtime
\* ends all its threads: once the (bounded) host stops submitting, that is how the scheduler
\* rests, provided it retries the checkpoints that failed.
EverythingEnds ==
  <>[] /\ live = {}
       /\ \A s \in Kept(session) : session[s].closing => session[s].closed
       /\ \A i \in Kept(instance) : ~instance[i].closing
       /\ closing => supervisor = "exited" /\ workers = 0

=============================================================================
