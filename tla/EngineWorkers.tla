----------------------------- MODULE EngineWorkers -----------------------------
(***************************************************************************)
(* Pooled managed workers (engine.rs, ManagedRuntimeWorkerService): warm   *)
(* Python and Node processes that serve vulcan.runtime.*.invoke over a     *)
(* line protocol.  A call finds or prepares the package snapshot of its    *)
(* key, checks a worker out of the key's bucket or spawns one outside the  *)
(* pool lock, writes one request, waits for one line with a timeout, and   *)
(* returns or discards the worker.  Retiring the owner races every step.   *)
(* Each key belongs to an owner of its own.                                *)
(***************************************************************************)
EXTENDS Naturals, FiniteSets, Sequences

CONSTANTS WorkerKeys,        \* ManagedRuntimeWorkerKey
          Invokers,          \* threads calling invoke
          PoolSize,          \* worker_pool_max_size_per_environment
          StderrCapacity,    \* stderr lines the channel and the pipe hold
          MaxWorkers,        \* bound: workers spawned
          MaxInvocations     \* bound: requests and snapshot cells

ASSUME WorkersAssumption == /\ PoolSize \in Nat \ {0} /\ StderrCapacity \in Nat
                            /\ MaxWorkers \in Nat /\ MaxInvocations \in Nat
                            /\ IsFiniteSet(Invokers)

VARIABLES
  retiredKeys,   \* keys whose owner state is retired
  bucket,        \* buckets: the idle workers and total_count of each key
  worker,        \* the worker processes and their channels
  cells,         \* package_snapshots: the snapshot cell of each key, 0 for none
  invocation,    \* one record per calling thread
  retiring,      \* step of retire_owner for each key
  requests       \* requests and cells numbered so far

workersVars == <<retiredKeys, bucket, worker, cells, invocation, retiring, requests>>

Workers == 1..MaxWorkers
NoBucket == [exists |-> FALSE, available |-> {}, total |-> 0]
NoWorker == [state |-> "none", key |-> "none", pending |-> 0, writes |-> 0,
             out |-> <<>>, reader |-> TRUE, stderr |-> 0, faulted |-> FALSE]
IdleCall == [pc |-> "idle", key |-> "none", cell |-> 0, w |-> 0, request |-> 0,
             reply |-> 0, discard |-> FALSE]

WorkersInit ==
  /\ retiredKeys = {}
  /\ bucket = [k \in WorkerKeys |-> NoBucket]
  /\ worker = [w \in Workers |-> NoWorker]
  /\ cells = [k \in WorkerKeys |-> 0]
  /\ invocation = [c \in Invokers |-> IdleCall]
  /\ retiring = [k \in WorkerKeys |-> "no"]
  /\ requests = 0

ensure_owner_active(k) == k \notin retiredKeys

CallAt(c, pc) == invocation' = [invocation EXCEPT ![c].pc = pc]
Return(c) == invocation' = [invocation EXCEPT ![c] = IdleCall]

-----------------------------------------------------------------------------
\* package_snapshot: one cell per key, filled by whoever comes first

SnapshotEnter(c, k) ==
  /\ invocation[c].pc = "idle" /\ requests < MaxInvocations
  /\ ensure_owner_active(k)
  /\ invocation' = [invocation EXCEPT ![c] = [IdleCall EXCEPT !.pc = "cell", !.key = k]]
  /\ UNCHANGED <<retiredKeys, bucket, worker, cells, retiring, requests>>

SnapshotCell(c) ==
  /\ invocation[c].pc = "cell"
  /\ LET k == invocation[c].key
         id == IF cells[k] # 0 THEN cells[k] ELSE requests + 1 IN
     /\ requests < MaxInvocations
     /\ cells' = [cells EXCEPT ![k] = id]
     /\ requests' = IF cells[k] # 0 THEN requests ELSE requests + 1
     /\ invocation' = [invocation EXCEPT ![c].pc = "prepare", ![c].cell = id]
  /\ UNCHANGED <<retiredKeys, bucket, worker, retiring>>

\* A cell is forgotten only by a call that still finds its own cell there.
ForgetCell(c) == [cells EXCEPT ![invocation[c].key] = IF @ = invocation[c].cell THEN 0 ELSE @]

SnapshotFails(c) ==
  /\ invocation[c].pc = "prepare"
  /\ cells' = ForgetCell(c) /\ Return(c)
  /\ UNCHANGED <<retiredKeys, bucket, worker, retiring, requests>>

\* The second check, after the copy: the owner may have retired meanwhile.
KeptAfterCopyAlways(k) == TRUE
KeptAfterCopy(k) == ensure_owner_active(k)

SnapshotReady(c) ==
  /\ invocation[c].pc = "prepare"
  /\ IF KeptAfterCopy(invocation[c].key)
     THEN CallAt(c, "reserve") /\ UNCHANGED cells
     ELSE Return(c) /\ cells' = ForgetCell(c)
  /\ UNCHANGED <<retiredKeys, bucket, worker, retiring, requests>>

-----------------------------------------------------------------------------
\* acquire

Dead(ws) == [w \in Workers |-> IF w \in ws THEN [worker[w] EXCEPT !.state = "dead"] ELSE worker[w]]

\* Whatever was idle too long leaves first, its processes ended outside the lock.
Reaped(b, expired) == [b EXCEPT !.available = @ \ expired, !.total = @ - Cardinality(expired)]

reserve(c) ==
  /\ invocation[c].pc = "reserve"
  /\ LET k == invocation[c].key IN
     IF ~ensure_owner_active(k)
     THEN Return(c) /\ UNCHANGED <<bucket, worker>>
     ELSE \E expired \in SUBSET bucket[k].available :
       LET b == [Reaped(bucket[k], expired) EXCEPT !.exists = TRUE] IN
       \/ \E w \in b.available :
            /\ bucket' = [bucket EXCEPT ![k] = [b EXCEPT !.available = @ \ {w}]]
            /\ worker' = [Dead(expired) EXCEPT ![w].state = IF @ = "idle" THEN "held" ELSE @]
            /\ invocation' = [invocation EXCEPT ![c].pc = "send", ![c].w = w]
       \/ /\ b.available = {} /\ b.total >= PoolSize
          /\ bucket' = [bucket EXCEPT ![k] = b] /\ worker' = Dead(expired) /\ Return(c)
       \/ /\ b.available = {} /\ b.total < PoolSize
          /\ bucket' = [bucket EXCEPT ![k] = [b EXCEPT !.total = @ + 1]]
          /\ worker' = Dead(expired) /\ CallAt(c, "spawn")
  /\ UNCHANGED <<retiredKeys, cells, retiring, requests>>

\* pool.discard: the bucket may be gone, with the owner.
Discarded(k) ==
  IF ~bucket[k].exists THEN bucket[k]
  ELSE IF bucket[k].total <= 1 /\ bucket[k].available = {} THEN NoBucket
  ELSE [bucket[k] EXCEPT !.total = @ - 1]

\* spawn_managed_runtime_worker_with_snapshot tears its child down on failure.
SpawnFails(c) ==
  /\ invocation[c].pc = "spawn"
  /\ bucket' = [bucket EXCEPT ![invocation[c].key] = Discarded(invocation[c].key)]
  /\ Return(c)
  /\ UNCHANGED <<retiredKeys, worker, cells, retiring, requests>>

SpawnWorker(c) ==
  /\ invocation[c].pc = "spawn"
  /\ \E w \in Workers :
       /\ worker[w].state = "none" /\ \A v \in Workers : v < w => worker[v].state # "none"
       /\ worker' = [worker EXCEPT ![w].state = "held", ![w].key = invocation[c].key]
       /\ invocation' = [invocation EXCEPT ![c].pc = "spawned", ![c].w = w]
  /\ UNCHANGED <<retiredKeys, bucket, cells, retiring, requests>>

AcquireSpawned(c) ==
  /\ invocation[c].pc = "spawned"
  /\ LET k == invocation[c].key IN
     IF ensure_owner_active(k)
     THEN CallAt(c, "send") /\ UNCHANGED <<bucket, worker>>
     ELSE /\ bucket' = [bucket EXCEPT ![k] = Discarded(k)]
          /\ worker' = Dead({invocation[c].w}) /\ Return(c)
  /\ UNCHANGED <<retiredKeys, cells, retiring, requests>>

-----------------------------------------------------------------------------
\* invoke_managed_runtime_worker, and the process on the other side

\* Stderr left over from before the request fails the call at once.
InvokeSend(c) ==
  /\ invocation[c].pc = "send" /\ requests < MaxInvocations
  /\ LET w == invocation[c].w IN
     IF worker[w].stderr > 0
     THEN /\ worker' = [worker EXCEPT ![w].stderr = 0]
          /\ invocation' = [invocation EXCEPT ![c].pc = "finish", ![c].discard = TRUE]
          /\ UNCHANGED requests
     ELSE /\ requests' = requests + 1
          /\ \E n \in 0..StderrCapacity + 1 :
               worker' = [worker EXCEPT ![w].pending = requests + 1, ![w].writes = n]
          /\ invocation' = [invocation EXCEPT ![c].pc = "wait", ![c].request = requests + 1]
  /\ UNCHANGED <<retiredKeys, bucket, cells, retiring>>

\* The write fails when the process has ended.
InvokeWriteFails(c) ==
  /\ invocation[c].pc = "send" /\ worker[invocation[c].w].state = "exited"
  /\ invocation' = [invocation EXCEPT ![c].pc = "finish", ![c].discard = TRUE]
  /\ UNCHANGED <<retiredKeys, bucket, worker, cells, retiring, requests>>

Running(w) == worker[w].state \in {"held", "idle"}

\* The process writes to its raw stderr before it answers: nobody drains the
\* bounded channel during the call, so it blocks when the channel is full.  Other
\* threads of it may write between two calls too (a line that comes later in the
\* same call is like one that came before the answer).
WorkerStderr(w) ==
  /\ Running(w) /\ worker[w].stderr < StderrCapacity
  /\ IF worker[w].pending # 0 THEN worker[w].writes > 0
     ELSE \A c \in Invokers : invocation[c].w = w => invocation[c].pc \notin {"wait", "finish"}
  /\ worker' = [worker EXCEPT ![w].writes = IF worker[w].pending # 0 THEN @ - 1 ELSE @,
                              ![w].stderr = @ + 1]
  /\ UNCHANGED <<retiredKeys, bucket, cells, invocation, retiring, requests>>

Line(kind, request) == [kind |-> kind, request |-> request]

\* A valid envelope, a line that is not one, or a line the reader refuses
\* (too long, not UTF-8), which ends the reader thread.
WorkerAnswers(w) ==
  /\ Running(w) /\ worker[w].pending # 0 /\ worker[w].writes = 0 /\ worker[w].reader
  /\ \/ worker' = [worker EXCEPT ![w].out = Append(@, Line("reply", worker[w].pending)),
                                 ![w].pending = 0]
     \/ /\ \A i \in DOMAIN worker[w].out : worker[w].out[i].kind # "garbage"
        /\ worker' = [worker EXCEPT ![w].out = Append(@, Line("garbage", 0))]
     \/ worker' = [worker EXCEPT ![w].out = Append(@, Line("refused", 0)), ![w].pending = 0,
                                 ![w].reader = FALSE]
  /\ UNCHANGED <<retiredKeys, bucket, cells, invocation, retiring, requests>>

WorkerExits(w) ==
  /\ Running(w)
  /\ worker' = [worker EXCEPT ![w].state = "exited", ![w].reader = FALSE]
  /\ UNCHANGED <<retiredKeys, bucket, cells, invocation, retiring, requests>>

\* What a received line, or none, does with the worker.  A refused line is an
\* error result, but unlike every other failure it does not set discard_worker.
DiscardsNever(line) == FALSE
Discards(line) == line.kind \in {"garbage", "timeout", "closed"}

Outcome(c, line) ==
  LET w == invocation[c].w IN
  /\ invocation' = [invocation EXCEPT
                      ![c].pc = "finish",
                      ![c].reply = IF line.kind = "reply" THEN line.request ELSE 0,
                      ![c].discard = Discards(line) \/ worker[w].stderr > 0]
  /\ worker' = [worker EXCEPT
                  ![w].out = IF @ = <<>> THEN @ ELSE Tail(@), ![w].stderr = 0,
                  ![w].state = IF line.kind = "timeout" THEN "exited" ELSE @,
                  ![w].faulted = @ \/ line.kind = "refused"]
  /\ UNCHANGED <<retiredKeys, bucket, cells, retiring, requests>>

InvokeReceive(c) ==
  /\ invocation[c].pc = "wait" /\ worker[invocation[c].w].out # <<>>
  /\ Outcome(c, Head(worker[invocation[c].w].out))

InvokeClosed(c) ==
  /\ invocation[c].pc = "wait"
  /\ worker[invocation[c].w].out = <<>> /\ ~worker[invocation[c].w].reader
  /\ Outcome(c, Line("closed", 0))

InvokeTimesOut(c) ==
  /\ invocation[c].pc = "wait" /\ worker[invocation[c].w].out = <<>>
  /\ Outcome(c, Line("timeout", 0))

\* invoke_pooled_managed_runtime: discard, or release, which drops the worker
\* of a retired owner and may reap idle ones.
ReleaseWorker(c) ==
  /\ invocation[c].pc = "finish"
  /\ LET k == invocation[c].key  w == invocation[c].w IN
     IF invocation[c].discard
     THEN bucket' = [bucket EXCEPT ![k] = Discarded(k)] /\ worker' = Dead({w})
     ELSE IF ~ensure_owner_active(k)
     THEN UNCHANGED bucket /\ worker' = Dead({w})
     ELSE \E expired \in SUBSET bucket[k].available :
            /\ bucket' = [bucket EXCEPT ![k] = Reaped([bucket[k] EXCEPT !.available = @ \cup {w}], expired)]
            /\ worker' = [Dead(expired) EXCEPT ![w].state = IF @ = "held" THEN "idle" ELSE @]
  /\ Return(c)
  /\ UNCHANGED <<retiredKeys, cells, retiring, requests>>

-----------------------------------------------------------------------------
\* retire_owner: the state first, then the pool, then the snapshot cells

RetireState(k) ==
  /\ retiring[k] = "no"
  /\ retiredKeys' = retiredKeys \cup {k}
  /\ retiring' = [retiring EXCEPT ![k] = "pool"]
  /\ UNCHANGED <<bucket, worker, cells, invocation, requests>>

RetirePool(k) ==
  /\ retiring[k] = "pool"
  /\ bucket' = [bucket EXCEPT ![k] = NoBucket]
  /\ worker' = Dead(bucket[k].available)
  /\ retiring' = [retiring EXCEPT ![k] = "snapshots"]
  /\ UNCHANGED <<retiredKeys, cells, invocation, requests>>

RetireSnapshots(k) ==
  /\ retiring[k] = "snapshots"
  /\ cells' = [cells EXCEPT ![k] = 0]
  /\ retiring' = [retiring EXCEPT ![k] = "done"]
  /\ UNCHANGED <<retiredKeys, bucket, worker, invocation, requests>>

CallStep(c) ==
  \/ SnapshotCell(c) \/ SnapshotFails(c) \/ SnapshotReady(c) \/ reserve(c)
  \/ SpawnFails(c) \/ SpawnWorker(c) \/ AcquireSpawned(c) \/ InvokeSend(c)
  \/ InvokeWriteFails(c) \/ InvokeReceive(c) \/ InvokeClosed(c) \/ InvokeTimesOut(c)
  \/ ReleaseWorker(c)

WorkersNext ==
  \/ \E c \in Invokers : CallStep(c) \/ \E k \in WorkerKeys : SnapshotEnter(c, k)
  \/ \E w \in Workers : WorkerStderr(w) \/ WorkerAnswers(w) \/ WorkerExits(w)
  \/ \E k \in WorkerKeys : RetireState(k) \/ RetirePool(k) \/ RetireSnapshots(k)

-----------------------------------------------------------------------------
CallPcs == {"idle", "cell", "prepare", "reserve", "spawn", "spawned", "send", "wait", "finish"}

\* The variables keep their types.
WorkersTypeOK ==
  /\ retiredKeys \subseteq WorkerKeys
  /\ bucket \in [WorkerKeys ->
       [exists : BOOLEAN, available : SUBSET Workers, total : 0..PoolSize]]
  /\ \A w \in Workers : /\ worker[w].state \in {"none", "held", "idle", "exited", "dead"}
                        /\ worker[w].stderr \in 0..StderrCapacity
  /\ \A c \in Invokers : invocation[c].pc \in CallPcs
  /\ requests \in 0..MaxInvocations

\* The threads between reserve and release, each of which counts in its bucket.
ChargedCalls(k) == {c \in Invokers : /\ invocation[c].key = k
                                /\ invocation[c].pc \in {"spawn", "spawned", "send", "wait", "finish"}}
Holds(c, w) == invocation[c].w = w /\ invocation[c].pc \in {"spawned", "send", "wait", "finish"}

\* The pool's books: an active key's total is its idle workers plus the calls
\* that hold one or a reservation; every live process is idle in its key's
\* bucket or held by exactly one call; and once an owner's retirement is over
\* only calls still under way keep a worker or a snapshot cell of its key.
WorkersAccounted ==
  /\ \A k \in WorkerKeys \ retiredKeys :
       bucket[k].total = Cardinality(bucket[k].available) + Cardinality(ChargedCalls(k))
  /\ \A w \in Workers :
       worker[w].state \in {"held", "idle", "exited"} =>
         Cardinality({k \in WorkerKeys : w \in bucket[k].available /\ worker[w].key = k})
           + Cardinality({c \in Invokers : Holds(c, w)}) = 1
  /\ \A k \in WorkerKeys : retiring[k] = "done" =>
       /\ bucket[k] = NoBucket
       /\ cells[k] # 0 => \E c \in Invokers : invocation[c].key = k /\ invocation[c].pc = "prepare"

\* A call that returns a value returns the answer to its own request: a late
\* answer to a call that timed out, or one behind a stray line, is never read.
ReplyMatches ==
  \A c \in Invokers : invocation[c].pc = "finish" /\ invocation[c].reply # 0
                        => invocation[c].reply = invocation[c].request

\* Does not hold: "Return one healthy worker", but a worker whose line reader has
\* ended because of a refused line is kept for reuse.
OnlyHealthyReused == \A k \in WorkerKeys : \A w \in bucket[k].available : ~worker[w].faulted
=============================================================================
