----------------------------- MODULE ModulePool -----------------------------
(***************************************************************************)
(* Pools of embedded Lua modules (pool.rs, pool/capacity.rs, retirement.rs,*)
(* cleanup.rs, engine/lease/embedded.rs): pools that own a registration of *)
(* their group, leases that reserve, initialize, invoke and return a VM,   *)
(* and the retirement worker that destroys VMs in the background, retrying *)
(* a failed cleanup while the VM stays charged.                            *)
(*                                                                         *)
(* One action is one mutex section or one stretch of Lua; a permit is held *)
(* from an action that starts Lua to the one that ends it.  Lua itself is  *)
(* its outcome.  Refusals that change nothing are not actions.  Time is    *)
(* nondeterminism: any idle VM may have expired.                           *)
(***************************************************************************)
EXTENDS PoolGovernor, Sequences, SequencesExt

CONSTANTS
  Pools,          \* pool objects, each created once
  Leases,         \* ModuleLease values that exist at a time
  GroupsOf,       \* pool -> names it may be created under
  PoliciesOf,     \* pool -> policies it may be created with
  PlacementsOf,   \* pool -> capacities it may be placed in, NoCapacity for none
  CapacityLimits, \* limits a host registers or revises a capacity with
  SerialClose,    \* poll_closed follows a finished request_close, as in scheduler.rs
  NoPool, NoVm

InstanceReuse == {"SingleCall", "Reusable", "Session"}

ASSUME PoolAssumption ==
  /\ NoPool \notin Pools /\ NoVm \notin Vms /\ SerialClose \in BOOLEAN
  /\ CapacityLimits \subseteq Limits
  /\ \A p \in Pools :
       /\ GroupsOf[p] \subseteq Groups /\ PlacementsOf[p] \subseteq Capacities \cup {NoCapacity}
       /\ PoliciesOf[p] \subseteq [limits : Limits, reuse : InstanceReuse, max_uses : Nat]

VARIABLES
  pools,       \* pool -> ModulePool and its registration
  leases,      \* ModuleLease
  vms,         \* VM -> ResidentModule: module, receipt and pool
  taken,       \* VMs taken out of an idle list and not yet enqueued
  pending,     \* RetirementState::pending
  cleaner,     \* the retirement worker: position, module, and RetirementState::closing
  closing,     \* PoolManagerState::closing
  toClose,     \* pools request_close still has to close
  poll         \* position of poll_closed, and whether it has answered true

vars == <<governorVars, pools, leases, vms, taken, pending, cleaner, closing, toClose, poll>>

\* held: an Arc of the pool is left.  draining: close has taken the idle VMs.
Pool == [held : BOOLEAN, closed : BOOLEAN, draining : BOOLEAN, idle : Seq(Vms),
         group : Groups, reuse : InstanceReuse, max_uses : Nat, min : Nat,
         retiring : BOOLEAN, released : BOOLEAN, owner : BOOLEAN]

ASSUME NoPoolAssumption == NoPool \notin Pool

LeasePc == {"none", "open", "allocating", "installed", "initializing", "invoking",
            "finalizing"}

\* vm is the pending reservation until the VM is alive and the resident afterwards; the
\* pending one is taken out by the only attempt at initialization.
Lease == [pc : LeasePc, pool : Pools \cup {NoPool}, vm : Vms \cup {NoVm},
          ready : BOOLEAN, invoked : BOOLEAN,
          previous : {"Creating", "Idle"}]

\* receipt is the phase a ModuleRetirement publishes.
Vm == [alive : BOOLEAN, reusable : BOOLEAN, exports : BOOLEAN, finalized : BOOLEAN,
       uses : Nat, pool : Pools \cup {NoPool},
       receipt : {"none", "Live", "Queued", "Running", "Retrying", "Completed"}]

NoLease == [pc |-> "none", pool |-> NoPool, vm |-> NoVm, ready |-> FALSE,
            invoked |-> FALSE, previous |-> "Idle"]
NewVm(p) == [alive |-> FALSE, reusable |-> FALSE, exports |-> FALSE, finalized |-> FALSE,
             uses |-> 0, pool |-> p, receipt |-> "none"]

Exists(p) == pools[p] # NoPool
Alive(v) == v # NoVm /\ vms[v].alive
Executing == {"allocating", "initializing", "invoking", "finalizing"}

Init ==
  /\ GovernorInit
  /\ pools = [p \in Pools |-> NoPool]
  /\ leases = [l \in Leases |-> NoLease]
  /\ vms = [v \in Vms |-> NewVm(NoPool)]
  /\ taken = {} /\ pending = <<>>
  /\ cleaner = [pc |-> "waiting", vm |-> NoVm, closing |-> FALSE]
  /\ closing = FALSE /\ toClose = {}
  /\ poll = [drained |-> FALSE, closed |-> FALSE]

-----------------------------------------------------------------------------
(* Pools and their registrations *)

\* create_pool_with_prepared_placement: register the group and publish the pool.
create_pool(p) ==
  /\ ~closing /\ ~Exists(p)
  /\ \E g \in GroupsOf[p], policy \in PoliciesOf[p], c \in PlacementsOf[p] :
       /\ register_group(g, policy.limits, c)
       /\ pools' = [pools EXCEPT ![p] =
            [held |-> TRUE, closed |-> FALSE, draining |-> FALSE, idle |-> <<>>,
             group |-> g, reuse |-> policy.reuse, max_uses |-> policy.max_uses,
             min |-> policy.limits.min,
             retiring |-> FALSE, released |-> FALSE, owner |-> TRUE]]
  /\ UNCHANGED <<capacities, alloc, leases, vms, taken, pending, cleaner, closing, toClose, poll>>

\* Mutant: a registration that was released before unregisters the name again.
ReleaseIfDrainedTwice(p, pool, retiring, al) ==
  LET drained == retiring /\ GroupDrained(al, pool.group) IN
  /\ groups' = IF drained THEN [groups EXCEPT ![pool.group] = NoGroup] ELSE groups
  /\ pools' = [pools EXCEPT ![p] =
       [pool EXCEPT !.retiring = retiring, !.released = @ \/ drained, !.owner = @ /\ ~drained]]

\* release_if_drained: unregister the group once, when nothing of it is charged, and then
\* drop the host's owner.  retiring and al are the values after the caller's step.
release_if_drained(p, pool, retiring, al) ==
  LET drained == retiring /\ ~pool.released /\ GroupDrained(al, pool.group) IN
  /\ groups' = IF drained THEN [groups EXCEPT ![pool.group] = NoGroup] ELSE groups
  /\ pools' = [pools EXCEPT ![p] =
       [pool EXCEPT !.retiring = retiring, !.released = @ \/ drained, !.owner = @ /\ ~drained]]

\* ModulePool::close stops admission and takes the idle VMs; the last step of it asks for
\* the retirement of the registration.
StopAdmission(p) ==
  /\ taken' = taken \cup ToSet(pools[p].idle)
  /\ pools' = [pools EXCEPT ![p].closed = TRUE, ![p].idle = <<>>, ![p].draining = TRUE]

close(p) ==
  /\ Exists(p) /\ pools[p].held /\ ~pools[p].draining
  /\ StopAdmission(p)
  /\ UNCHANGED <<governorVars, leases, vms, pending, cleaner, closing, toClose, poll>>

OfPool(S, p) == {v \in S : vms[v].pool = p}

request_retirement(p) ==
  /\ Exists(p) /\ pools[p].draining /\ OfPool(taken, p) = {}
  /\ release_if_drained(p, [pools[p] EXCEPT !.draining = FALSE], TRUE, alloc)
  /\ UNCHANGED <<capacities, alloc, leases, vms, taken, pending, cleaner, closing, toClose, poll>>

\* enqueue: the token becomes Retiring, the receipt Queued, the module the worker's.
Queued(m, S) == [v \in Vms |-> IF v \in S THEN [m[v] EXCEPT !.receipt = "Queued"] ELSE m[v]]

enqueue_taken(v) ==
  /\ v \in taken
  /\ taken' = taken \ {v}
  /\ alloc' = Retired(alloc, v)
  /\ vms' = Queued(vms, {v})
  /\ pending' = Append(pending, v)
  /\ UNCHANGED <<groups, capacities, pools, leases, cleaner, closing, toClose, poll>>

\* retire_expired keeps the group's floor of idle VMs; its swap_remove leaves the rest in
\* some other order.
Removable(pool) == LET n == Len(pool.idle) IN IF n > pool.min THEN n - pool.min ELSE 0

retire_expired(p) ==
  /\ Exists(p) /\ pools[p].held
  /\ \E S \in (SUBSET ToSet(pools[p].idle)) \ {{}} :
       /\ Cardinality(S) <= Removable(pools[p])
       /\ \E rest \in SetToSeqs(ToSet(pools[p].idle) \ S) :
            pools' = [pools EXCEPT ![p].idle = rest]
       /\ taken' = taken \cup S
  /\ UNCHANGED <<governorVars, leases, vms, pending, cleaner, closing, toClose, poll>>

\* Drop of the last Arc<ModulePool>: leases and request_close hold one each.
drop_pool(p) ==
  /\ Exists(p) /\ pools[p].held /\ ~pools[p].draining
  /\ p \notin toClose /\ \A l \in Leases : leases[l].pool # p
  /\ LET idle == ToSet(pools[p].idle)
         al == [v \in Vms |-> IF v \in idle THEN Retired(alloc, v)[v] ELSE alloc[v]]
     IN /\ alloc' = al
        /\ vms' = Queued(vms, idle)
        /\ pending' = pending \o pools[p].idle
        /\ release_if_drained(p, [pools[p] EXCEPT !.held = FALSE, !.idle = <<>>], TRUE, al)
  /\ UNCHANGED <<capacities, leases, taken, cleaner, closing, toClose, poll>>

-----------------------------------------------------------------------------
(* Leases *)

\* prepare_with_budget, under the pool's lock: reuse the last VM of the idle list, or
\* reserve a new one.  Identities are never reused in the code; here one is free again
\* once its receipt is complete.
prepare_with_budget(l, p) ==
  /\ leases[l].pc = "none" /\ Exists(p) /\ pools[p].held /\ ~pools[p].closed
  /\ LET pinned == pools[p].reuse = "Session"
         idle == pools[p].idle
         New(v, ready) == [NoLease EXCEPT !.pc = "open", !.pool = p, !.vm = v,
                                          !.ready = ready]
     IN \/ /\ ~pinned /\ idle # <<>>
           /\ leases' = [leases EXCEPT ![l] = New(Last(idle), TRUE)]
           /\ pools' = [pools EXCEPT ![p].idle = Front(idle)]
           /\ UNCHANGED <<alloc, vms>>
        \/ /\ pinned \/ idle = <<>>
           /\ \E v \in Vms \ {cleaner.vm} :
                /\ reserve(pools[p].group, v)
                /\ leases' = [leases EXCEPT ![l] = New(v, FALSE)]
                /\ vms' = [vms EXCEPT ![v] = NewVm(p)]
           /\ UNCHANGED pools
  /\ UNCHANGED <<groups, capacities, taken, pending, cleaner, closing, toClose, poll>>

LeaseUnchanged == UNCHANGED <<groups, capacities, pools, taken, pending, cleaner,
                              closing, toClose, poll>>

\* begin_execution remembers the phase that the permit's drop puts back.
Permit(l, lease, pc) ==
  /\ Executable(lease.vm)
  /\ alloc' = InPhase(lease.vm, "Running")
  /\ leases' = [leases EXCEPT ![l] = [lease EXCEPT !.pc = pc, !.previous = alloc[lease.vm].phase]]

\* The lease after its permit is dropped.
Returned(l) == [leases[l] EXCEPT !.pc = "open", !.previous = "Idle"]

\* initialize_with_diagnostics, first half: the pending reservation is taken out before the
\* permit is asked for, so a refusal gives the token back.
initialize(l) ==
  LET lease == leases[l] IN
  /\ lease.pc = "open" /\ lease.vm # NoVm /\ ~Alive(lease.vm)
  /\ ~pools[lease.pool].closed
  /\ \/ Permit(l, lease, "allocating")
     \/ /\ ~Executable(lease.vm)
        /\ alloc' = Freed(lease.vm)
        /\ leases' = [leases EXCEPT ![l].vm = NoVm]
  /\ UNCHANGED vms /\ LeaseUnchanged

\* The permit is dropped, then the VM is installed or its reservation dropped.
finish_allocation(l) ==
  LET v == leases[l].vm IN
  /\ leases[l].pc = "allocating"
  /\ \/ /\ alloc' = InPhase(v, leases[l].previous)
        /\ vms' = [vms EXCEPT ![v].alive = TRUE, ![v].receipt = "Live"]
        /\ leases' = [leases EXCEPT ![l] = [Returned(l) EXCEPT !.pc = "installed"]]
     \/ /\ alloc' = Freed(v)
        /\ leases' = [leases EXCEPT ![l] = [Returned(l) EXCEPT !.vm = NoVm]]
        /\ UNCHANGED vms
  /\ LeaseUnchanged

\* The second permit; refused, the VM stays with the lease and never becomes ready.
begin_initialization(l) ==
  /\ leases[l].pc = "installed"
  /\ \/ Permit(l, leases[l], "initializing")
     \/ /\ ~Executable(leases[l].vm)
        /\ leases' = [leases EXCEPT ![l].pc = "open"]
        /\ UNCHANGED alloc
  /\ UNCHANGED vms /\ LeaseUnchanged

\* EmbeddedModule::run leaves the module reusable only when all of it succeeded.  mark_ready
\* and the second look at `closed` follow the permit's drop.
finish_initialization(l, ok) ==
  LET v == leases[l].vm IN
  /\ leases[l].pc = "initializing"
  /\ alloc' = InPhase(v, IF ok THEN "Idle" ELSE leases[l].previous)
  /\ vms' = [vms EXCEPT ![v].reusable = ok, ![v].exports = ok]
  /\ leases' = [leases EXCEPT ![l] =
       [Returned(l) EXCEPT !.ready = ok /\ ~pools[leases[l].pool].closed]]
  /\ LeaseUnchanged

BelowUses(p, v) == pools[p].max_uses = 0 \/ vms[v].uses < pools[p].max_uses

\* invoke_with_diagnostics: the permit is taken under the pool's lock.  invoked is recorded
\* where it matters, for an instance of a single call.
invoke(l) ==
  LET lease == leases[l] IN
  /\ lease.pc = "open" /\ lease.ready /\ Alive(lease.vm)
  /\ ~lease.invoked
  /\ ~pools[lease.pool].closed /\ BelowUses(lease.pool, lease.vm)
  /\ Permit(l, [lease EXCEPT !.invoked = pools[lease.pool].reuse = "SingleCall"], "invoking")
  /\ UNCHANGED vms /\ LeaseUnchanged

\* A call that is refused before Lua runs leaves `reusable`; one that fails clears it.
\* Uses are counted only where the policy limits them.
finish_invoke(l, outcome) ==
  LET v == leases[l].vm
      limited == pools[leases[l].pool].max_uses # 0
  IN /\ leases[l].pc = "invoking"
     /\ outcome = "ok" => vms[v].reusable
     /\ alloc' = InPhase(v, leases[l].previous)
     /\ vms' = [vms EXCEPT ![v].reusable = @ /\ outcome # "failed",
                           ![v].uses = IF outcome = "ok" /\ limited THEN @ + 1 ELSE @]
     /\ leases' = [leases EXCEPT ![l] = Returned(l)]
     /\ LeaseUnchanged

\* finalize needs no open pool; it ends ordinary admission whatever it returns.
finalize(l) ==
  /\ leases[l].pc = "open" /\ Alive(leases[l].vm)
  /\ Permit(l, [leases[l] EXCEPT !.ready = FALSE], "finalizing")
  /\ UNCHANGED vms /\ LeaseUnchanged

finish_finalize(l) ==
  LET v == leases[l].vm
      started == vms[v].exports /\ ~vms[v].finalized
  IN /\ leases[l].pc = "finalizing"
     /\ alloc' = InPhase(v, leases[l].previous)
     /\ vms' = [vms EXCEPT ![v].reusable = @ /\ ~started, ![v].finalized = @ \/ started]
     /\ leases' = [leases EXCEPT ![l] = Returned(l)]
     /\ LeaseUnchanged

\* ModuleLease::close drops a pending token or hands the VM to retirement; the lease stays.
close_lease(l) ==
  LET v == leases[l].vm IN
  /\ leases[l].pc = "open" /\ v # NoVm
  /\ leases' = [leases EXCEPT ![l].ready = FALSE, ![l].vm = NoVm]
  /\ IF Alive(v)
     THEN /\ alloc' = Retired(alloc, v)
          /\ vms' = Queued(vms, {v})
          /\ pending' = Append(pending, v)
     ELSE /\ alloc' = Freed(v)
          /\ UNCHANGED <<vms, pending>>
  /\ UNCHANGED <<groups, capacities, pools, taken, cleaner, closing, toClose, poll>>

\* Mutant: closure is not looked at under the lock.
ReusableWhenClosed(l) ==
  LET lease == leases[l]
      p == lease.pool
  IN /\ pools[p].reuse = "Reusable"
     /\ vms[lease.vm].reusable /\ ~vms[lease.vm].finalized /\ BelowUses(p, lease.vm)

\* ModulePool::release.
Reusable(l) ==
  LET lease == leases[l]
      p == lease.pool
  IN /\ pools[p].reuse = "Reusable"
     /\ vms[lease.vm].reusable /\ ~vms[lease.vm].finalized
     /\ BelowUses(p, lease.vm) /\ ~pools[p].closed

\* finish and ModuleLease::drop: give the token or the VM back, then let a closed pool's
\* registration go if this was the last of it.
drop_lease(l) ==
  LET lease == leases[l]
      v == lease.vm
      p == lease.pool
      returned == Alive(v) /\ Reusable(l)
      al == IF v = NoVm \/ returned THEN alloc
            ELSE IF Alive(v) THEN Retired(alloc, v) ELSE Freed(v)
      pool == IF returned THEN [pools[p] EXCEPT !.idle = Append(@, v)] ELSE pools[p]
      queued == Alive(v) /\ ~returned
  IN /\ lease.pc = "open"
     /\ leases' = [leases EXCEPT ![l] = NoLease]
     /\ alloc' = al
     /\ vms' = IF queued THEN Queued(vms, {v}) ELSE vms
     /\ pending' = IF queued THEN Append(pending, v) ELSE pending
     /\ release_if_drained(p, pool, pool.retiring, al)
     /\ UNCHANGED <<capacities, taken, cleaner, closing, toClose, poll>>

-----------------------------------------------------------------------------
(* The retirement worker *)

CleanerUnchanged == UNCHANGED <<capacities, leases, taken, closing, toClose, poll>>

\* run_retirement: a module is taken and its receipt says Running.
take_retired ==
  /\ cleaner.pc = "waiting" /\ pending # <<>>
  /\ cleaner' = [cleaner EXCEPT !.pc = "closing", !.vm = Head(pending)]
  /\ pending' = Tail(pending)
  /\ vms' = [vms EXCEPT ![Head(pending)].receipt = "Running"]
  /\ UNCHANGED <<groups, alloc, pools>> /\ CleanerUnchanged

\* Mutant: a failed cleanup gives the token back at once.
FailCleanupReleasing ==
  /\ cleaner.pc = "closing"
  /\ vms' = [vms EXCEPT ![cleaner.vm].receipt = "Retrying", ![cleaner.vm].reusable = FALSE]
  /\ pending' = Append(pending, cleaner.vm)
  /\ alloc' = Freed(cleaner.vm)
  /\ cleaner' = [cleaner EXCEPT !.pc = "waiting", !.vm = NoVm]
  /\ UNCHANGED <<groups, pools>> /\ CleanerUnchanged

\* EmbeddedModule::close failed or panicked: the module waits for another attempt.
fail_cleanup ==
  /\ cleaner.pc = "closing"
  /\ vms' = [vms EXCEPT ![cleaner.vm].receipt = "Retrying", ![cleaner.vm].reusable = FALSE]
  /\ pending' = Append(pending, cleaner.vm)
  /\ cleaner' = [cleaner EXCEPT !.pc = "waiting", !.vm = NoVm]
  /\ UNCHANGED <<groups, alloc, pools>> /\ CleanerUnchanged

\* close succeeded; ResidentModule drops its module first ...
destroy_vm ==
  /\ cleaner.pc = "closing"
  /\ vms' = [vms EXCEPT ![cleaner.vm] = [NewVm(@.pool) EXCEPT !.receipt = "Running"]]
  /\ cleaner' = [cleaner EXCEPT !.pc = "destroyed"]
  /\ UNCHANGED <<groups, alloc, pools, pending>> /\ CleanerUnchanged

\* ... then its reservation, and the registration last.
release_token ==
  LET p == vms[cleaner.vm].pool IN
  /\ cleaner.pc = "destroyed"
  /\ alloc' = Freed(cleaner.vm)
  /\ release_if_drained(p, pools[p], pools[p].retiring, Freed(cleaner.vm))
  /\ cleaner' = [cleaner EXCEPT !.pc = "released"]
  /\ UNCHANGED <<vms, pending>> /\ CleanerUnchanged

\* The receipt completes only after the release.
publish_completed ==
  /\ cleaner.pc = "released"
  /\ vms' = [vms EXCEPT ![cleaner.vm].receipt = "Completed"]
  /\ cleaner' = [cleaner EXCEPT !.pc = "waiting", !.vm = NoVm]
  /\ UNCHANGED <<groups, alloc, pools, pending>> /\ CleanerUnchanged

exit_cleaner ==
  /\ cleaner.pc = "waiting" /\ pending = <<>> /\ cleaner.closing
  /\ cleaner' = [cleaner EXCEPT !.pc = "exited"]
  /\ UNCHANGED <<groups, alloc, pools, vms, pending>> /\ CleanerUnchanged

-----------------------------------------------------------------------------
(* The manager *)

ManagerUnchanged == UNCHANGED <<pools, leases, vms, taken, pending, cleaner, toClose, poll>>

\* Host calls that change a capacity; a closing manager only takes one away.
ChangeCapacity(c) ==
  /\ \/ ~closing /\ \E limits \in CapacityLimits :
          register_capacity(c, limits) \/ revise_capacity(c, limits)
     \/ unregister_capacity(c)
  /\ UNCHANGED closing /\ ManagerUnchanged

\* request_close forbids new pools, then closes the ones it found one after the other.
request_close ==
  /\ ~closing /\ closing' = TRUE
  /\ toClose' = {p \in Pools : Exists(p) /\ pools[p].held}
  /\ UNCHANGED <<governorVars, pools, leases, vms, taken, pending, cleaner, poll>>

close_next(p) ==
  /\ p \in toClose /\ ~pools[p].draining
  /\ toClose' = toClose \ {p}
  /\ StopAdmission(p)
  /\ UNCHANGED <<governorVars, leases, vms, pending, cleaner, closing, poll>>

\* The scheduler polls after joining the thread that ran request_close.
CloseFinished == toClose = {} /\ \A p \in Pools : Exists(p) => ~pools[p].draining

\* Mutant: only the worker's queue is asked, not the tokens.
PollUsageUnchecked ==
  /\ closing /\ ~poll.drained /\ ~poll.closed
  /\ SerialClose => CloseFinished
  /\ poll' = [poll EXCEPT !.drained = TRUE]
  /\ UNCHANGED <<governorVars, pools, leases, vms, taken, pending, cleaner, closing, toClose>>

\* poll_closed: no token is left, and a moment later the worker is told to stop.
poll_usage ==
  /\ closing /\ ~poll.drained /\ ~poll.closed
  /\ SerialClose => CloseFinished
  /\ Resident(alloc) = {}
  /\ poll' = [poll EXCEPT !.drained = TRUE]
  /\ UNCHANGED <<governorVars, pools, leases, vms, taken, pending, cleaner, closing, toClose>>

\* try_shutdown refuses while a module is queued or being cleaned up.
CleanerBusy == pending # <<>> \/ cleaner.pc \in {"closing", "destroyed", "released"}

try_shutdown ==
  /\ poll.drained
  /\ poll' = [drained |-> FALSE, closed |-> ~CleanerBusy /\ cleaner.pc = "exited"]
  /\ cleaner' = [cleaner EXCEPT !.closing = @ \/ ~CleanerBusy]
  /\ UNCHANGED <<governorVars, pools, leases, vms, taken, pending, closing, toClose>>

-----------------------------------------------------------------------------
LeaseStep(l) ==
  \/ \E p \in Pools : prepare_with_budget(l, p)
  \/ initialize(l) \/ finish_allocation(l) \/ begin_initialization(l)
  \/ \E ok \in BOOLEAN : finish_initialization(l, ok)
  \/ invoke(l)
  \/ \E outcome \in {"ok", "rejected", "failed"} : finish_invoke(l, outcome)
  \/ finalize(l) \/ finish_finalize(l) \/ close_lease(l) \/ drop_lease(l)

PoolStep(p) ==
  \/ create_pool(p) \/ close(p) \/ request_retirement(p) \/ retire_expired(p)
  \/ drop_pool(p) \/ close_next(p)

CleanerStep ==
  \/ take_retired \/ fail_cleanup \/ destroy_vm \/ release_token \/ publish_completed
  \/ exit_cleaner

Next ==
  \/ \E l \in Leases : LeaseStep(l)
  \/ \E p \in Pools : PoolStep(p)
  \/ \E v \in Vms : enqueue_taken(v)
  \/ \E c \in Capacities : ChangeCapacity(c)
  \/ CleanerStep
  \/ request_close \/ poll_usage \/ try_shutdown

Spec == Init /\ [][Next]_vars

-----------------------------------------------------------------------------
\* Type invariant of the governor, the pools, the leases and the retirement worker.
PoolTypeOK ==
  /\ GovernorTypeOK
  /\ pools \in [Pools -> Pool \cup {NoPool}]
  /\ leases \in [Leases -> Lease]
  /\ vms \in [Vms -> Vm]
  /\ taken \subseteq Vms /\ pending \in Seq(Vms)
  /\ cleaner \in [pc : {"waiting", "closing", "destroyed", "released", "exited"},
                  vm : Vms \cup {NoVm}, closing : BOOLEAN]
  /\ closing \in BOOLEAN /\ toClose \subseteq Pools
  /\ poll \in [drained : BOOLEAN, closed : BOOLEAN]

\* governor.rs promises every floor: what is used plus what is reserved and not used never
\* exceeds the parent, through creation, revision of capacities and retirement; and no
\* more VMs execute than the parent allows, one for each lease inside Lua.
CommitmentWithinParent ==
  /\ commitment(Nobody) <= MaxResident
  /\ Cardinality(RunningOf(alloc, Resident(alloc))) <= MaxRunning
  /\ \A v \in Resident(alloc) :
       alloc[v].phase = "Running" <=>
         \E l \in Leases : leases[l].vm = v /\ leases[l].pc \in Executing

\* Where the code keeps a token: a lease, an idle list, a caller's hands, the queue, the worker.
Places(v) ==
  {<<"lease", l>> : l \in {k \in Leases : leases[k].vm = v}}
  \cup {<<"idle", p>> : p \in {q \in Pools : Exists(q) /\ v \in ToSet(pools[q].idle)}}
  \cup {<<"taken">> : x \in {v} \cap taken}
  \cup {<<"pending", i>> : i \in {j \in DOMAIN pending : pending[j] = v}}
  \cup {<<"cleaner">> : x \in {v} \cap (IF cleaner.pc \in {"closing", "destroyed"}
                                        THEN {cleaner.vm} ELSE {})}

\* Every token has exactly one owner until it is released, a VM is charged for as long as
\* it exists, and a receipt says Completed only when both are gone (cleanup.rs).
TokensOwned ==
  \A v \in Vms :
    /\ Cardinality(Places(v)) = (IF alloc[v] = NoAllocation THEN 0 ELSE 1)
    /\ vms[v].alive \/ vms[v].receipt \in {"Queued", "Retrying"} => alloc[v] # NoAllocation
    /\ vms[v].receipt = "Completed" => ~vms[v].alive /\ alloc[v] = NoAllocation

\* PoolRegistration: while a pool has a token, or is not asked to retire, its own group is
\* the one registered and the host's resources are kept; a released pool never takes the
\* registration of a later pool of the same name with it.
RegistrationOutlives ==
  /\ \A v \in Resident(alloc) :
       LET p == vms[v].pool IN
       /\ ~pools[p].released /\ pools[p].owner
       /\ alloc[v].group = pools[p].group
  /\ \A p \in Pools : Exists(p) /\ ~pools[p].released => groups[pools[p].group] # NoGroup
  /\ \A p, q \in Pools :
       Exists(p) /\ Exists(q) /\ ~pools[p].released /\ ~pools[q].released
         /\ pools[p].group = pools[q].group => p = q

\* A VM offered to the next caller was returned by a successful call of this open pool, is
\* neither finalized nor used up, and is not charged as anything but idle.
IdleIsUsable ==
  \A p \in Pools : Exists(p) =>
    \A v \in ToSet(pools[p].idle) :
      /\ ~pools[p].closed /\ vms[v].pool = p
      /\ vms[v].alive /\ vms[v].reusable /\ ~vms[v].finalized /\ BelowUses(p, v)
      /\ alloc[v].phase = "Idle" /\ vms[v].receipt = "Live"

\* poll_closed: "Report complete shutdown only after every VM is destroyed and the cleanup
\* worker is joined."  A worker that ended, and an answer, leave nothing behind: no token,
\* no queued module that nobody would clean up, and no pool that could admit another.
ClosedIsDrained ==
  poll.closed \/ cleaner.pc = "exited" =>
    /\ Resident(alloc) = {} /\ pending = <<>> /\ taken = {} /\ cleaner.pc = "exited"
    /\ \A p \in Pools : Exists(p) => pools[p].closed \/ ~pools[p].held

\* Every VM and registration has one owner that will give it back, and what they
\* commit stays within the parent, through failing cleanups and revisions.
BudgetsOwned == CommitmentWithinParent /\ TokensOwned /\ RegistrationOutlives

\* What a pool hands out can be used, and what it reports closed is gone.
StatesSound == IdleIsUsable /\ ClosedIsDrained

\* The same sentence about VMs alone, for callers that poll while request_close runs.
NoVmAfterClosed == poll.closed => \A v \in Vms : ~vms[v].alive
=============================================================================
