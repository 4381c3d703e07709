------------------------------- MODULE VmPool -------------------------------
(***************************************************************************)
(* The engine's Lua VM pools (engine.rs LuaVmPool, LuaVmLease), the        *)
(* request scope around every pooled VM (LuaVmRequestScopeGuard) and the   *)
(* nested scope of vulcan.call (LuaNestedCallScopeGuard).                  *)
(*                                                                         *)
(* Two pools of the same type: "main" for skill calls, help and run_lua,   *)
(* "runlua" for luaexec.  A skill that uses the luaexec bridge takes a     *)
(* runlua VM while its thread keeps the main one.  The context of a VM is  *)
(* six parts installed one after the other, each by a call that may fail;  *)
(* a part is tagged with the depth of the call it was installed for, 0     *)
(* when it is cleared.  The functions of the vulcan table, which Lua may   *)
(* replace, are a step of the nested restore ("core") and not a part.      *)
(***************************************************************************)
EXTENDS Naturals, FiniteSets, Sequences

CONSTANTS VmThreads,   \* host threads
          VmIds,       \* names of the VMs alive at once, enough for both pools
          MinVms,      \* min_size of a pool, after normalisation
          MaxVms,      \* max_size of each pool, after normalisation
          MaxDepth,    \* bound: nesting of vulcan.call
          MaxVmFaults  \* bound: context steps that fail

VmPools == {"main", "runlua"}
ASSUME VmPoolAssumption ==
  /\ MinVms \in Nat \ {0}
  /\ MaxVms \in [VmPools -> Nat] /\ \A p \in VmPools : MaxVms[p] >= MinVms
  /\ MaxDepth \in Nat \ {0} /\ MaxVmFaults \in Nat
  /\ IsFiniteSet(VmThreads) /\ IsFiniteSet(VmIds) /\ 0 \notin VmIds
  /\ Cardinality(VmIds) >= MaxVms["main"] + MaxVms["runlua"]

VARIABLES
  idleVms,    \* available of every pool
  totalVms,   \* total_count of every pool
  vmContext,  \* the context installed in every VM
  vmThread,   \* program counter of every thread
  vmStack,    \* the leases a thread holds, the innermost last
  vmFaults    \* context steps that have failed so far

vmVars == <<idleVms, totalVms, vmContext, vmThread, vmStack, vmFaults>>

Parts == {"package", "request", "internal", "files", "deps", "provider"}
Uniform(tag) == [x \in Parts |-> tag]

\* What a request installs: a loaded skill has every part; anonymous code
\* (run_lua, luaexec) has neither skill directory nor package nor database.
Installed(kind) ==
  [x \in Parts |-> IF kind = "skill" \/ x \in {"request", "internal", "files"} THEN 1 ELSE 0]

\* Orders of installation, each as in its function.
PopulateOrder(kind) ==
  IF kind = "skill" THEN <<"package", "request", "internal", "files", "deps", "provider">>
  ELSE IF kind = "anonymous" THEN <<"request", "internal", "files", "deps", "package", "provider">>
  ELSE <<"request", "internal", "files", "provider">>
EnterOrder == <<"request", "internal", "package", "files", "deps", "provider">>
RestoreOrderWithoutDeps == <<"package", "core", "provider", "request", "internal", "files">>
RestoreOrder == <<"package", "core", "provider", "request", "internal", "files", "deps">>
ResetOrder == <<"request", "internal", "files", "deps", "package", "provider">>

\* The first i parts of an order take their new value.
Applied(order, i, old, new) ==
  [x \in Parts |-> IF \E j \in 1..i : order[j] = x THEN new[x] ELSE old[x]]

\* The number of steps that succeed.  Only the package context, which lives in
\* Rust, cannot fail to be replaced.
Steps(order) ==
  {i \in 0..Len(order) :
     i < Len(order) => order[i + 1] # "package" /\ vmFaults < MaxVmFaults}
Counted(order, i) == vmFaults' = vmFaults + (IF i < Len(order) THEN 1 ELSE 0)

\* The dependency table is not captured: it is rebuilt from the captured skill
\* directory and name, which anonymous code does not have.
Recaptured(kind, snap) ==
  [snap EXCEPT !["deps"] = IF snap["files"] = 1 /\ kind # "skill" THEN 0 ELSE snap["files"]]

\* A pool is empty, or prewarmed before the engine is shared.
VmPoolInit ==
  /\ \/ /\ idleVms = [p \in VmPools |-> {}]
        /\ totalVms = [p \in VmPools |-> 0]
     \/ /\ idleVms \in [VmPools -> SUBSET VmIds]
        /\ idleVms["main"] \cap idleVms["runlua"] = {}
        /\ \A p \in VmPools : Cardinality(idleVms[p]) = MinVms
        /\ totalVms = [p \in VmPools |-> MinVms]
  /\ vmFaults = 0
  /\ vmContext = [v \in VmIds |-> Uniform(0)]
  /\ vmThread = [t \in VmThreads |-> "idle"]
  /\ vmStack = [t \in VmThreads |-> <<>>]

Top(t) == vmStack[t][Len(vmStack[t])]
SetTop(t, frame) == vmStack' = [vmStack EXCEPT ![t][Len(vmStack[t])] = frame]
Context(t) == vmContext[Top(t).vm]
SetContext(t, ctx) == vmContext' = [vmContext EXCEPT ![Top(t).vm] = ctx]
Depth(f) == Len(f.snapshots) + 1
VmsOf(t) == {vmStack[t][i].vm : i \in DOMAIN vmStack[t]} \ {0}
FreshVm == CHOOSE v \in VmIds : \A t \in VmThreads : \A p \in VmPools : v \notin idleVms[p] \cup VmsOf(t)

At(t, pc) == vmThread[t] = pc
Sleepers(p) == {t \in VmThreads : At(t, "sleep") /\ Top(t).pool = p}
Acquirers(p) == {t \in VmThreads : At(t, "acquire") /\ Top(t).pool = p}

\* condvar.notify_one together with the move of thread t to pc.
NotifyOne(p, t, pc) ==
  IF Sleepers(p) = {} THEN vmThread' = [vmThread EXCEPT ![t] = pc]
  ELSE \E s \in Sleepers(p) : vmThread' = [vmThread EXCEPT ![t] = pc, ![s] = "acquire"]

\* The innermost lease is gone: the thread goes on with the request around it,
\* or returns to the host.
Unwound(t) == IF Len(vmStack[t]) > 1 THEN "run" ELSE "idle"
PopTop(t) == vmStack' = [vmStack EXCEPT ![t] = SubSeq(@, 1, Len(@) - 1)]

\* reap_idle_locked: VMs past their idle time, never below the minimum.
Reapable(idle, total) ==
  {gone \in SUBSET idle : gone # {} => total >= MinVms + Cardinality(gone)}

-----------------------------------------------------------------------------
\* LuaVmPool

Frame(pool, kind) == [pool |-> pool, kind |-> kind, vm |-> 0, snapshots |-> <<>>, tainted |-> FALSE]

\* call_skill, render_help_payload, run_lua and inline luaexec by the host, and
\* vulcan.runtime.lua.exec by a running skill; all of them acquire first.
Request(t, pool, kind) ==
  /\ pool = "runlua" <=> kind = "luaexec"
  /\ \/ At(t, "idle")
     \/ At(t, "run") /\ Top(t).pool = "main" /\ pool = "runlua"
  /\ vmStack' = [vmStack EXCEPT ![t] = Append(@, Frame(pool, kind))]
  /\ vmThread' = [vmThread EXCEPT ![t] = "acquire"]
  /\ UNCHANGED <<idleVms, totalVms, vmContext, vmFaults>>

\* One turn of acquire's loop: reap and go round again, take an idle VM, start
\* to build one, or wait.
acquire(t) ==
  /\ At(t, "acquire")
  /\ LET p == Top(t).pool
     IN \E gone \in Reapable(idleVms[p], totalVms[p]) :
          \/ /\ gone # {}
             /\ idleVms' = [idleVms EXCEPT ![p] = @ \ gone]
             /\ totalVms' = [totalVms EXCEPT ![p] = @ - Cardinality(gone)]
             /\ UNCHANGED <<vmContext, vmThread, vmStack>>
          \/ /\ gone = {} /\ idleVms[p] # {}
             /\ \E v \in idleVms[p] :
                  /\ idleVms' = [idleVms EXCEPT ![p] = @ \ {v}]
                  /\ SetTop(t, [Top(t) EXCEPT !.vm = v])
             /\ vmThread' = [vmThread EXCEPT ![t] = "leased"]
             /\ UNCHANGED <<totalVms, vmContext>>
          \/ /\ gone = {} /\ idleVms[p] = {} /\ totalVms[p] < MaxVms[p]
             /\ totalVms' = [totalVms EXCEPT ![p] = @ + 1]
             /\ vmThread' = [vmThread EXCEPT ![t] = "build"]
             /\ UNCHANGED <<idleVms, vmContext, vmStack>>
          \/ /\ gone = {} /\ idleVms[p] = {} /\ totalVms[p] >= MaxVms[p]
             /\ vmThread' = [vmThread EXCEPT ![t] = "sleep"]
             /\ UNCHANGED <<idleVms, totalVms, vmContext, vmStack>>
  /\ UNCHANGED vmFaults

\* A condition variable may wake a waiter for no reason.
SpuriousWake(t) ==
  /\ At(t, "sleep")
  /\ vmThread' = [vmThread EXCEPT ![t] = "acquire"]
  /\ UNCHANGED <<idleVms, totalVms, vmContext, vmStack, vmFaults>>

\* The factory answers: create_vm_with_runtime_state or create_runlua_vm.
BuildVm(t) ==
  /\ At(t, "build")
  /\ LET p == Top(t).pool
     IN \/ /\ SetTop(t, [Top(t) EXCEPT !.vm = FreshVm])
           /\ vmContext' = [vmContext EXCEPT ![FreshVm] = Uniform(0)]
           /\ vmThread' = [vmThread EXCEPT ![t] = "leased"]
           /\ UNCHANGED <<idleVms, totalVms>>
        \/ /\ totalVms' = [totalVms EXCEPT ![p] = @ - 1]
           /\ NotifyOne(p, t, Unwound(t))
           /\ PopTop(t)
           /\ UNCHANGED <<idleVms, vmContext>>
  /\ UNCHANGED vmFaults

\* LuaVmLease::drop: the VM goes back, idle ones may be reaped.
release(t) ==
  LET p == Top(t).pool
      back == idleVms[p] \cup {Top(t).vm}
  IN \E gone \in Reapable(back, totalVms[p]) :
       /\ idleVms' = [idleVms EXCEPT ![p] = back \ gone]
       /\ totalVms' = [totalVms EXCEPT ![p] = @ - Cardinality(gone)]
       /\ NotifyOne(p, t, Unwound(t))
       /\ PopTop(t)

DiscardSilently(t) ==
  LET p == Top(t).pool
  IN /\ totalVms' = [totalVms EXCEPT ![p] = @ - 1]
     /\ vmThread' = [vmThread EXCEPT ![t] = Unwound(t)]
     /\ PopTop(t)
     /\ UNCHANGED idleVms

\* LuaVmLease::discard.
discard(t) ==
  LET p == Top(t).pool
  IN /\ totalVms' = [totalVms EXCEPT ![p] = @ - 1]
     /\ NotifyOne(p, t, Unwound(t))
     /\ PopTop(t)
     /\ UNCHANGED idleVms

-----------------------------------------------------------------------------
\* Request scope

\* reset_pooled_vm_request_scope, up to step i; the rest of a VM that could not
\* be reset is destroyed.
Reset(t, i) == SetContext(t, Applied(ResetOrder, i, Context(t), Uniform(0)))
Destroy(t) == SetContext(t, Uniform(0)) /\ discard(t)

\* LuaVmRequestScopeGuard::new: a VM that cannot be reset is thrown away.
ScopeNew(t) ==
  /\ At(t, "leased")
  /\ \E i \in Steps(ResetOrder) :
       /\ Counted(ResetOrder, i)
       /\ IF i < Len(ResetOrder) THEN Destroy(t)
          ELSE /\ Reset(t, i)
               /\ vmThread' = [vmThread EXCEPT ![t] = "populate"]
               /\ UNCHANGED <<idleVms, totalVms, vmStack>>

\* populate_loaded_skill_lua_context or populate_anonymous_lua_context; after a
\* failure the guard's drop cleans up.
Populate(t) ==
  /\ At(t, "populate")
  /\ LET order == PopulateOrder(Top(t).kind)
     IN \E i \in Steps(order) :
          /\ Counted(order, i)
          /\ SetContext(t, Applied(order, i, Context(t), Installed(Top(t).kind)))
          /\ vmThread' = [vmThread EXCEPT ![t] = IF i = Len(order) THEN "run" ELSE "finish"]
  /\ UNCHANGED <<idleVms, totalVms, vmStack>>

\* The handler returns or fails.
HandlerEnds(t) ==
  /\ At(t, "run") /\ Depth(Top(t)) = 1
  /\ vmThread' = [vmThread EXCEPT ![t] = "finish"]
  /\ UNCHANGED <<idleVms, totalVms, vmContext, vmStack, vmFaults>>

ScopeFinishKeeping(t) ==
  /\ At(t, "finish")
  /\ \E i \in Steps(ResetOrder) : Counted(ResetOrder, i) /\ Reset(t, i) /\ release(t)

\* finish_pooled_vm_request_scope, or the drop of the guard.
ScopeFinish(t) ==
  /\ At(t, "finish")
  /\ \E i \in Steps(ResetOrder) :
       /\ Counted(ResetOrder, i)
       /\ IF i < Len(ResetOrder) THEN Destroy(t) ELSE Reset(t, i) /\ release(t)

-----------------------------------------------------------------------------
\* Nested scope of vulcan.call

\* Restoring the captured state, up to step i; a failure leaves the rest.
Restore(t, ctx, snap, i) ==
  SetContext(t, Applied(RestoreOrder, i, ctx, Recaptured(Top(t).kind, snap)))

\* enter_nested_call.  When a step fails the guard is dropped, which restores
\* as far as it can, and Lua sees an error at the outer depth.
NestedCall(t) ==
  /\ At(t, "run") /\ Depth(Top(t)) < MaxDepth
  /\ \E i \in Steps(EnterOrder) :
       LET snap == Context(t)
           entered == Applied(EnterOrder, i, snap, Uniform(Depth(Top(t)) + 1))
       IN IF i = Len(EnterOrder)
          THEN /\ SetContext(t, entered) /\ UNCHANGED vmFaults
               /\ SetTop(t, [Top(t) EXCEPT !.snapshots = Append(@, snap)])
          ELSE \E r \in Steps(RestoreOrder) :
                 /\ vmFaults' = vmFaults + (IF r < Len(RestoreOrder) THEN 2 ELSE 1)
                 /\ Restore(t, entered, snap, r)
                 /\ SetTop(t, [Top(t) EXCEPT !.tainted = @ \/ r < Len(RestoreOrder)])
  /\ UNCHANGED <<idleVms, totalVms, vmThread>>

\* finish_nested_call.
NestedReturn(t) ==
  /\ At(t, "run") /\ Depth(Top(t)) > 1
  /\ LET f == Top(t)
         snap == f.snapshots[Len(f.snapshots)]
     IN \E i \in Steps(RestoreOrder) :
          /\ Counted(RestoreOrder, i)
          /\ Restore(t, Context(t), snap, i)
          /\ SetTop(t, [f EXCEPT !.snapshots = SubSeq(@, 1, Len(@) - 1),
                                 !.tainted = @ \/ i < Len(RestoreOrder)])
  /\ UNCHANGED <<idleVms, totalVms, vmThread>>

VmPoolNext ==
  \E t \in VmThreads :
    \/ Request(t, "main", "skill") \/ Request(t, "main", "anonymous")
    \/ Request(t, "runlua", "luaexec")
    \/ acquire(t) \/ SpuriousWake(t) \/ BuildVm(t)
    \/ ScopeNew(t) \/ Populate(t) \/ HandlerEnds(t) \/ ScopeFinish(t)
    \/ NestedCall(t) \/ NestedReturn(t)

-----------------------------------------------------------------------------
Pcs == {"idle", "acquire", "sleep", "build", "leased", "populate", "run", "finish"}

\* The types of the pools' and the threads' state (LuaVmPoolState, LuaVmLease).
VmPoolTypeOK ==
  /\ idleVms \in [VmPools -> SUBSET VmIds]
  /\ totalVms \in [VmPools -> Nat]
  /\ vmContext \in [VmIds -> [Parts -> 0..MaxDepth]]
  /\ vmThread \in [VmThreads -> Pcs]
  /\ vmFaults \in 0..(MaxVmFaults + 1)
  /\ \A t \in VmThreads :
       /\ Len(vmStack[t]) <= 2
       /\ \A i \in DOMAIN vmStack[t] : vmStack[t][i].vm \in VmIds \cup {0}

\* Leases of pool p that hold, or are building, a VM.
Occupied(p) ==
  {place \in VmThreads \X {1, 2} :
     /\ place[2] \in DOMAIN vmStack[place[1]]
     /\ vmStack[place[1]][place[2]].pool = p
     /\ vmStack[place[1]][place[2]].vm # 0 \/ At(place[1], "build")}

\* acquire, release, discard: total_count counts exactly the idle VMs and the
\* leases, never exceeds max_size, a VM has one place, and no thread sleeps
\* while a VM or a free slot is there that no woken thread is on its way to.
NoVmLost ==
  \A p \in VmPools :
    /\ totalVms[p] = Cardinality(idleVms[p]) + Cardinality(Occupied(p))
    /\ totalVms[p] <= MaxVms[p]
    /\ Sleepers(p) # {} =>
         Cardinality(idleVms[p]) + (MaxVms[p] - totalVms[p]) <= Cardinality(Acquirers(p))
    /\ \A t \in VmThreads : VmsOf(t) \cap idleVms[p] = {}

\* The guards: nothing a request installed, at any depth and whatever failed
\* on the way, is left in a VM that waits for the next request; and Lua that
\* has not been told of a failed restore runs in exactly the context of its
\* own call.
ContextOwned ==
  /\ \A p \in VmPools : \A v \in idleVms[p] : vmContext[v] = Uniform(0)
  /\ \A t \in VmThreads :
       At(t, "run") /\ ~Top(t).tainted =>
         Context(t) = IF Depth(Top(t)) > 1 THEN Uniform(Depth(Top(t))) ELSE Installed(Top(t).kind)
=============================================================================
