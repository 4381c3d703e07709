-------------------------- MODULE HostEngine_proofs --------------------------
(***************************************************************************)
(* Theorems about the components of the engine that MCHostEngine composes. *)
(* The components share no state, so a theorem about one of them is an     *)
(* invariant of the steps of its own part; the steps of the others leave   *)
(* it alone.                                                               *)
(*                                                                         *)
(* The VM pools: every action is one of the moves of VmMoves; each         *)
(* conjunct of VmInv is then proved move by move.                          *)
(*                                                                         *)
(* The leases (LeaseInv) and the managed workers (WorkersInv): what the    *)
(* tables say, and what a thread still knows of them after it gave up the  *)
(* lock it read them under; one lemma per action.                          *)
(***************************************************************************)
EXTENDS MCHostEngine, FiniteSetTheorems, TLAPS

-----------------------------------------------------------------------------
(* The VM pools.                                                           *)

VmSnapshot == [Parts -> 0..MaxDepth]
VmFrame == [pool : VmPools, kind : {"skill", "anonymous", "luaexec"}, vm : VmIds \cup {0},
            snapshots : Seq(VmSnapshot), tainted : BOOLEAN]

\* Steps at which the innermost lease has no VM yet, and at which nothing has
\* been called in it yet.
Waiting == {"acquire", "sleep", "build"}
Early == {"acquire", "sleep", "build", "leased", "populate"}

VmTyped ==
  /\ idleVms \in [VmPools -> SUBSET VmIds]
  /\ totalVms \in [VmPools -> Nat]
  /\ vmContext \in [VmIds -> VmSnapshot]
  /\ vmThread \in [VmThreads -> Pcs]
  /\ vmStack \in [VmThreads -> Seq(VmFrame)]
  /\ vmFaults \in 0..(MaxVmFaults + 1)

\* A thread holds one lease of each pool at most, the main one outside; only
\* the innermost may still wait for its VM.
StackShape(t) ==
  /\ Len(vmStack[t]) \in 0..2
  /\ vmThread[t] = "idle" <=> Len(vmStack[t]) = 0
  /\ Len(vmStack[t]) = 2 => vmStack[t][1].pool = "main" /\ vmStack[t][2].pool = "runlua"
  /\ \A i \in 1..Len(vmStack[t]) :
       /\ vmStack[t][i].vm = 0 <=> i = Len(vmStack[t]) /\ vmThread[t] \in Waiting
       /\ i = Len(vmStack[t]) /\ vmThread[t] \in Early =>
            vmStack[t][i].snapshots = <<>> /\ ~vmStack[t][i].tainted
       /\ Len(vmStack[t][i].snapshots) < MaxDepth

VmShape == VmTyped /\ \A t \in VmThreads : StackShape(t)

\* The VM of a lease; 0 when there is none.
VmAt(t, i) == IF i \in 1..Len(vmStack[t]) THEN vmStack[t][i].vm ELSE 0

\* A VM has one place.
VmOwned ==
  /\ idleVms["main"] \cap idleVms["runlua"] = {}
  /\ \A t \in VmThreads, i \in {1, 2}, p \in VmPools : VmAt(t, i) \notin idleVms[p]
  /\ \A t, u \in VmThreads, i, j \in {1, 2} :
       VmAt(t, i) # 0 /\ VmAt(t, i) = VmAt(u, j) => t = u /\ i = j

VmCounted ==
  \A p \in VmPools :
    /\ totalVms[p] = Cardinality(idleVms[p]) + Cardinality(Occupied(p))
    /\ totalVms[p] <= MaxVms[p]

VmAwake ==
  \A p \in VmPools :
    Sleepers(p) # {} =>
      Cardinality(idleVms[p]) + (MaxVms[p] - totalVms[p]) <= Cardinality(Acquirers(p))

\* The context of a call at some depth of a request.
ContextAt(kind, depth) == IF depth > 1 THEN Uniform(depth) ELSE Installed(kind)

\* A lease Lua runs under, or that is suspended below another: its context and
\* what its calls captured, unless a restore failed.
FrameRight(f) ==
  ~f.tainted =>
    /\ vmContext[f.vm] = ContextAt(f.kind, Depth(f))
    /\ \A d \in 1..Len(f.snapshots) : f.snapshots[d] = ContextAt(f.kind, d)

VmContexts ==
  /\ \A p \in VmPools : \A v \in idleVms[p] : vmContext[v] = Uniform(0)
  /\ \A t \in VmThreads, i \in {1, 2} :
       i \in 1..Len(vmStack[t]) =>
         /\ i < Len(vmStack[t]) \/ vmThread[t] = "run" => FrameRight(vmStack[t][i])
         /\ i = Len(vmStack[t]) /\ vmThread[t] = "populate" => vmContext[vmStack[t][i].vm] = Uniform(0)

VmInv == VmShape /\ VmOwned /\ VmCounted /\ VmAwake /\ VmContexts


\* Every other thread keeps its leases and its step, but a sleeper may be woken.
Rest(t) ==
  \A u \in VmThreads \ {t} :
    /\ vmStack'[u] = vmStack[u]
    /\ \/ vmThread'[u] = vmThread[u]
       \/ vmThread[u] = "sleep" /\ vmThread'[u] = "acquire"

LEMMA RestShape ==
  ASSUME VmShape, VmTyped', NEW t \in VmThreads, Rest(t), StackShape(t)'
  PROVE  VmShape'
BY DEF VmShape, Rest, StackShape, Waiting, Early

\* What a stack looks like after each way of changing it.
Pushed(t, f) ==
  /\ vmStack' \in [VmThreads -> Seq(VmFrame)]
  /\ \A u \in VmThreads \ {t} : vmStack'[u] = vmStack[u]
  /\ Len(vmStack'[t]) = Len(vmStack[t]) + 1
  /\ vmStack'[t][Len(vmStack[t]) + 1] = f
  /\ \A i \in 1..Len(vmStack[t]) : vmStack'[t][i] = vmStack[t][i]

Replaced(t, f) ==
  /\ vmStack' \in [VmThreads -> Seq(VmFrame)]
  /\ \A u \in VmThreads \ {t} : vmStack'[u] = vmStack[u]
  /\ Len(vmStack'[t]) = Len(vmStack[t])
  /\ vmStack'[t][Len(vmStack[t])] = f
  /\ \A i \in 1..Len(vmStack[t]) - 1 : vmStack'[t][i] = vmStack[t][i]

Popped(t) ==
  /\ vmStack' \in [VmThreads -> Seq(VmFrame)]
  /\ \A u \in VmThreads \ {t} : vmStack'[u] = vmStack[u]
  /\ Len(vmStack'[t]) = Len(vmStack[t]) - 1
  /\ \A i \in 1..Len(vmStack[t]) - 1 : vmStack'[t][i] = vmStack[t][i]

LEMMA PushStack ==
  ASSUME VmTyped, NEW t \in VmThreads, NEW f \in VmFrame,
         vmStack' = [vmStack EXCEPT ![t] = Append(@, f)]
  PROVE  Pushed(t, f)
BY DEF VmTyped, Pushed

LEMMA ReplaceStack ==
  ASSUME VmTyped, NEW t \in VmThreads, Len(vmStack[t]) > 0, NEW f \in VmFrame, SetTop(t, f)
  PROVE  Replaced(t, f)
<1> DEFINE n == Len(vmStack[t])
<1>1. vmStack[t] \in Seq(VmFrame) /\ n \in Nat /\ n \in 1..n
  BY DEF VmTyped
<1>2. vmStack'[t] = [vmStack[t] EXCEPT ![n] = f]
  BY DEF VmTyped, SetTop
<1>3. vmStack'[t] \in Seq(VmFrame) /\ Len(vmStack'[t]) = n
  BY <1>1, <1>2
<1>4. vmStack'[t][n] = f /\ \A i \in 1..n - 1 : vmStack'[t][i] = vmStack[t][i]
  BY <1>1, <1>2
<1>5. vmStack' \in [VmThreads -> Seq(VmFrame)]
  BY <1>2, <1>3 DEF VmTyped, SetTop
<1>6. \A u \in VmThreads \ {t} : vmStack'[u] = vmStack[u]
  BY DEF VmTyped, SetTop
<1> QED BY <1>3, <1>4, <1>5, <1>6 DEF Replaced

LEMMA PopStack ==
  ASSUME VmTyped, NEW t \in VmThreads, Len(vmStack[t]) > 0, PopTop(t)
  PROVE  Popped(t)
<1> DEFINE n == Len(vmStack[t])
<1>1. vmStack[t] \in Seq(VmFrame) /\ n \in Nat /\ n - 1 \in Nat
  BY DEF VmTyped
<1>2. vmStack'[t] = SubSeq(vmStack[t], 1, n - 1)
  BY DEF VmTyped, PopTop
<1>3. vmStack'[t] \in Seq(VmFrame) /\ Len(vmStack'[t]) = n - 1
  BY <1>1, <1>2
<1>4. \A i \in 1..n - 1 : vmStack'[t][i] = vmStack[t][i]
  BY <1>1, <1>2
<1>5. vmStack' \in [VmThreads -> Seq(VmFrame)]
  BY <1>2, <1>3 DEF VmTyped, PopTop
<1>6. \A u \in VmThreads \ {t} : vmStack'[u] = vmStack[u]
  BY DEF VmTyped, PopTop
<1> QED BY <1>3, <1>4, <1>5, <1>6 DEF Popped


LEMMA TopTyped ==
  ASSUME VmShape, NEW t \in VmThreads, vmThread[t] # "idle"
  PROVE  /\ Len(vmStack[t]) \in {1, 2} /\ Len(vmStack[t]) > 0 /\ Top(t) = vmStack[t][Len(vmStack[t])]
         /\ Top(t) \in VmFrame /\ Top(t).pool \in VmPools
         /\ Top(t).vm = 0 <=> vmThread[t] \in Waiting
         /\ vmThread[t] \notin Waiting => Top(t).vm \in VmIds
         /\ vmThread[t] \in Early => Top(t).snapshots = <<>> /\ ~Top(t).tainted
         /\ Top(t).snapshots \in Seq(VmSnapshot) /\ Len(Top(t).snapshots) < MaxDepth
         /\ VmAt(t, Len(vmStack[t])) = Top(t).vm
<1>1. StackShape(t) /\ vmStack[t] \in Seq(VmFrame)
  BY DEF VmShape, VmTyped
<1>2. Len(vmStack[t]) \in {1, 2} /\ Len(vmStack[t]) > 0
  BY <1>1 DEF StackShape
<1>3. Top(t) = vmStack[t][Len(vmStack[t])] /\ Len(vmStack[t]) \in 1..Len(vmStack[t])
  BY <1>2 DEF Top
<1>4. Top(t) \in VmFrame
  BY <1>1, <1>3
<1>5. Top(t).pool \in VmPools /\ Top(t).vm \in VmIds \cup {0} /\ Top(t).snapshots \in Seq(VmSnapshot)
  BY <1>4 DEF VmFrame
<1>6. /\ Top(t).vm = 0 <=> vmThread[t] \in Waiting
      /\ vmThread[t] \in Early => Top(t).snapshots = <<>> /\ ~Top(t).tainted
      /\ Len(Top(t).snapshots) < MaxDepth
  BY <1>1, <1>3 DEF StackShape
<1>7. VmAt(t, Len(vmStack[t])) = Top(t).vm
  BY <1>3 DEF VmAt
<1> QED BY <1>2, <1>3, <1>4, <1>5, <1>6, <1>7

\* notify_one for pool p while thread t moves to pc.
Woke(p, t, pc) ==
  /\ vmThread' \in [VmThreads -> Pcs]
  /\ vmThread'[t] = pc
  /\ \/ Sleepers(p) = {} /\ \A u \in VmThreads \ {t} : vmThread'[u] = vmThread[u]
     \/ \E s \in Sleepers(p) \ {t} :
          /\ vmThread'[s] = "acquire"
          /\ \A u \in VmThreads \ {t, s} : vmThread'[u] = vmThread[u]

LEMMA NotifyMoves ==
  ASSUME VmTyped, NEW t \in VmThreads, NEW pc \in Pcs, NEW p, vmThread[t] # "sleep", NotifyOne(p, t, pc)
  PROVE  Woke(p, t, pc)
BY DEF NotifyOne, VmTyped, Woke, Sleepers, At, Pcs

LEMMA WokeRest ==
  ASSUME NEW t \in VmThreads, NEW p, NEW pc, Woke(p, t, pc),
         \A u \in VmThreads \ {t} : vmStack'[u] = vmStack[u]
  PROVE  Rest(t)
BY DEF Rest, Sleepers, At, Woke

-----------------------------------------------------------------------------
(* The moves a thread can make, and what each leaves of the stacks.        *)

\* One lease more, its VM still to be found.
Asks(t, f) ==
  /\ f \in VmFrame /\ f.vm = 0 /\ f.snapshots = <<>> /\ ~f.tainted
  /\ \/ vmThread[t] = "idle"
     \/ vmThread[t] = "run" /\ Top(t).pool = "main" /\ f.pool = "runlua"
  /\ Pushed(t, f) /\ vmThread' = [vmThread EXCEPT ![t] = "acquire"]
  /\ UNCHANGED <<idleVms, totalVms, vmContext>>

\* Idle VMs past their time are destroyed.
Reaps(t, gone) ==
  LET p == Top(t).pool
  IN /\ vmThread[t] = "acquire"
     /\ gone \in Reapable(idleVms[p], totalVms[p])
     /\ idleVms' = [idleVms EXCEPT ![p] = @ \ gone]
     /\ totalVms' = [totalVms EXCEPT ![p] = @ - Cardinality(gone)]
     /\ UNCHANGED <<vmContext, vmThread, vmStack>>

\* An idle VM becomes the thread's.
Takes(t, v) ==
  LET p == Top(t).pool
  IN /\ vmThread[t] = "acquire" /\ v \in idleVms[p]
     /\ idleVms' = [idleVms EXCEPT ![p] = @ \ {v}]
     /\ Replaced(t, [Top(t) EXCEPT !.vm = v])
     /\ vmThread' = [vmThread EXCEPT ![t] = "leased"]
     /\ UNCHANGED <<totalVms, vmContext>>

\* A slot for a new VM.
Starts(t) ==
  LET p == Top(t).pool
  IN /\ vmThread[t] = "acquire" /\ idleVms[p] = {} /\ totalVms[p] < MaxVms[p]
     /\ totalVms' = [totalVms EXCEPT ![p] = @ + 1]
     /\ vmThread' = [vmThread EXCEPT ![t] = "build"]
     /\ UNCHANGED <<idleVms, vmContext, vmStack>>

Sleeps(t) ==
  LET p == Top(t).pool
  IN /\ vmThread[t] = "acquire" /\ idleVms[p] = {} /\ totalVms[p] >= MaxVms[p]
     /\ vmThread' = [vmThread EXCEPT ![t] = "sleep"]
     /\ UNCHANGED <<idleVms, totalVms, vmContext, vmStack>>

\* The new VM is the thread's.
Builds(t) ==
  /\ vmThread[t] = "build"
  /\ SetTop(t, [Top(t) EXCEPT !.vm = FreshVm])
  /\ vmContext' = [vmContext EXCEPT ![FreshVm] = Uniform(0)]
  /\ vmThread' = [vmThread EXCEPT ![t] = "leased"]
  /\ UNCHANGED <<idleVms, totalVms>>

\* The lease ends without its VM: the factory failed, or it was destroyed.
Forgoes(t) ==
  LET p == Top(t).pool
  IN /\ vmThread[t] \in {"build", "leased", "finish"}
     /\ totalVms' = [totalVms EXCEPT ![p] = @ - 1]
     /\ Woke(p, t, Unwound(t)) /\ Popped(t)
     /\ UNCHANGED idleVms
     /\ \/ vmThread[t] = "build" /\ vmContext' = vmContext
        \/ vmThread[t] # "build" /\ vmContext' = [vmContext EXCEPT ![Top(t).vm] = Uniform(0)]

\* The lease ends and its VM, cleaned, is idle or reaped.
Releases(t, gone) ==
  LET p == Top(t).pool
      back == idleVms[p] \cup {Top(t).vm}
  IN /\ vmThread[t] = "finish"
     /\ gone \in Reapable(back, totalVms[p])
     /\ idleVms' = [idleVms EXCEPT ![p] = back \ gone]
     /\ totalVms' = [totalVms EXCEPT ![p] = @ - Cardinality(gone)]
     /\ Woke(p, t, Unwound(t)) /\ Popped(t)
     /\ vmContext' = [vmContext EXCEPT ![Top(t).vm] = Uniform(0)]

\* The request scope is installed in a clean VM.
Prepares(t) ==
  /\ vmThread[t] = "leased"
  /\ vmContext' = [vmContext EXCEPT ![Top(t).vm] = Uniform(0)]
  /\ vmThread' = [vmThread EXCEPT ![t] = "populate"]
  /\ UNCHANGED <<idleVms, totalVms, vmStack>>

Populates(t, ctx, pc) ==
  /\ vmThread[t] = "populate" /\ pc \in {"run", "finish"} /\ ctx \in VmSnapshot
  /\ pc = "run" /\ vmContext[Top(t).vm] = Uniform(0) => ctx = Installed(Top(t).kind)
  /\ vmContext' = [vmContext EXCEPT ![Top(t).vm] = ctx]
  /\ vmThread' = [vmThread EXCEPT ![t] = pc]
  /\ UNCHANGED <<idleVms, totalVms, vmStack>>

\* A nested call begins or ends: the frame f it leaves is right if the one it found was.
Nests(t, f, ctx) ==
  /\ vmThread[t] = "run" /\ vmThread' = vmThread
  /\ f \in VmFrame /\ Len(f.snapshots) < MaxDepth
  /\ f.vm = Top(t).vm /\ f.pool = Top(t).pool /\ f.kind = Top(t).kind
  /\ Replaced(t, f)
  /\ ctx \in VmSnapshot /\ vmContext' = [vmContext EXCEPT ![Top(t).vm] = ctx]
  /\ FrameRight(Top(t)) /\ ~f.tainted =>
       /\ ctx = ContextAt(f.kind, Depth(f))
       /\ \A d \in 1..Len(f.snapshots) : f.snapshots[d] = ContextAt(f.kind, d)
  /\ UNCHANGED <<idleVms, totalVms>>

VmMoves(t) ==
  \/ \E f : Asks(t, f)
  \/ \E gone : Reaps(t, gone)
  \/ \E v : Takes(t, v)
  \/ Starts(t) \/ Sleeps(t) \/ SpuriousWake(t) \/ Builds(t) \/ Forgoes(t)
  \/ \E gone : Releases(t, gone)
  \/ Prepares(t) \/ HandlerEnds(t)
  \/ \E ctx, pc : Populates(t, ctx, pc)
  \/ \E f, ctx : Nests(t, f, ctx)


-----------------------------------------------------------------------------
(* Contexts: an order that names every part installs all of them.          *)

LEMMA SnapshotsTyped ==
  /\ \A d \in 0..MaxDepth : Uniform(d) \in VmSnapshot
  /\ \A kind : Installed(kind) \in VmSnapshot
  /\ \A kind : \A snap \in VmSnapshot : Recaptured(kind, snap) \in VmSnapshot
BY VmPoolAssumption DEF VmSnapshot, Uniform, Installed, Recaptured, Parts

LEMMA AppliedTyped ==
  ASSUME NEW order, NEW i, NEW old \in VmSnapshot, NEW new \in VmSnapshot
  PROVE  Applied(order, i, old, new) \in VmSnapshot
BY DEF Applied, VmSnapshot

LEMMA OrdersLong ==
  /\ Len(ResetOrder) = 6 /\ Len(RestoreOrder) = 7 /\ Len(EnterOrder) = 6
  /\ Len(PopulateOrder("skill")) = 6 /\ Len(PopulateOrder("anonymous")) = 6
  /\ Len(PopulateOrder("luaexec")) = 4
BY DEF ResetOrder, RestoreOrder, EnterOrder, PopulateOrder

LEMMA AppliedReset ==
  ASSUME NEW old \in VmSnapshot, NEW new \in VmSnapshot
  PROVE  Applied(ResetOrder, 6, old, new) = new
BY DEF Parts, ResetOrder, Applied, VmSnapshot

LEMMA AppliedEnter ==
  ASSUME NEW old \in VmSnapshot, NEW new \in VmSnapshot
  PROVE  Applied(EnterOrder, 6, old, new) = new
BY DEF Parts, EnterOrder, Applied, VmSnapshot

LEMMA AppliedRestore ==
  ASSUME NEW old \in VmSnapshot, NEW new \in VmSnapshot
  PROVE  Applied(RestoreOrder, 7, old, new) = new
BY DEF Parts, RestoreOrder, Applied, VmSnapshot

LEMMA AppliedPopulate ==
  ASSUME NEW kind \in {"skill", "anonymous", "luaexec"}
  PROVE  Applied(PopulateOrder(kind), Len(PopulateOrder(kind)), Uniform(0), Installed(kind)) = Installed(kind)
BY OrdersLong DEF Parts, PopulateOrder, Applied, Uniform, Installed

\* The dependency table that is rebuilt is the one a right context has.
LEMMA RecapturedRight ==
  ASSUME NEW kind, NEW d \in Nat \ {0}
  PROVE  Recaptured(kind, ContextAt(kind, d)) = ContextAt(kind, d)
BY DEF Recaptured, ContextAt, Uniform, Parts, Installed


-----------------------------------------------------------------------------
(* Every action is one of the moves.                                       *)

LEMMA RequestMoves ==
  ASSUME VmShape, NEW t \in VmThreads, NEW pool \in VmPools, NEW kind \in {"skill", "anonymous", "luaexec"},
         Request(t, pool, kind)
  PROVE  VmMoves(t)
<1> DEFINE f == Frame(pool, kind)
<1>1. f \in VmFrame /\ f.vm = 0 /\ f.snapshots = <<>> /\ ~f.tainted /\ f.pool = pool
  BY DEF Frame, VmFrame
<1>2. Pushed(t, f)
  BY <1>1, PushStack DEF VmShape, Request
<1>3. Asks(t, f)
  BY <1>1, <1>2 DEF Asks, Request, At
<1> QED BY <1>3 DEF VmMoves

LEMMA AcquireMoves ==
  ASSUME VmShape, NEW t \in VmThreads, acquire(t)
  PROVE  VmMoves(t)
<1> DEFINE p == Top(t).pool
<1>1. vmThread[t] = "acquire" /\ VmTyped
  BY DEF acquire, At, VmShape
<1>2. Len(vmStack[t]) > 0 /\ Top(t) \in VmFrame /\ p \in VmPools
  BY <1>1, TopTyped
<1>3. PICK gone \in Reapable(idleVms[p], totalVms[p]) :
          \/ /\ gone # {}
             /\ idleVms' = [idleVms EXCEPT ![p] = @ \ gone]
             /\ totalVms' = [totalVms EXCEPT ![p] = @ - Cardinality(gone)]
             /\ UNCHANGED <<vmContext, vmThread, vmStack>>
          \/ /\ gone = {} /\ idleVms[p] # {}
             /\ \E v \in idleVms[p] :
                  /\ idleVms' = [idleVms EXCEPT ![p] = @ \ {v}]
                  /\ SetTop(t, [Top(t) EXCEPT !.vm = v])
             /\ vmThread' = [vmThread EXCEPT ![t] = "leased"]
             /\ UNCHANGED <<totalVms, vmContext>>
          \/ /\ gone = {} /\ idleVms[p] = {} /\ totalVms[p] < MaxVms[p]
             /\ totalVms' = [totalVms EXCEPT ![p] = @ + 1]
             /\ vmThread' = [vmThread EXCEPT ![t] = "build"]
             /\ UNCHANGED <<idleVms, vmContext, vmStack>>
          \/ /\ gone = {} /\ idleVms[p] = {} /\ totalVms[p] >= MaxVms[p]
             /\ vmThread' = [vmThread EXCEPT ![t] = "sleep"]
             /\ UNCHANGED <<idleVms, totalVms, vmContext, vmStack>>
  BY DEF acquire
<1>4. CASE /\ idleVms' = [idleVms EXCEPT ![p] = @ \ gone]
           /\ totalVms' = [totalVms EXCEPT ![p] = @ - Cardinality(gone)]
           /\ UNCHANGED <<vmContext, vmThread, vmStack>>
  BY <1>1, <1>3, <1>4 DEF Reaps, VmMoves
<1>5. ASSUME NEW v \in idleVms[p],
             idleVms' = [idleVms EXCEPT ![p] = @ \ {v}], SetTop(t, [Top(t) EXCEPT !.vm = v]),
             vmThread' = [vmThread EXCEPT ![t] = "leased"],
             UNCHANGED <<totalVms, vmContext>>
      PROVE  VmMoves(t)
  BY <1>1, <1>2, <1>5, ReplaceStack DEF VmTyped, VmFrame, Takes, VmMoves
<1>6. CASE /\ idleVms[p] = {} /\ totalVms[p] < MaxVms[p]
           /\ totalVms' = [totalVms EXCEPT ![p] = @ + 1]
           /\ vmThread' = [vmThread EXCEPT ![t] = "build"]
           /\ UNCHANGED <<idleVms, vmContext, vmStack>>
  BY <1>1, <1>6 DEF Starts, VmMoves
<1>7. CASE /\ idleVms[p] = {} /\ totalVms[p] >= MaxVms[p]
           /\ vmThread' = [vmThread EXCEPT ![t] = "sleep"]
           /\ UNCHANGED <<idleVms, totalVms, vmContext, vmStack>>
  BY <1>1, <1>7 DEF Sleeps, VmMoves
<1> QED BY <1>3, <1>4, <1>5, <1>6, <1>7

LEMMA UnwoundPc == \A t \in VmThreads : Unwound(t) \in Pcs
BY DEF Unwound, Pcs

LEMMA DiscardMoves ==
  ASSUME VmShape, NEW t \in VmThreads, vmThread[t] \in {"leased", "finish"}, Destroy(t)
  PROVE  VmMoves(t)
BY TopTyped, PopStack, NotifyMoves, UnwoundPc DEF VmShape, Destroy, discard, Forgoes, SetContext, VmMoves

LEMMA BuildMoves ==
  ASSUME VmShape, NEW t \in VmThreads, BuildVm(t)
  PROVE  VmMoves(t)
<1> DEFINE p == Top(t).pool
<1>1. vmThread[t] = "build" /\ Len(vmStack[t]) > 0 /\ VmTyped
  BY TopTyped DEF BuildVm, At, VmShape
<1>2. CASE /\ SetTop(t, [Top(t) EXCEPT !.vm = FreshVm])
           /\ vmContext' = [vmContext EXCEPT ![FreshVm] = Uniform(0)]
           /\ vmThread' = [vmThread EXCEPT ![t] = "leased"]
           /\ UNCHANGED <<idleVms, totalVms>>
  BY <1>1, <1>2 DEF Builds, VmMoves
<1>3. CASE /\ totalVms' = [totalVms EXCEPT ![p] = @ - 1]
           /\ NotifyOne(p, t, Unwound(t))
           /\ PopTop(t)
           /\ UNCHANGED <<idleVms, vmContext>>
  BY <1>1, <1>3, PopStack, NotifyMoves, UnwoundPc DEF Forgoes, VmMoves
<1> QED BY <1>2, <1>3 DEF BuildVm

LEMMA ScopeNewMoves ==
  ASSUME VmShape, NEW t \in VmThreads, ScopeNew(t)
  PROVE  VmMoves(t)
<1>1. vmThread[t] = "leased" /\ VmTyped
  BY DEF ScopeNew, At, VmShape
<1>2. PICK i \in Steps(ResetOrder) :
        IF i < Len(ResetOrder) THEN Destroy(t)
        ELSE /\ Reset(t, i)
             /\ vmThread' = [vmThread EXCEPT ![t] = "populate"]
             /\ UNCHANGED <<idleVms, totalVms, vmStack>>
  BY DEF ScopeNew
<1>3. i \in 0..6
  BY OrdersLong DEF Steps
<1>4. CASE i < 6
  BY <1>1, <1>2, <1>4, OrdersLong, DiscardMoves
<1>5. CASE i = 6
  <2>1. /\ Reset(t, 6) /\ vmThread' = [vmThread EXCEPT ![t] = "populate"]
        /\ UNCHANGED <<idleVms, totalVms, vmStack>>
    BY <1>2, <1>5, OrdersLong
  <2>2. Context(t) \in VmSnapshot /\ Uniform(0) \in VmSnapshot
    <3>1. Top(t).vm \in VmIds /\ Len(vmStack[t]) > 0
      BY <1>1, TopTyped DEF Waiting
    <3>2. 0 \in 0..MaxDepth
      BY VmPoolAssumption
    <3> QED BY <1>1, <3>1, <3>2, SnapshotsTyped DEF Context, VmTyped
  <2>3. vmContext' = [vmContext EXCEPT ![Top(t).vm] = Uniform(0)]
    BY <2>1, <2>2, AppliedReset DEF Reset, SetContext
  <2>4. Prepares(t)
    BY <1>1, <2>1, <2>3 DEF Prepares
  <2> QED BY <2>4 DEF VmMoves
<1> QED BY <1>3, <1>4, <1>5

LEMMA ScopeFinishMoves ==
  ASSUME VmShape, NEW t \in VmThreads, ScopeFinish(t)
  PROVE  VmMoves(t)
<1> DEFINE p == Top(t).pool
           back == idleVms[p] \cup {Top(t).vm}
<1>1. vmThread[t] = "finish" /\ VmTyped
  BY DEF ScopeFinish, At, VmShape
<1>2. PICK i \in Steps(ResetOrder) :
        IF i < Len(ResetOrder) THEN Destroy(t) ELSE Reset(t, i) /\ release(t)
  BY DEF ScopeFinish
<1>3. i \in 0..6
  BY OrdersLong DEF Steps
<1>4. CASE i < 6
  BY <1>1, <1>2, <1>4, OrdersLong, DiscardMoves
<1>5. CASE i = 6
  <2>1. Reset(t, 6) /\ release(t)
    BY <1>2, <1>5, OrdersLong
  <2>2. Context(t) \in VmSnapshot /\ Uniform(0) \in VmSnapshot /\ Len(vmStack[t]) > 0
    <3>1. Top(t).vm \in VmIds /\ Len(vmStack[t]) > 0
      BY <1>1, TopTyped DEF Waiting
    <3>2. 0 \in 0..MaxDepth
      BY VmPoolAssumption
    <3> QED BY <1>1, <3>1, <3>2, SnapshotsTyped DEF Context, VmTyped
  <2>3. vmContext' = [vmContext EXCEPT ![Top(t).vm] = Uniform(0)]
    BY <2>1, <2>2, AppliedReset DEF Reset, SetContext
  <2>4. PICK gone \in Reapable(back, totalVms[p]) :
       /\ idleVms' = [idleVms EXCEPT ![p] = back \ gone]
       /\ totalVms' = [totalVms EXCEPT ![p] = @ - Cardinality(gone)]
       /\ NotifyOne(p, t, Unwound(t))
       /\ PopTop(t)
    BY <2>1 DEF release
  <2>5. Popped(t) /\ Woke(p, t, Unwound(t))
    BY <1>1, <2>2, <2>4, PopStack, NotifyMoves, UnwoundPc
  <2>6. Releases(t, gone)
    BY <1>1, <2>3, <2>4, <2>5 DEF Releases
  <2> QED BY <2>6 DEF VmMoves
<1> QED BY <1>3, <1>4, <1>5

LEMMA PopulateMoves ==
  ASSUME VmShape, NEW t \in VmThreads, Populate(t)
  PROVE  VmMoves(t)
<1> DEFINE order == PopulateOrder(Top(t).kind)
<1>1. vmThread[t] = "populate" /\ VmTyped
  BY DEF Populate, At, VmShape
<1>2. PICK i \in Steps(order) :
          /\ SetContext(t, Applied(order, i, Context(t), Installed(Top(t).kind)))
          /\ vmThread' = [vmThread EXCEPT ![t] = IF i = Len(order) THEN "run" ELSE "finish"]
  BY DEF Populate
<1> DEFINE ctx == Applied(order, i, Context(t), Installed(Top(t).kind))
           pc == IF i = Len(order) THEN "run" ELSE "finish"
<1>3. Context(t) \in VmSnapshot /\ Top(t).kind \in {"skill", "anonymous", "luaexec"}
  BY <1>1, TopTyped DEF Context, VmTyped, Waiting, VmFrame
<1>4. ctx \in VmSnapshot
  BY <1>3, SnapshotsTyped, AppliedTyped
<1>5. pc = "run" /\ vmContext[Top(t).vm] = Uniform(0) => ctx = Installed(Top(t).kind)
  BY <1>3, AppliedPopulate DEF Context
<1>6. Populates(t, ctx, pc)
  BY <1>1, <1>2, <1>4, <1>5 DEF Populates, Populate, SetContext
<1> QED BY <1>6 DEF VmMoves


LEMMA NestedReturnMoves ==
  ASSUME VmShape, NEW t \in VmThreads, NestedReturn(t)
  PROVE  VmMoves(t)
<1> DEFINE f == Top(t)
           k == Len(f.snapshots)
           snap == f.snapshots[k]
<1>1. vmThread[t] = "run" /\ Depth(f) > 1 /\ VmTyped
  BY DEF NestedReturn, At, VmShape
<1>2. /\ f \in VmFrame /\ f.vm \in VmIds /\ f.snapshots \in Seq(VmSnapshot) /\ k < MaxDepth
      /\ Len(vmStack[t]) > 0
  BY <1>1, TopTyped DEF Waiting
<1>3. k \in Nat /\ k >= 1 /\ k \in 1..k /\ k - 1 \in Nat /\ MaxDepth \in Nat
  BY <1>1, <1>2, VmPoolAssumption DEF Depth
<1>4. snap \in VmSnapshot /\ Context(t) \in VmSnapshot
  BY <1>1, <1>2, <1>3 DEF Context, VmTyped
<1>5. PICK i \in Steps(RestoreOrder) :
          /\ Restore(t, Context(t), snap, i)
          /\ SetTop(t, [f EXCEPT !.snapshots = SubSeq(@, 1, Len(@) - 1),
                                 !.tainted = @ \/ i < Len(RestoreOrder)])
  BY DEF NestedReturn
<1> DEFINE g == [f EXCEPT !.snapshots = SubSeq(f.snapshots, 1, k - 1), !.tainted = f.tainted \/ i < 7]
           ctx == Applied(RestoreOrder, i, Context(t), Recaptured(f.kind, snap))
<1>6. i \in 0..7 /\ SetTop(t, g) /\ vmContext' = [vmContext EXCEPT ![f.vm] = ctx]
  BY <1>5, OrdersLong DEF Steps, Restore, SetContext
<1>7. /\ SubSeq(f.snapshots, 1, k - 1) \in Seq(VmSnapshot)
      /\ Len(SubSeq(f.snapshots, 1, k - 1)) = k - 1
      /\ \A d \in 1..k - 1 : SubSeq(f.snapshots, 1, k - 1)[d] = f.snapshots[d]
  BY <1>2, <1>3
<1>8. /\ g.vm = f.vm /\ g.pool = f.pool /\ g.kind = f.kind /\ g.snapshots = SubSeq(f.snapshots, 1, k - 1)
      /\ g.tainted = (f.tainted \/ i < 7)
  BY <1>2 DEF VmFrame
<1>9. g \in VmFrame
  BY <1>2, <1>7 DEF VmFrame
<1>10. ctx \in VmSnapshot
  BY <1>4, SnapshotsTyped, AppliedTyped
<1>11. Len(g.snapshots) = k - 1 /\ Depth(g) = k
  BY <1>3, <1>7, <1>8 DEF Depth
<1>12. ASSUME FrameRight(f), ~g.tainted
       PROVE  /\ ctx = ContextAt(g.kind, Depth(g))
              /\ \A d \in 1..Len(g.snapshots) : g.snapshots[d] = ContextAt(g.kind, d)
  <2>1. ~f.tainted /\ i = 7
    <3>1. ~f.tainted /\ ~(i < 7)
      BY <1>8, <1>12, Zenon
    <3> QED BY <1>6, <3>1
  <2>2. \A d \in 1..k : f.snapshots[d] = ContextAt(f.kind, d)
    BY <1>12, <2>1 DEF FrameRight
  <2>3. ctx = Recaptured(f.kind, snap)
    BY <1>4, <2>1, SnapshotsTyped, AppliedRestore
  <2>4. snap = ContextAt(f.kind, k)
    BY <1>3, <2>2
  <2>5. ctx = ContextAt(f.kind, k)
    BY <1>3, <2>3, <2>4, RecapturedRight
  <2>6. \A d \in 1..k - 1 : g.snapshots[d] = ContextAt(g.kind, d)
    BY <1>3, <1>7, <1>8, <2>2
  <2> QED BY <1>8, <1>11, <2>5, <2>6
<1>13. Replaced(t, g)
  BY <1>1, <1>2, <1>6, <1>9, ReplaceStack
<1>14. Len(g.snapshots) < MaxDepth
  BY <1>2, <1>3, <1>11
<1>15. vmThread' = vmThread /\ UNCHANGED <<idleVms, totalVms>>
  BY DEF NestedReturn
<1> HIDE DEF g, ctx
<1>16. Nests(t, g, ctx)
  BY <1>1, <1>6, <1>8, <1>9, <1>10, <1>12, <1>13, <1>14, <1>15 DEF Nests
<1> QED BY <1>16 DEF VmMoves

LEMMA NestedCallMoves ==
  ASSUME VmShape, NEW t \in VmThreads, NestedCall(t)
  PROVE  VmMoves(t)
<1> DEFINE f == Top(t)
           k == Len(f.snapshots)
           snap == Context(t)
<1>1. vmThread[t] = "run" /\ Depth(f) < MaxDepth /\ VmTyped /\ vmThread' = vmThread /\ UNCHANGED <<idleVms, totalVms>>
  BY DEF NestedCall, At, VmShape
<1>2. /\ f \in VmFrame /\ f.vm \in VmIds /\ f.snapshots \in Seq(VmSnapshot)
      /\ Len(vmStack[t]) > 0
  BY <1>1, TopTyped DEF Waiting
<1>3. k \in Nat /\ Depth(f) = k + 1 /\ k + 1 < MaxDepth /\ MaxDepth \in Nat /\ k + 2 \in 0..MaxDepth
  BY <1>1, <1>2, VmPoolAssumption DEF Depth
<1>4. snap \in VmSnapshot /\ Uniform(k + 2) \in VmSnapshot
  BY <1>1, <1>2, <1>3, SnapshotsTyped DEF Context, VmTyped
<1>5. PICK i \in Steps(EnterOrder) :
       LET entered == Applied(EnterOrder, i, snap, Uniform(Depth(f) + 1))
       IN IF i = Len(EnterOrder)
          THEN /\ SetContext(t, entered)
               /\ SetTop(t, [f EXCEPT !.snapshots = Append(@, snap)])
          ELSE \E r \in Steps(RestoreOrder) :
                 /\ Restore(t, entered, snap, r)
                 /\ SetTop(t, [f EXCEPT !.tainted = @ \/ r < Len(RestoreOrder)])
  BY DEF NestedCall
<1> DEFINE entered == Applied(EnterOrder, i, snap, Uniform(k + 2))
<1>6. Depth(f) + 1 = k + 2
  BY <1>3
<1>7. entered \in VmSnapshot
  BY <1>4, AppliedTyped
<1>8. CASE i = 6
  <2> DEFINE g == [f EXCEPT !.snapshots = Append(f.snapshots, snap)]
  <2>1. SetTop(t, g) /\ vmContext' = [vmContext EXCEPT ![f.vm] = entered]
    BY <1>5, <1>6, <1>8, OrdersLong DEF SetContext
  <2>2. entered = Uniform(k + 2)
    BY <1>4, <1>8, AppliedEnter
  <2>3. /\ Append(f.snapshots, snap) \in Seq(VmSnapshot) /\ Len(Append(f.snapshots, snap)) = k + 1
        /\ Append(f.snapshots, snap)[k + 1] = snap
        /\ \A d \in 1..k : Append(f.snapshots, snap)[d] = f.snapshots[d]
    BY <1>2, <1>4
  <2>4. g.vm = f.vm /\ g.pool = f.pool /\ g.kind = f.kind /\ g.snapshots = Append(f.snapshots, snap) /\ g.tainted = f.tainted
    BY <1>2 DEF VmFrame
  <2>5. g \in VmFrame
    BY <1>2, <2>3 DEF VmFrame
  <2>6. Len(g.snapshots) = k + 1 /\ Depth(g) = k + 2 /\ Len(g.snapshots) < MaxDepth
    BY <1>3, <2>3, <2>4 DEF Depth
  <2>7. ASSUME FrameRight(f), ~g.tainted
        PROVE  /\ entered = ContextAt(g.kind, Depth(g))
               /\ \A d \in 1..Len(g.snapshots) : g.snapshots[d] = ContextAt(g.kind, d)
    BY <1>3, <2>2, <2>3, <2>4, <2>6, <2>7 DEF FrameRight, Context, ContextAt
  <2>8. Replaced(t, g)
    BY <1>1, <1>2, <2>1, <2>5, ReplaceStack
  <2> HIDE DEF g, entered
  <2>9. Nests(t, g, entered)
    BY <1>1, <1>7, <2>1, <2>4, <2>5, <2>6, <2>7, <2>8 DEF Nests
  <2> QED BY <2>9 DEF VmMoves
<1>9. CASE i # 6
  <2>1. PICK r \in Steps(RestoreOrder) :
          /\ Restore(t, entered, snap, r)
          /\ SetTop(t, [f EXCEPT !.tainted = @ \/ r < Len(RestoreOrder)])
    BY <1>5, <1>6, <1>9, OrdersLong
  <2> DEFINE g == [f EXCEPT !.tainted = f.tainted \/ r < 7]
             ctx == Applied(RestoreOrder, r, entered, Recaptured(f.kind, snap))
  <2>2. r \in 0..7 /\ SetTop(t, g) /\ vmContext' = [vmContext EXCEPT ![f.vm] = ctx]
    BY <2>1, OrdersLong DEF Steps, Restore, SetContext
  <2>3. g.vm = f.vm /\ g.pool = f.pool /\ g.kind = f.kind /\ g.snapshots = f.snapshots /\ g.tainted = (f.tainted \/ r < 7)
    BY <1>2 DEF VmFrame
  <2>4. g \in VmFrame
    BY <1>2 DEF VmFrame
  <2>5. ctx \in VmSnapshot
    BY <1>4, <1>7, SnapshotsTyped, AppliedTyped
  <2>6. Len(g.snapshots) < MaxDepth
    BY <1>3, <2>3
  <2>7. ASSUME FrameRight(f), ~g.tainted
        PROVE  /\ ctx = ContextAt(g.kind, Depth(g))
               /\ \A d \in 1..Len(g.snapshots) : g.snapshots[d] = ContextAt(g.kind, d)
    <3>1. ~f.tainted /\ r = 7
      <4>1. ~f.tainted /\ ~(r < 7)
        BY <2>3, <2>7, Zenon
      <4> QED BY <2>2, <4>1
    <3>2. /\ snap = ContextAt(f.kind, k + 1)
          /\ \A d \in 1..k : f.snapshots[d] = ContextAt(f.kind, d)
      BY <1>3, <2>7, <3>1 DEF FrameRight, Context
    <3>3. ctx = Recaptured(f.kind, snap)
      BY <1>4, <1>7, <3>1, SnapshotsTyped, AppliedRestore
    <3>4. ctx = ContextAt(f.kind, k + 1)
      BY <1>3, <3>2, <3>3, RecapturedRight
    <3> QED BY <1>3, <2>3, <3>2, <3>4 DEF Depth
  <2>8. Replaced(t, g)
    BY <1>1, <1>2, <2>2, <2>4, ReplaceStack
  <2> HIDE DEF g, ctx
  <2>9. Nests(t, g, ctx)
    BY <1>1, <2>2, <2>3, <2>4, <2>5, <2>6, <2>7, <2>8 DEF Nests
  <2> QED BY <2>9 DEF VmMoves
<1> QED BY <1>8, <1>9

LEMMA NextMoves ==
  ASSUME VmShape, VmPoolNext
  PROVE  \E t \in VmThreads : VmMoves(t)
BY RequestMoves, AcquireMoves, BuildMoves, ScopeNewMoves, PopulateMoves, ScopeFinishMoves, NestedCallMoves,
   NestedReturnMoves DEF VmPoolNext, VmPools, VmMoves


-----------------------------------------------------------------------------
(* Counting.                                                               *)

LEMMA OccupiedFinite ==
  ASSUME NEW p
  PROVE  IsFiniteSet(Occupied(p)) /\ Cardinality(Occupied(p)) \in Nat
<1>1. IsFiniteSet({1, 2})
  <2>1. IsFiniteSet({1})
    BY FS_Singleton
  <2>2. IsFiniteSet({1} \cup {2})
    BY <2>1, FS_AddElement
  <2>3. {1, 2} = {1} \cup {2}
    OBVIOUS
  <2> QED BY <2>2, <2>3, Zenon
<1>2. IsFiniteSet(VmThreads \X {1, 2})
  BY <1>1, FS_Product, VmPoolAssumption
<1>3. Occupied(p) \in SUBSET (VmThreads \X {1, 2})
  BY DEF Occupied
<1>4. IsFiniteSet(Occupied(p))
  BY <1>2, <1>3, FS_Subset
<1> QED BY <1>4, FS_CardinalityType

LEMMA IdleFinite ==
  ASSUME VmTyped, NEW p \in VmPools
  PROVE  IsFiniteSet(idleVms[p]) /\ Cardinality(idleVms[p]) \in Nat
BY FS_Subset, VmPoolAssumption, FS_CardinalityType DEF VmTyped

\* A lease that has a VM, or is having one built, is counted.
LEMMA TopOccupied ==
  ASSUME VmShape, NEW t \in VmThreads, vmThread[t] \in {"build", "leased", "populate", "run", "finish"}
  PROVE  <<t, Len(vmStack[t])>> \in Occupied(Top(t).pool)
<1> DEFINE n == Len(vmStack[t])
<1>1. n \in {1, 2} /\ Top(t) = vmStack[t][n] /\ (Top(t).vm = 0 <=> vmThread[t] \in Waiting)
  BY TopTyped
<1>2. n \in 1..n
  BY <1>1
<1>3. vmStack[t] \in Seq(VmFrame)
  BY DEF VmShape, VmTyped
<1>4. vmStack[t][n].vm # 0 \/ vmThread[t] = "build"
  BY <1>1 DEF Waiting
<1>5. DOMAIN vmStack[t] = 1..n /\ <<t, n>> \in VmThreads \X {1, 2}
  BY <1>1, <1>3
<1> QED BY <1>1, <1>2, <1>4, <1>5 DEF Occupied, At


\* The pools never hold more VMs than there are names: while one is being
\* built, a name is free.
LEMMA FreshExists ==
  ASSUME VmShape, VmCounted, NEW t \in VmThreads, vmThread[t] = "build"
  PROVE  /\ FreshVm \in VmIds
         /\ \A p \in VmPools : FreshVm \notin idleVms[p]
         /\ \A u \in VmThreads, i \in {1, 2} : VmAt(u, i) # FreshVm
<1> DEFINE place == <<t, Len(vmStack[t])>>
           A == idleVms["main"] \cup idleVms["runlua"]
           O == Occupied("main") \cup Occupied("runlua")
           S == O \ {place}
           vmOf == [o \in S |-> vmStack[o[1]][o[2]].vm]
           B == {v \in VmIds : \E o \in S : vmOf[o] = v}
           K == {o \in S : vmOf[o] \in VmIds}
<1>0. VmTyped /\ "main" \in VmPools /\ "runlua" \in VmPools
  BY DEF VmShape, VmPools
<1>1. /\ IsFiniteSet(idleVms["main"]) /\ Cardinality(idleVms["main"]) \in Nat
      /\ IsFiniteSet(idleVms["runlua"]) /\ Cardinality(idleVms["runlua"]) \in Nat
  BY <1>0, IdleFinite
<1>2. /\ IsFiniteSet(A) /\ Cardinality(A) \in Nat
      /\ Cardinality(A) <= Cardinality(idleVms["main"]) + Cardinality(idleVms["runlua"])
  <2>1. IsFiniteSet(A) /\ Cardinality(A) = Cardinality(idleVms["main"]) + Cardinality(idleVms["runlua"])
                                            - Cardinality(idleVms["main"] \cap idleVms["runlua"])
    BY <1>1, FS_Union
  <2>2. Cardinality(A) \in Nat /\ Cardinality(idleVms["main"] \cap idleVms["runlua"]) \in Nat
    BY <1>1, <2>1, FS_CardinalityType, FS_Intersection
  <2> QED BY <1>1, <2>1, <2>2
<1>3. /\ IsFiniteSet(O) /\ Cardinality(O) \in Nat
      /\ Cardinality(O) <= Cardinality(Occupied("main")) + Cardinality(Occupied("runlua"))
  <2>1. /\ IsFiniteSet(Occupied("main")) /\ Cardinality(Occupied("main")) \in Nat
        /\ IsFiniteSet(Occupied("runlua")) /\ Cardinality(Occupied("runlua")) \in Nat
    BY OccupiedFinite
  <2>2. IsFiniteSet(O) /\ Cardinality(O) = Cardinality(Occupied("main")) + Cardinality(Occupied("runlua"))
                                            - Cardinality(Occupied("main") \cap Occupied("runlua"))
    BY <2>1, FS_Union
  <2>3. Cardinality(O) \in Nat /\ Cardinality(Occupied("main") \cap Occupied("runlua")) \in Nat
    BY <2>1, <2>2, FS_CardinalityType, FS_Intersection
  <2> QED BY <2>1, <2>2, <2>3
<1>4. place \in O
  BY TopOccupied, TopTyped DEF VmPools
<1>5. IsFiniteSet(S) /\ Cardinality(S) = Cardinality(O) - 1
  BY <1>3, <1>4, FS_RemoveElement
<1>6. IsFiniteSet(K) /\ Cardinality(K) <= Cardinality(S)
  BY <1>5, FS_Subset
<1>7. IsFiniteSet(B) /\ Cardinality(B) <= Cardinality(K)
  <2>1. [o \in K |-> vmOf[o]] \in Surjection(K, B)
    BY DEF Surjection
  <2> QED BY <1>6, <2>1, FS_Surjection
<1>8. IsFiniteSet(A \cup B) /\ Cardinality(A \cup B) < Cardinality(VmIds)
  <2>1. IsFiniteSet(A \cup B) /\ Cardinality(A \cup B) = Cardinality(A) + Cardinality(B) - Cardinality(A \cap B)
    BY <1>2, <1>7, FS_Union
  <2>2. /\ Cardinality(A \cup B) \in Nat /\ Cardinality(A \cap B) \in Nat /\ Cardinality(B) \in Nat
        /\ Cardinality(K) \in Nat /\ Cardinality(S) \in Nat
    BY <1>2, <1>5, <1>6, <1>7, <2>1, FS_CardinalityType, FS_Intersection
  <2>3. /\ totalVms["main"] = Cardinality(idleVms["main"]) + Cardinality(Occupied("main"))
        /\ totalVms["runlua"] = Cardinality(idleVms["runlua"]) + Cardinality(Occupied("runlua"))
        /\ totalVms["main"] <= MaxVms["main"] /\ totalVms["runlua"] <= MaxVms["runlua"]
    BY <1>0 DEF VmCounted
  <2>4. MaxVms["main"] \in Nat /\ MaxVms["runlua"] \in Nat /\ Cardinality(VmIds) \in Nat
        /\ Cardinality(VmIds) >= MaxVms["main"] + MaxVms["runlua"]
    BY <1>0, VmPoolAssumption, FS_CardinalityType
  <2>5. Cardinality(Occupied("main")) \in Nat /\ Cardinality(Occupied("runlua")) \in Nat
    BY OccupiedFinite
  <2> HIDE DEF A, B, K, S, O
  <2> QED BY <1>1, <1>2, <1>3, <1>5, <1>6, <1>7, <2>1, <2>2, <2>3, <2>4, <2>5
<1>9. A \subseteq VmIds /\ B \subseteq VmIds
  BY <1>0 DEF VmTyped
<1>10. PICK v \in VmIds : v \notin A /\ v \notin B
  <2>1. A \cup B # VmIds
    <3>1. Cardinality(A \cup B) \in Nat
      BY <1>8, FS_CardinalityType
    <3> HIDE DEF A, B
    <3>2. Cardinality(A \cup B) # Cardinality(VmIds)
      BY <1>8, <3>1, VmPoolAssumption, FS_CardinalityType
    <3> QED BY <3>2, Zenon
  <2> QED BY <1>9, <2>1
<1>11. ASSUME NEW u \in VmThreads, NEW i \in {1, 2}, VmAt(u, i) \in VmIds PROVE VmAt(u, i) \in B
  <2>1. vmStack[u] \in Seq(VmFrame) /\ i \in 1..Len(vmStack[u]) /\ VmAt(u, i) = vmStack[u][i].vm /\ 0 \notin VmIds
    BY <1>0, <1>11, VmPoolAssumption DEF VmTyped, VmAt
  <2>2. vmStack[u][i] \in VmFrame
    BY <2>1
  <2>3. vmStack[u][i].pool \in {"main", "runlua"}
    BY <2>2 DEF VmFrame, VmPools
  <2>4. <<u, i>> \in Occupied(vmStack[u][i].pool)
    BY <1>11, <2>1 DEF Occupied, At
  <2>5. <<u, i>> \in O
    BY <2>3, <2>4
  <2>6. <<u, i>> # place
    BY <1>11, <2>1, TopTyped DEF Waiting
  <2>7. <<u, i>> \in S /\ vmOf[<<u, i>>] = VmAt(u, i)
    BY <2>1, <2>5, <2>6
  <2> QED BY <1>11, <2>7
<1>12. \A w \in VmIds : w \notin A /\ w \notin B =>
         \A u \in VmThreads : \A p \in VmPools : w \notin idleVms[p] \cup VmsOf(u)
  <2> SUFFICES ASSUME NEW w \in VmIds, w \notin A, w \notin B, NEW u \in VmThreads, NEW p \in VmPools
               PROVE  w \notin idleVms[p] /\ w \notin VmsOf(u)
    OBVIOUS
  <2>1. w \notin idleVms[p]
    BY DEF VmPools
  <2>2. ASSUME w \in VmsOf(u) PROVE FALSE
    <3>1. PICK i \in DOMAIN vmStack[u] : vmStack[u][i].vm = w
      BY <2>2 DEF VmsOf
    <3>2. vmStack[u] \in Seq(VmFrame) /\ Len(vmStack[u]) \in 0..2
      BY DEF VmShape, VmTyped, StackShape
    <3>3. i \in 1..Len(vmStack[u]) /\ i \in {1, 2}
      BY <3>1, <3>2
    <3>4. VmAt(u, i) = w
      BY <3>1, <3>3 DEF VmAt
    <3> QED BY <1>11, <3>3, <3>4
  <2> QED BY <2>1, <2>2
<1>13. /\ FreshVm \in VmIds
       /\ \A u \in VmThreads : \A p \in VmPools : FreshVm \notin idleVms[p] \cup VmsOf(u)
  BY <1>10, <1>12 DEF FreshVm
<1>14. ASSUME NEW u \in VmThreads, NEW i \in {1, 2}, VmAt(u, i) = FreshVm PROVE FALSE
  BY <1>0, <1>13, <1>14, VmPoolAssumption DEF VmTyped, VmAt, VmsOf
<1> QED BY <1>13, <1>14


-----------------------------------------------------------------------------
(* The shape of the stacks.                                                *)

FaultsTyped == vmFaults \in 0..(MaxVmFaults + 1)

LEMMA AsksShape ==
  ASSUME VmShape, FaultsTyped', NEW t \in VmThreads, NEW f, Asks(t, f)
  PROVE  VmShape' /\ Rest(t)
<1> DEFINE n == Len(vmStack[t])
<1>1. VmTyped /\ StackShape(t) /\ vmStack[t] \in Seq(VmFrame)
  BY DEF VmShape, VmTyped
<1>2. Pushed(t, f) /\ vmThread' = [vmThread EXCEPT ![t] = "acquire"] /\ UNCHANGED <<idleVms, totalVms, vmContext>>
  BY DEF Asks
<1>3. VmTyped' /\ vmThread'[t] = "acquire" /\ Rest(t)
  BY <1>1, <1>2 DEF VmTyped, FaultsTyped, Pushed, Rest, Pcs
<1>4. n = 0 \/ (n = 1 /\ vmThread[t] = "run" /\ vmStack[t][1].pool = "main" /\ f.pool = "runlua")
  BY <1>1, TopTyped DEF StackShape, Asks
<1>5. StackShape(t)'
  <2>1. Len(vmStack'[t]) = n + 1 /\ vmStack'[t][n + 1] = f /\ \A i \in 1..n : vmStack'[t][i] = vmStack[t][i]
    BY <1>2 DEF Pushed
  <2>2. f.vm = 0 /\ f.snapshots = <<>> /\ ~f.tainted /\ Len(f.snapshots) < MaxDepth
    BY VmPoolAssumption DEF Asks
  <2>3. CASE n = 0
    BY <1>3, <2>1, <2>2, <2>3 DEF StackShape, Waiting, Early
  <2>4. CASE n = 1 /\ vmThread[t] = "run" /\ vmStack[t][1].pool = "main" /\ f.pool = "runlua"
    BY <1>1, <1>3, <2>1, <2>2, <2>4 DEF StackShape, Waiting, Early
  <2> QED BY <1>4, <2>3, <2>4
<1> QED BY <1>3, <1>5, RestShape

\* The thread stays with its leases.
LEMMA StayShape ==
  ASSUME VmShape, FaultsTyped', NEW t \in VmThreads, NEW pc \in Pcs \ {"idle"}, vmThread[t] # "idle",
         vmStack' = vmStack, vmThread' = [vmThread EXCEPT ![t] = pc],
         pc \in Waiting <=> vmThread[t] \in Waiting, pc \in Early => vmThread[t] \in Early,
         idleVms' \in [VmPools -> SUBSET VmIds], totalVms' \in [VmPools -> Nat], vmContext' \in [VmIds -> VmSnapshot]
  PROVE  VmShape' /\ Rest(t)
BY RestShape DEF VmShape, VmTyped, FaultsTyped, Rest, StackShape

\* The innermost lease changes.
LEMMA ReplacedShape ==
  ASSUME VmShape, FaultsTyped', NEW t \in VmThreads, NEW pc \in {"leased", "run"}, vmThread[t] # "idle",
         NEW f, Replaced(t, f), f.pool = Top(t).pool, f.vm # 0, Len(f.snapshots) < MaxDepth,
         pc = "leased" => f.snapshots = <<>> /\ ~f.tainted,
         vmThread' = [vmThread EXCEPT ![t] = pc],
         idleVms' \in [VmPools -> SUBSET VmIds], totalVms' \in [VmPools -> Nat], vmContext' \in [VmIds -> VmSnapshot]
  PROVE  VmShape' /\ Rest(t)
<1> DEFINE n == Len(vmStack[t])
<1>1. VmTyped /\ StackShape(t)
  BY DEF VmShape
<1>2. VmTyped' /\ vmThread'[t] = pc /\ Rest(t)
  BY <1>1 DEF VmTyped, FaultsTyped, Rest, Replaced, Pcs
<1>3. n \in {1, 2} /\ Top(t) = vmStack[t][n]
  BY TopTyped
<1>4. Len(vmStack'[t]) = n /\ vmStack'[t][n] = f /\ \A i \in 1..n - 1 : vmStack'[t][i] = vmStack[t][i]
  BY DEF Replaced
<1>5. StackShape(t)'
  <2>1. CASE n = 1
    BY <1>2, <1>4, <2>1 DEF StackShape, Waiting, Early
  <2>2. CASE n = 2
    BY <1>1, <1>2, <1>3, <1>4, <2>2 DEF StackShape, Waiting, Early
  <2> QED BY <1>3, <2>1, <2>2
<1> QED BY <1>2, <1>5, RestShape

\* The innermost lease is gone.
LEMMA PoppedShape ==
  ASSUME VmShape, FaultsTyped', NEW t \in VmThreads, vmThread[t] # "idle",
         NEW p, Popped(t), Woke(p, t, Unwound(t)),
         idleVms' \in [VmPools -> SUBSET VmIds], totalVms' \in [VmPools -> Nat], vmContext' \in [VmIds -> VmSnapshot]
  PROVE  VmShape' /\ Rest(t)
<1> DEFINE n == Len(vmStack[t])
<1>1. VmTyped /\ StackShape(t)
  BY DEF VmShape
<1>2. VmTyped' /\ vmThread'[t] = Unwound(t)
  BY <1>1 DEF VmTyped, FaultsTyped, Popped, Woke
<1>3. Rest(t)
  BY WokeRest DEF Popped
<1>4. n \in {1, 2}
  BY TopTyped
<1>5. Len(vmStack'[t]) = n - 1 /\ \A i \in 1..n - 1 : vmStack'[t][i] = vmStack[t][i]
  BY DEF Popped
<1>6. StackShape(t)'
  <2>1. CASE n = 1
    BY <1>2, <1>5, <2>1 DEF StackShape, Unwound
  <2>2. CASE n = 2
    BY <1>1, <1>2, <1>5, <2>2 DEF StackShape, Unwound, Waiting, Early
  <2> QED BY <1>4, <2>1, <2>2
<1> QED BY <1>2, <1>3, <1>6, RestShape


-----------------------------------------------------------------------------
(* Leases that hold a VM or a slot.                                        *)

LEMMA Reduced ==
  ASSUME NEW S, IsFiniteSet(S), NEW gone \in SUBSET S
  PROVE  /\ IsFiniteSet(S \ gone) /\ Cardinality(S) \in Nat /\ Cardinality(gone) \in Nat
         /\ Cardinality(S \ gone) = Cardinality(S) - Cardinality(gone) /\ Cardinality(S \ gone) \in Nat
<1>1. S \cap gone = gone
  OBVIOUS
<1>2. IsFiniteSet(S \ gone) /\ Cardinality(S \ gone) = Cardinality(S) - Cardinality(S \cap gone) /\ IsFiniteSet(gone)
  BY FS_Difference, FS_Subset
<1>3. Cardinality(S \cap gone) = Cardinality(gone)
  BY <1>1, Zenon
<1> QED BY <1>2, <1>3, FS_CardinalityType

Held(t, i, q) ==
  /\ i \in 1..Len(vmStack[t]) /\ vmStack[t][i].pool = q
  /\ vmStack[t][i].vm # 0 \/ vmThread[t] = "build"

LEMMA OccupiedIs ==
  ASSUME VmTyped, NEW q
  PROVE  Occupied(q) = {o \in VmThreads \X {1, 2} : Held(o[1], o[2], q)}
BY DEF VmTyped, Occupied, Held, At

LEMMA OccupiedIsNext ==
  ASSUME VmTyped', NEW q
  PROVE  Occupied(q)' = {o \in VmThreads \X {1, 2} : Held(o[1], o[2], q)'}
BY DEF VmTyped, Occupied, Held, At

LEMMA HeldRest ==
  ASSUME VmShape, NEW t \in VmThreads, Rest(t), NEW u \in VmThreads \ {t}, NEW i \in {1, 2}, NEW q
  PROVE  Held(u, i, q)' <=> Held(u, i, q)
BY DEF Rest, Held

LEMMA OccupiedSame ==
  ASSUME VmShape, VmShape', NEW t \in VmThreads, Rest(t), NEW q,
         \A i \in {1, 2} : Held(t, i, q)' <=> Held(t, i, q)
  PROVE  Cardinality(Occupied(q))' = Cardinality(Occupied(q))
BY OccupiedIs, OccupiedIsNext, HeldRest DEF VmShape

LEMMA OccupiedMore ==
  ASSUME VmShape, VmShape', NEW t \in VmThreads, Rest(t), NEW q, NEW n \in {1, 2},
         ~Held(t, n, q), Held(t, n, q)',
         \A i \in {1, 2} \ {n} : Held(t, i, q)' <=> Held(t, i, q)
  PROVE  Cardinality(Occupied(q))' = Cardinality(Occupied(q)) + 1
<1>1. VmTyped /\ VmTyped'
  BY DEF VmShape
<1>2. Occupied(q) = {o \in VmThreads \X {1, 2} : Held(o[1], o[2], q)}
  BY <1>1, OccupiedIs
<1>3. Occupied(q)' = {o \in VmThreads \X {1, 2} : Held(o[1], o[2], q)'}
  BY <1>1, OccupiedIsNext
<1>4. ASSUME NEW o \in VmThreads \X {1, 2}
      PROVE  Held(o[1], o[2], q)' <=> (Held(o[1], o[2], q) \/ o = <<t, n>>)
  BY HeldRest
<1>5. <<t, n>> \in VmThreads \X {1, 2} /\ <<t, n>> \notin Occupied(q)
  BY <1>2
<1>6. Occupied(q)' = Occupied(q) \cup {<<t, n>>}
  BY <1>2, <1>3, <1>4, <1>5
<1>7. Cardinality(Occupied(q) \cup {<<t, n>>}) = Cardinality(Occupied(q)) + 1
  BY <1>5, OccupiedFinite, FS_AddElement
<1> QED BY <1>6, <1>7, Zenon

LEMMA OccupiedLess ==
  ASSUME VmShape, VmShape', NEW t \in VmThreads, Rest(t), NEW q, NEW n \in {1, 2},
         Held(t, n, q), ~Held(t, n, q)',
         \A i \in {1, 2} \ {n} : Held(t, i, q)' <=> Held(t, i, q)
  PROVE  Cardinality(Occupied(q))' = Cardinality(Occupied(q)) - 1
<1>1. VmTyped /\ VmTyped'
  BY DEF VmShape
<1>2. Occupied(q) = {o \in VmThreads \X {1, 2} : Held(o[1], o[2], q)}
  BY <1>1, OccupiedIs
<1>3. Occupied(q)' = {o \in VmThreads \X {1, 2} : Held(o[1], o[2], q)'}
  BY <1>1, OccupiedIsNext
<1>4. ASSUME NEW o \in VmThreads \X {1, 2}
      PROVE  Held(o[1], o[2], q)' <=> (Held(o[1], o[2], q) /\ o # <<t, n>>)
  BY HeldRest
<1>5. <<t, n>> \in VmThreads \X {1, 2} /\ <<t, n>> \in Occupied(q)
  BY <1>2
<1>6. Occupied(q)' = Occupied(q) \ {<<t, n>>}
  BY <1>2, <1>3, <1>4, <1>5
<1>7. Cardinality(Occupied(q) \ {<<t, n>>}) = Cardinality(Occupied(q)) - 1
  BY <1>5, OccupiedFinite, FS_RemoveElement
<1> QED BY <1>6, <1>7, Zenon


\* Which leases hold something: all but the innermost, and that one from the
\* moment its VM is being built.
LEMMA HeldIs ==
  ASSUME VmShape, NEW t \in VmThreads, NEW i \in {1, 2}, NEW q
  PROVE  Held(t, i, q) <=>
           /\ i \in 1..Len(vmStack[t]) /\ vmStack[t][i].pool = q
           /\ i < Len(vmStack[t]) \/ vmThread[t] \notin {"acquire", "sleep"}
BY DEF VmShape, StackShape, Held, Waiting

LEMMA HeldIsNext ==
  ASSUME VmShape', NEW t \in VmThreads, NEW i \in {1, 2}, NEW q
  PROVE  Held(t, i, q)' <=>
           /\ i \in 1..Len(vmStack'[t]) /\ vmStack'[t][i].pool = q
           /\ i < Len(vmStack'[t]) \/ vmThread'[t] \notin {"acquire", "sleep"}
BY DEF VmShape, StackShape, Held, Waiting

\* How a move changes the number of leases that hold a VM of each pool.
OccupiedBy(p, change) ==
  \A q \in VmPools : Cardinality(Occupied(q))' = Cardinality(Occupied(q)) + (IF q = p THEN change ELSE 0)

LEMMA StayOccupied ==
  ASSUME VmShape, VmShape', NEW t \in VmThreads, Rest(t), NEW p, vmThread[t] # "idle",
         Len(vmStack'[t]) = Len(vmStack[t]),
         \A i \in 1..Len(vmStack[t]) : vmStack'[t][i].pool = vmStack[t][i].pool,
         vmThread'[t] \in {"acquire", "sleep"} <=> vmThread[t] \in {"acquire", "sleep"}
  PROVE  OccupiedBy(p, 0)
BY HeldIs, HeldIsNext, OccupiedSame, OccupiedFinite DEF OccupiedBy

LEMMA AsksOccupied ==
  ASSUME VmShape, VmShape', NEW t \in VmThreads, Rest(t), NEW p, NEW f, Asks(t, f)
  PROVE  OccupiedBy(p, 0)
<1>0. StackShape(t) /\ Len(vmStack[t]) \in 0..2
  BY DEF VmShape, StackShape
<1>1. /\ vmThread'[t] = "acquire" /\ Len(vmStack'[t]) = Len(vmStack[t]) + 1
      /\ \A i \in 1..Len(vmStack[t]) : vmStack'[t][i] = vmStack[t][i]
      /\ vmThread[t] \in {"idle", "run"}
  BY DEF Asks, Pushed, VmShape, VmTyped
<1>2. ASSUME NEW q \in VmPools, NEW i \in {1, 2} PROVE Held(t, i, q)' <=> Held(t, i, q)
  BY <1>0, <1>1, HeldIs, HeldIsNext
<1>3. ASSUME NEW q \in VmPools PROVE Cardinality(Occupied(q))' = Cardinality(Occupied(q))
  BY <1>2, OccupiedSame
<1>4. \A q \in VmPools : Cardinality(Occupied(q)) \in Nat
  BY OccupiedFinite
<1> QED BY <1>3, <1>4 DEF OccupiedBy

LEMMA GainOccupied ==
  ASSUME VmShape, VmShape', NEW t \in VmThreads, Rest(t), NEW p, p = Top(t).pool, vmThread[t] = "acquire",
         Len(vmStack'[t]) = Len(vmStack[t]),
         \A i \in 1..Len(vmStack[t]) : vmStack'[t][i].pool = vmStack[t][i].pool,
         vmThread'[t] \in {"build", "leased"}
  PROVE  OccupiedBy(p, 1)
BY TopTyped, HeldIs, HeldIsNext, OccupiedSame, OccupiedMore, OccupiedFinite DEF Top, OccupiedBy

LEMMA LossOccupied ==
  ASSUME VmShape, VmShape', NEW t \in VmThreads, Rest(t), NEW p, p = Top(t).pool,
         vmThread[t] \in {"build", "leased", "finish"}, Popped(t), vmThread'[t] = Unwound(t)
  PROVE  OccupiedBy(p, -1)
<1>0. PICK n \in {1, 2} : n = Len(vmStack[t])
  BY TopTyped
<1>1. vmStack[t][n].pool = p
  BY <1>0 DEF Top
<1>2. /\ Len(vmStack'[t]) = n - 1 /\ \A i \in 1..n - 1 : vmStack'[t][i] = vmStack[t][i]
      /\ vmThread'[t] \in {"run", "idle"}
  BY <1>0 DEF Popped, Unwound
<1>3. ASSUME NEW q \in VmPools, NEW i \in {1, 2} PROVE Held(t, i, q)' <=> (Held(t, i, q) /\ ~(i = n /\ q = p))
  BY <1>0, <1>1, <1>2, HeldIs, HeldIsNext
<1>4. ASSUME NEW q \in VmPools, q # p PROVE Cardinality(Occupied(q))' = Cardinality(Occupied(q))
  BY <1>3, <1>4, OccupiedSame
<1>5. ASSUME p \in VmPools PROVE Cardinality(Occupied(p))' = Cardinality(Occupied(p)) - 1
  BY <1>0, <1>1, <1>3, <1>5, HeldIs, OccupiedLess
<1>6. \A q \in VmPools : Cardinality(Occupied(q)) \in Nat
  BY OccupiedFinite
<1> QED BY <1>4, <1>5, <1>6 DEF OccupiedBy


-----------------------------------------------------------------------------
(* Owners.                                                                 *)

LEMMA OwnedKept ==
  ASSUME VmOwned, VmShape', NEW t \in VmThreads, NEW n \in {1, 2}, NEW p, NEW w, Rest(t),
         \A i \in {1, 2} \ {n} : VmAt(t, i)' = VmAt(t, i),
         \A q \in VmPools : \A v \in idleVms'[q] : v \in idleVms[q] \/ (q = p /\ v = VmAt(t, n)),
         VmAt(t, n)' = w,
         w # 0 => /\ \A q \in VmPools : w \notin idleVms'[q]
                  /\ \A u \in VmThreads, i \in {1, 2} : u # t \/ i # n => VmAt(u, i) # w
  PROVE  VmOwned'
<1>1. ASSUME NEW u \in VmThreads, NEW i \in {1, 2}, u # t \/ i # n PROVE VmAt(u, i)' = VmAt(u, i)
  BY <1>1 DEF Rest, VmAt
<1>2. \A q \in VmPools : 0 \notin idleVms'[q]
  BY VmPoolAssumption DEF VmShape, VmTyped
<1>3. ASSUME NEW u \in VmThreads, NEW i \in {1, 2}, NEW q \in VmPools PROVE VmAt(u, i)' \notin idleVms'[q]
  BY <1>1, <1>2 DEF VmOwned
<1>4. ASSUME NEW u \in VmThreads, NEW s \in VmThreads, NEW i \in {1, 2}, NEW j \in {1, 2},
             VmAt(u, i)' # 0, VmAt(u, i)' = VmAt(s, j)'
      PROVE  u = s /\ i = j
  BY <1>1, <1>4 DEF VmOwned
<1>5. idleVms'["main"] \cap idleVms'["runlua"] = {}
  BY DEF VmOwned, VmPools
<1> QED BY <1>3, <1>4, <1>5 DEF VmOwned

\* Nothing changes hands.
LEMMA OwnedSame ==
  ASSUME VmOwned, VmShape', NEW t \in VmThreads, Rest(t), \A i \in {1, 2} : VmAt(t, i)' = VmAt(t, i),
         \A q \in VmPools : \A v \in idleVms'[q] : v \in idleVms[q]
  PROVE  VmOwned'
BY OwnedKept DEF VmOwned


-----------------------------------------------------------------------------
(* The books of the pools, move by move.                                   *)

VmBooks == VmShape /\ VmOwned /\ VmCounted

LEMMA BooksTyped ==
  ASSUME VmShape, NEW q \in VmPools
  PROVE  /\ totalVms[q] \in Nat /\ MaxVms[q] \in Nat /\ idleVms[q] \in SUBSET VmIds /\ IsFiniteSet(idleVms[q])
         /\ Cardinality(idleVms[q]) \in Nat /\ Cardinality(Occupied(q)) \in Nat
BY IdleFinite, OccupiedFinite, VmPoolAssumption DEF VmShape, VmTyped

\* Nothing but the stack, the step or a context moves.
LEMMA QuietBooks ==
  ASSUME VmBooks, VmShape', NEW t \in VmThreads, Rest(t), UNCHANGED <<idleVms, totalVms>>,
         \A i \in {1, 2} : VmAt(t, i)' = VmAt(t, i), NEW p, OccupiedBy(p, 0)
  PROVE  VmBooks'
BY OwnedSame, OccupiedFinite DEF VmBooks, OccupiedBy, VmCounted

LEMMA AsksBooks ==
  ASSUME VmBooks, FaultsTyped', NEW t \in VmThreads, NEW f, Asks(t, f)
  PROVE  VmBooks' /\ Rest(t)
<1>1. VmShape /\ VmShape' /\ Rest(t)
  BY AsksShape DEF VmBooks
<1>2. OccupiedBy("main", 0)
  BY <1>1, AsksOccupied
<1>3. ASSUME NEW i \in {1, 2} PROVE VmAt(t, i)' = VmAt(t, i)
  BY <1>1 DEF Asks, VmShape, StackShape, Pushed, VmAt
<1> QED BY <1>1, <1>2, <1>3, QuietBooks DEF Asks

LEMMA CountedStep ==
  ASSUME VmShape, VmShape', VmCounted, NEW p \in VmPools, NEW a \in Int, NEW b \in Int, NEW c \in Int, a = b + c,
         totalVms'[p] = totalVms[p] + a, Cardinality(idleVms'[p]) = Cardinality(idleVms[p]) + b, OccupiedBy(p, c),
         totalVms'[p] <= MaxVms[p],
         \A q \in VmPools \ {p} : totalVms'[q] = totalVms[q] /\ idleVms'[q] = idleVms[q]
  PROVE  VmCounted'
BY BooksTyped DEF VmCounted, OccupiedBy

LEMMA ReapsBooks ==
  ASSUME VmBooks, FaultsTyped', NEW t \in VmThreads, NEW gone, Reaps(t, gone)
  PROVE  VmBooks' /\ Rest(t)
<1>0. VmShape /\ VmTyped /\ vmThread[t] = "acquire"
  BY DEF VmBooks, VmShape, Reaps
<1>1. PICK p \in VmPools : p = Top(t).pool
  BY <1>0, TopTyped
<1>2. /\ gone \in SUBSET idleVms[p] /\ (gone # {} => totalVms[p] >= MinVms + Cardinality(gone))
      /\ idleVms' = [idleVms EXCEPT ![p] = @ \ gone]
      /\ totalVms' = [totalVms EXCEPT ![p] = @ - Cardinality(gone)]
      /\ UNCHANGED <<vmContext, vmThread, vmStack>>
  BY <1>1 DEF Reaps, Reapable
<1>3. /\ totalVms[p] \in Nat /\ Cardinality(gone) \in Nat /\ Cardinality(idleVms[p]) \in Nat
      /\ Cardinality(idleVms[p] \ gone) = Cardinality(idleVms[p]) - Cardinality(gone)
  BY <1>0, <1>2, BooksTyped, Reduced
<1>4. totalVms[p] - Cardinality(gone) \in Nat
  BY <1>2, <1>3, FS_EmptySet, VmPoolAssumption
<1>5. idleVms' \in [VmPools -> SUBSET VmIds] /\ totalVms' \in [VmPools -> Nat] /\ vmContext' \in [VmIds -> VmSnapshot]
  BY <1>0, <1>2, <1>4 DEF VmTyped
<1>6. VmShape' /\ Rest(t)
  BY <1>0, <1>2, <1>5, StayShape DEF VmTyped, Pcs
<1>7. VmOwned'
  BY <1>0, <1>2, <1>6, OwnedSame DEF VmAt, VmTyped, VmBooks
<1>8. VmCounted'
  <2>1. OccupiedBy(p, 0)
    BY <1>0, <1>2, <1>6, StayOccupied
  <2>2. \A q \in VmPools \ {p} : totalVms'[q] = totalVms[q] /\ idleVms'[q] = idleVms[q]
    BY <1>0, <1>2 DEF VmTyped
  <2>3. totalVms'[p] = totalVms[p] - Cardinality(gone) /\ idleVms'[p] = idleVms[p] \ gone
    BY <1>0, <1>2 DEF VmTyped
  <2>4. Cardinality(idleVms'[p]) = Cardinality(idleVms[p]) - Cardinality(gone)
    BY <1>3, <2>3, Zenon
  <2>5. PICK a \in Int : a = 0 - Cardinality(gone)
    BY <1>3
  <2>6. totalVms[p] <= MaxVms[p] /\ MaxVms[p] \in Nat
    BY VmPoolAssumption DEF VmBooks, VmCounted
  <2>7. /\ totalVms'[p] = totalVms[p] + a /\ Cardinality(idleVms'[p]) = Cardinality(idleVms[p]) + a
        /\ totalVms'[p] <= MaxVms[p] /\ a = a + 0
    BY <1>3, <2>3, <2>4, <2>5, <2>6
  <2> QED BY <1>0, <1>6, <2>1, <2>2, <2>7, CountedStep DEF VmBooks
<1> QED BY <1>6, <1>7, <1>8 DEF VmBooks


LEMMA VmAtReplaced ==
  ASSUME NEW t \in VmThreads, NEW n \in {1, 2}, n = Len(vmStack[t]), NEW f, Replaced(t, f)
  PROVE  VmAt(t, n)' = f.vm /\ \A i \in {1, 2} \ {n} : VmAt(t, i)' = VmAt(t, i)
<1>1. Len(vmStack'[t]) = n /\ vmStack'[t][n] = f /\ \A i \in 1..n - 1 : vmStack'[t][i] = vmStack[t][i]
  BY DEF Replaced
<1>2. VmAt(t, n)' = f.vm
  <2>1. n \in 1..n
    OBVIOUS
  <2>2. n \in 1..Len(vmStack'[t])
    BY <1>1, <2>1
  <2>3. vmStack'[t][n].vm = f.vm
    BY <1>1, Zenon
  <2> QED BY <2>2, <2>3 DEF VmAt
<1>3. ASSUME NEW i \in {1, 2} \ {n} PROVE VmAt(t, i)' = VmAt(t, i)
  BY <1>1 DEF VmAt
<1> QED BY <1>2, <1>3

LEMMA VmAtPopped ==
  ASSUME NEW t \in VmThreads, NEW n \in {1, 2}, n = Len(vmStack[t]), Popped(t)
  PROVE  VmAt(t, n)' = 0 /\ \A i \in {1, 2} \ {n} : VmAt(t, i)' = VmAt(t, i)
BY DEF Popped, VmAt

LEMMA TakesBooks ==
  ASSUME VmBooks, FaultsTyped', NEW t \in VmThreads, NEW v, Takes(t, v)
  PROVE  VmBooks' /\ Rest(t)
<1>0. VmShape /\ VmTyped /\ vmThread[t] = "acquire"
  BY DEF VmBooks, VmShape, Takes
<1>1. PICK p \in VmPools, n \in {1, 2} : p = Top(t).pool /\ n = Len(vmStack[t])
  BY <1>0, TopTyped
<1>2. PICK f : f = [Top(t) EXCEPT !.vm = v]
  OBVIOUS
<1>3. /\ v \in idleVms[p]
      /\ idleVms' = [idleVms EXCEPT ![p] = @ \ {v}]
      /\ Replaced(t, f)
      /\ vmThread' = [vmThread EXCEPT ![t] = "leased"]
      /\ UNCHANGED <<totalVms, vmContext>>
  BY <1>1, <1>2 DEF Takes
<1>4. /\ Top(t) \in VmFrame /\ Top(t).snapshots = <<>> /\ ~Top(t).tainted /\ Top(t).vm = 0 /\ Len(Top(t).snapshots) < MaxDepth
      /\ VmAt(t, n) = 0 /\ Top(t) = vmStack[t][n]
  BY <1>0, <1>1, TopTyped DEF Early, Waiting
<1>5. v \in VmIds /\ v # 0
  BY <1>0, <1>3, VmPoolAssumption DEF VmTyped
<1>6. f.vm = v /\ f.pool = Top(t).pool /\ f.snapshots = Top(t).snapshots /\ f.tainted = Top(t).tainted
  BY <1>2, <1>4 DEF VmFrame
<1>7. idleVms' \in [VmPools -> SUBSET VmIds] /\ totalVms' \in [VmPools -> Nat] /\ vmContext' \in [VmIds -> VmSnapshot]
  BY <1>0, <1>3 DEF VmTyped
<1>8. VmShape' /\ Rest(t)
  BY <1>0, <1>3, <1>4, <1>5, <1>6, <1>7, ReplacedShape
<1>9. /\ Len(vmStack'[t]) = n /\ vmStack'[t][n] = f /\ \A i \in 1..n - 1 : vmStack'[t][i] = vmStack[t][i]
      /\ vmThread'[t] = "leased"
  BY <1>0, <1>1, <1>3 DEF Replaced, VmTyped
<1>10. VmOwned'
  <2>1. VmAt(t, n)' = v /\ \A i \in {1, 2} \ {n} : VmAt(t, i)' = VmAt(t, i)
    BY <1>1, <1>3, <1>6, VmAtReplaced
  <2>2. ASSUME NEW q \in VmPools PROVE v \notin idleVms'[q] /\ \A x \in idleVms'[q] : x \in idleVms[q]
    BY <1>0, <1>3 DEF VmTyped, VmBooks, VmOwned, VmPools
  <2>3. \A u \in VmThreads, i \in {1, 2} : VmAt(u, i) # v
    BY <1>3 DEF VmBooks, VmOwned
  <2> QED BY <1>8, <2>1, <2>2, <2>3, OwnedKept DEF VmBooks
<1>11. VmCounted'
  <2>1. OccupiedBy(p, 1)
    BY <1>0, <1>1, <1>4, <1>6, <1>8, <1>9, GainOccupied
  <2>2. /\ totalVms'[p] = totalVms[p] /\ idleVms'[p] = idleVms[p] \ {v}
        /\ \A q \in VmPools \ {p} : totalVms'[q] = totalVms[q] /\ idleVms'[q] = idleVms[q]
    BY <1>0, <1>3 DEF VmTyped
  <2>3. /\ IsFiniteSet(idleVms[p]) /\ Cardinality(idleVms[p]) \in Nat /\ totalVms[p] \in Nat
    BY <1>0, BooksTyped
  <2>4. Cardinality(idleVms[p] \ {v}) = Cardinality(idleVms[p]) - 1
    BY <1>3, <2>3, FS_RemoveElement
  <2>5. Cardinality(idleVms'[p]) = Cardinality(idleVms[p]) - 1
    BY <2>2, <2>4, Zenon
  <2>6. totalVms[p] <= MaxVms[p]
    BY DEF VmBooks, VmCounted
  <2>7. /\ totalVms'[p] = totalVms[p] + 0 /\ Cardinality(idleVms'[p]) = Cardinality(idleVms[p]) + (-1) /\ 0 = (-1) + 1
        /\ totalVms'[p] <= MaxVms[p]
    BY <2>2, <2>3, <2>5, <2>6
  <2>8. 0 \in Int /\ -1 \in Int /\ 1 \in Int
    OBVIOUS
  <2> QED BY <1>0, <1>8, <2>1, <2>2, <2>7, <2>8, CountedStep DEF VmBooks
<1> QED BY <1>8, <1>10, <1>11 DEF VmBooks

LEMMA StartsBooks ==
  ASSUME VmBooks, FaultsTyped', NEW t \in VmThreads, Starts(t)
  PROVE  VmBooks' /\ Rest(t)
<1>0. VmShape /\ VmTyped /\ vmThread[t] = "acquire"
  BY DEF VmBooks, VmShape, Starts
<1>1. PICK p \in VmPools : p = Top(t).pool
  BY <1>0, TopTyped
<1>2. /\ totalVms[p] < MaxVms[p]
      /\ totalVms' = [totalVms EXCEPT ![p] = @ + 1]
      /\ vmThread' = [vmThread EXCEPT ![t] = "build"]
      /\ UNCHANGED <<idleVms, vmContext, vmStack>>
  BY <1>1 DEF Starts
<1>3. idleVms' \in [VmPools -> SUBSET VmIds] /\ totalVms' \in [VmPools -> Nat] /\ vmContext' \in [VmIds -> VmSnapshot]
  BY <1>0, <1>2 DEF VmTyped
<1>4. VmShape' /\ Rest(t)
  BY <1>0, <1>2, <1>3, StayShape DEF Pcs, Waiting, Early
<1>5. VmOwned'
  BY <1>2, <1>4, OwnedSame DEF VmAt, VmBooks
<1>6. VmCounted'
  <2>1. vmThread'[t] = "build" /\ vmStack' = vmStack
    BY <1>0, <1>2 DEF VmTyped
  <2>2. OccupiedBy(p, 1)
    BY <1>0, <1>1, <1>4, <2>1, GainOccupied
  <2>3. /\ totalVms'[p] = totalVms[p] + 1 /\ idleVms' = idleVms
        /\ \A q \in VmPools \ {p} : totalVms'[q] = totalVms[q] /\ idleVms'[q] = idleVms[q]
    BY <1>0, <1>2 DEF VmTyped
  <2>4. Cardinality(idleVms'[p]) = Cardinality(idleVms[p])
    BY <2>3, Zenon
  <2>5. Cardinality(idleVms[p]) \in Nat /\ totalVms[p] \in Nat /\ MaxVms[p] \in Nat
    BY <1>0, BooksTyped
  <2>6. /\ Cardinality(idleVms'[p]) = Cardinality(idleVms[p]) + 0 /\ totalVms'[p] <= MaxVms[p] /\ 1 = 0 + 1
    BY <1>2, <2>3, <2>4, <2>5
  <2>7. 0 \in Int /\ 1 \in Int
    OBVIOUS
  <2> QED BY <1>0, <1>4, <2>2, <2>3, <2>6, <2>7, CountedStep DEF VmBooks
<1> QED BY <1>4, <1>5, <1>6 DEF VmBooks

\* The moves that stay with a lease and touch nothing of the pools.
LEMMA StayBooks ==
  ASSUME VmBooks, FaultsTyped', NEW t \in VmThreads, NEW pc \in Pcs \ {"idle", "build"}, vmThread[t] \notin {"idle", "build"},
         vmStack' = vmStack, vmThread' = [vmThread EXCEPT ![t] = pc],
         pc \in Waiting <=> vmThread[t] \in Waiting, pc \in Early => vmThread[t] \in Early,
         UNCHANGED <<idleVms, totalVms>>, vmContext' \in [VmIds -> VmSnapshot]
  PROVE  VmBooks' /\ Rest(t)
BY StayShape, StayOccupied, QuietBooks DEF VmBooks, VmShape, VmTyped, Waiting, VmAt


LEMMA StayMoves ==
  ASSUME VmBooks, FaultsTyped', NEW t \in VmThreads,
         \/ Sleeps(t) \/ SpuriousWake(t) \/ Prepares(t) \/ HandlerEnds(t)
         \/ \E ctx, pc : Populates(t, ctx, pc)
  PROVE  VmBooks' /\ Rest(t)
<1>0. VmTyped /\ vmContext \in [VmIds -> VmSnapshot] /\ Uniform(0) \in VmSnapshot
  BY VmPoolAssumption, SnapshotsTyped DEF VmBooks, VmShape, VmTyped
<1>1. CASE Sleeps(t)
  BY <1>0, <1>1, StayBooks DEF Sleeps, Pcs, Waiting, Early
<1>2. CASE SpuriousWake(t)
  BY <1>0, <1>2, StayBooks DEF SpuriousWake, At, Pcs, Waiting, Early
<1>3. CASE Prepares(t)
  BY <1>0, <1>3, StayBooks DEF Prepares, Pcs, Waiting, Early
<1>4. CASE HandlerEnds(t)
  BY <1>0, <1>4, StayBooks DEF HandlerEnds, At, Pcs, Waiting, Early
<1>5. ASSUME NEW ctx, NEW pc, Populates(t, ctx, pc) PROVE VmBooks' /\ Rest(t)
  BY <1>0, <1>5, StayBooks DEF Populates, Pcs, Waiting, Early
<1> QED BY <1>1, <1>2, <1>3, <1>4, <1>5


LEMMA NestsBooks ==
  ASSUME VmBooks, FaultsTyped', NEW t \in VmThreads, NEW f, NEW ctx, Nests(t, f, ctx)
  PROVE  VmBooks' /\ Rest(t)
<1>0. VmShape /\ VmTyped /\ vmThread[t] = "run"
  BY DEF VmBooks, VmShape, Nests
<1>1. PICK n \in {1, 2} : n = Len(vmStack[t])
  BY <1>0, TopTyped
<1>2. /\ Replaced(t, f) /\ f.vm = Top(t).vm /\ f.pool = Top(t).pool /\ Len(f.snapshots) < MaxDepth
      /\ vmThread' = vmThread /\ UNCHANGED <<idleVms, totalVms>> /\ vmContext' \in [VmIds -> VmSnapshot]
  BY <1>0 DEF Nests, VmTyped
<1>3. Top(t).vm \in VmIds /\ Top(t) = vmStack[t][n] /\ VmAt(t, n) = Top(t).vm /\ 0 \notin VmIds
  BY <1>0, <1>1, TopTyped, VmPoolAssumption DEF Waiting
<1>4. VmShape' /\ Rest(t)
  BY <1>0, <1>2, <1>3, ReplacedShape DEF VmTyped
<1>5. \A i \in {1, 2} : VmAt(t, i)' = VmAt(t, i)
  BY <1>1, <1>2, <1>3, VmAtReplaced
<1>6. OccupiedBy("main", 0)
  BY <1>0, <1>1, <1>2, <1>3, <1>4, StayOccupied DEF Replaced
<1> QED BY <1>2, <1>4, <1>5, <1>6, QuietBooks

LEMMA BuildsBooks ==
  ASSUME VmBooks, FaultsTyped', NEW t \in VmThreads, Builds(t)
  PROVE  VmBooks' /\ Rest(t)
<1>0. VmShape /\ VmTyped /\ VmCounted /\ VmOwned /\ vmThread[t] = "build"
  BY DEF VmBooks, VmShape, Builds
<1>1. PICK n \in {1, 2}, v \in VmIds : n = Len(vmStack[t]) /\ v = FreshVm
  BY <1>0, TopTyped, FreshExists
<1>2. PICK f : f = [Top(t) EXCEPT !.vm = v]
  OBVIOUS
<1>3. /\ Top(t) \in VmFrame /\ Top(t).snapshots = <<>> /\ ~Top(t).tainted /\ Len(Top(t).snapshots) < MaxDepth
      /\ VmAt(t, n) = 0 /\ Top(t) = vmStack[t][n] /\ Len(vmStack[t]) > 0
  BY <1>0, <1>1, TopTyped DEF Early, Waiting
<1>4. f.vm = v /\ f.pool = Top(t).pool /\ f.snapshots = Top(t).snapshots /\ f.tainted = Top(t).tainted /\ f \in VmFrame
  BY <1>2, <1>3 DEF VmFrame
<1>5. Replaced(t, f)
  BY <1>0, <1>1, <1>2, <1>3, <1>4, ReplaceStack DEF Builds
<1>6. /\ vmThread' = [vmThread EXCEPT ![t] = "leased"] /\ UNCHANGED <<idleVms, totalVms>>
      /\ vmContext' \in [VmIds -> VmSnapshot]
  <2>1. Uniform(0) \in VmSnapshot
    BY VmPoolAssumption, SnapshotsTyped
  <2> QED BY <1>0, <1>1, <2>1 DEF Builds, VmTyped
<1>7. v # 0 /\ (\A q \in VmPools : v \notin idleVms[q]) /\ \A u \in VmThreads, i \in {1, 2} : VmAt(u, i) # v
  BY <1>0, <1>1, FreshExists, VmPoolAssumption
<1>8. VmShape' /\ Rest(t)
  BY <1>0, <1>3, <1>4, <1>5, <1>6, <1>7, ReplacedShape DEF VmTyped
<1>9. VmOwned'
  BY <1>0, <1>1, <1>4, <1>5, <1>6, <1>7, <1>8, VmAtReplaced, OwnedKept
<1>10. VmCounted'
  <2>1. /\ Len(vmStack'[t]) = n /\ vmStack'[t][n] = f /\ \A i \in 1..n - 1 : vmStack'[t][i] = vmStack[t][i]
        /\ vmThread'[t] = "leased"
    BY <1>0, <1>1, <1>5, <1>6 DEF Replaced, VmTyped
  <2>2. \A i \in 1..n : vmStack'[t][i].pool = vmStack[t][i].pool
    BY <1>1, <1>3, <1>4, <2>1
  <2>3. OccupiedBy("main", 0)
    BY <1>0, <1>1, <1>8, <2>1, <2>2, StayOccupied
  <2>4. ASSUME NEW q \in VmPools PROVE Cardinality(Occupied(q))' = Cardinality(Occupied(q))
    BY <2>3, OccupiedFinite DEF OccupiedBy
  <2>5. ASSUME NEW q \in VmPools PROVE Cardinality(idleVms[q])' = Cardinality(idleVms[q])
    BY <1>6, Zenon
  <2> QED BY <1>0, <1>6, <2>4, <2>5 DEF VmCounted
<1> QED BY <1>8, <1>9, <1>10 DEF VmBooks

LEMMA ForgoesBooks ==
  ASSUME VmBooks, FaultsTyped', NEW t \in VmThreads, Forgoes(t)
  PROVE  VmBooks' /\ Rest(t)
<1>0. VmShape /\ VmTyped /\ VmCounted /\ VmOwned /\ vmThread[t] \in {"build", "leased", "finish"}
  BY DEF VmBooks, VmShape, Forgoes
<1>1. PICK n \in {1, 2}, p \in VmPools : n = Len(vmStack[t]) /\ p = Top(t).pool
  BY <1>0, TopTyped
<1>2. /\ totalVms' = [totalVms EXCEPT ![p] = @ - 1]
      /\ Woke(p, t, Unwound(t)) /\ Popped(t)
      /\ UNCHANGED idleVms
      /\ vmContext' \in [VmIds -> VmSnapshot]
  <2>1. Uniform(0) \in VmSnapshot
    BY VmPoolAssumption, SnapshotsTyped
  <2> QED BY <1>0, <1>1, <2>1 DEF Forgoes, VmTyped
<1>3. totalVms[p] \in Nat /\ totalVms[p] - 1 \in Nat /\ Cardinality(idleVms[p]) \in Nat /\ MaxVms[p] \in Nat /\ totalVms[p] <= MaxVms[p]
  <2>1. <<t, n>> \in Occupied(p)
    BY <1>0, <1>1, TopOccupied
  <2>2. Cardinality(Occupied(p)) # 0
    BY <2>1, OccupiedFinite, FS_EmptySet
  <2> QED BY <1>0, <2>2, BooksTyped DEF VmCounted
<1>4. VmShape' /\ Rest(t)
  BY <1>0, <1>2, <1>3, PoppedShape DEF VmTyped
<1>5. VmOwned'
  BY <1>0, <1>1, <1>2, <1>4, VmAtPopped, OwnedKept
<1>6. VmCounted'
  <2>1. OccupiedBy(p, -1)
    BY <1>0, <1>1, <1>2, <1>4, LossOccupied DEF Woke
  <2>2. /\ totalVms'[p] = totalVms[p] - 1
        /\ \A q \in VmPools \ {p} : totalVms'[q] = totalVms[q] /\ idleVms'[q] = idleVms[q]
    BY <1>0, <1>2 DEF VmTyped
  <2>3. Cardinality(idleVms'[p]) = Cardinality(idleVms[p])
    BY <1>2, Zenon
  <2>4. /\ totalVms'[p] = totalVms[p] + (-1) /\ Cardinality(idleVms'[p]) = Cardinality(idleVms[p]) + 0
        /\ totalVms'[p] <= MaxVms[p] /\ -1 = 0 + (-1) /\ 0 \in Int /\ -1 \in Int
    BY <1>3, <2>2, <2>3
  <2> QED BY <1>0, <1>4, <2>1, <2>2, <2>4, CountedStep
<1> QED BY <1>4, <1>5, <1>6 DEF VmBooks

LEMMA ReleasesBooks ==
  ASSUME VmBooks, FaultsTyped', NEW t \in VmThreads, NEW gone, Releases(t, gone)
  PROVE  VmBooks' /\ Rest(t)
<1>0. VmShape /\ VmTyped /\ VmCounted /\ VmOwned /\ vmThread[t] = "finish"
  BY DEF VmBooks, VmShape, Releases
<1>1. PICK n \in {1, 2}, p \in VmPools, v \in VmIds : n = Len(vmStack[t]) /\ p = Top(t).pool /\ v = Top(t).vm
  BY <1>0, TopTyped DEF Waiting
<1>2. /\ gone \in SUBSET (idleVms[p] \cup {v}) /\ (gone # {} => totalVms[p] >= MinVms + Cardinality(gone))
      /\ idleVms' = [idleVms EXCEPT ![p] = (idleVms[p] \cup {v}) \ gone]
      /\ totalVms' = [totalVms EXCEPT ![p] = @ - Cardinality(gone)]
      /\ Woke(p, t, Unwound(t)) /\ Popped(t)
      /\ vmContext' \in [VmIds -> VmSnapshot]
  BY <1>0, <1>1, VmPoolAssumption, SnapshotsTyped DEF Releases, Reapable, VmTyped
<1>3. VmAt(t, n) = v
  BY <1>0, <1>1, TopTyped
<1>4. /\ totalVms[p] \in Nat /\ Cardinality(gone) \in Nat /\ Cardinality(idleVms[p]) \in Nat
      /\ Cardinality((idleVms[p] \cup {v}) \ gone) = Cardinality(idleVms[p]) + 1 - Cardinality(gone)
      /\ MaxVms[p] \in Nat /\ totalVms[p] <= MaxVms[p]
  <2>1. v \notin idleVms[p]
    BY <1>0, <1>3 DEF VmOwned
  <2>2. IsFiniteSet(idleVms[p] \cup {v}) /\ Cardinality(idleVms[p] \cup {v}) = Cardinality(idleVms[p]) + 1
    BY <1>0, <2>1, BooksTyped, FS_AddElement
  <2>3. /\ Cardinality((idleVms[p] \cup {v}) \ gone) = Cardinality(idleVms[p] \cup {v}) - Cardinality(gone)
        /\ Cardinality(gone) \in Nat
    BY <1>2, <2>2, Reduced
  <2> QED BY <1>0, <2>2, <2>3, BooksTyped DEF VmCounted
<1>5. totalVms[p] - Cardinality(gone) \in Nat
  BY <1>2, <1>4, FS_EmptySet, VmPoolAssumption
<1>6. VmShape' /\ Rest(t)
  BY <1>0, <1>2, <1>5, PoppedShape DEF VmTyped
<1>7. VmOwned'
  BY <1>0, <1>1, <1>2, <1>3, <1>6, VmAtPopped, OwnedKept DEF VmTyped
<1>8. VmCounted'
  <2>1. OccupiedBy(p, -1)
    BY <1>0, <1>1, <1>2, <1>6, LossOccupied DEF Woke
  <2>2. /\ totalVms'[p] = totalVms[p] - Cardinality(gone) /\ idleVms'[p] = (idleVms[p] \cup {v}) \ gone
        /\ \A q \in VmPools \ {p} : totalVms'[q] = totalVms[q] /\ idleVms'[q] = idleVms[q]
    BY <1>0, <1>2 DEF VmTyped
  <2>3. Cardinality(idleVms'[p]) = Cardinality(idleVms[p]) + 1 - Cardinality(gone)
    BY <1>4, <2>2, Zenon
  <2>4. PICK a \in Int : a = 0 - Cardinality(gone)
    BY <1>4
  <2>5. /\ totalVms'[p] = totalVms[p] + a /\ Cardinality(idleVms'[p]) = Cardinality(idleVms[p]) + (a + 1)
        /\ totalVms'[p] <= MaxVms[p] /\ a = (a + 1) + (-1) /\ a + 1 \in Int /\ -1 \in Int
    BY <1>4, <2>2, <2>3, <2>4
  <2> QED BY <1>0, <1>6, <2>1, <2>2, <2>5, CountedStep
<1> QED BY <1>6, <1>7, <1>8 DEF VmBooks

LEMMA MovesBooks ==
  ASSUME VmBooks, FaultsTyped', NEW t \in VmThreads, VmMoves(t)
  PROVE  VmBooks' /\ Rest(t)
BY AsksBooks, ReapsBooks, TakesBooks, StartsBooks, StayMoves, BuildsBooks, ForgoesBooks, ReleasesBooks, NestsBooks DEF VmMoves


-----------------------------------------------------------------------------
(* No lost wake-up.                                                        *)

AwakeAt(q) ==
  Sleepers(q) # {} =>
    Cardinality(idleVms[q]) + (MaxVms[q] - totalVms[q]) <= Cardinality(Acquirers(q))

Others(t) ==
  \A u \in VmThreads \ {t} : vmStack'[u] = vmStack[u] /\ vmThread'[u] = vmThread[u]

LEMMA WaitersFinite ==
  ASSUME NEW q
  PROVE  /\ IsFiniteSet(Acquirers(q)) /\ Cardinality(Acquirers(q)) \in Nat
         /\ IsFiniteSet(Acquirers(q)') /\ Cardinality(Acquirers(q)') \in Nat
BY FS_Subset, VmPoolAssumption, FS_CardinalityType DEF Acquirers

LEMMA BooksTypedNext ==
  ASSUME VmShape', NEW q \in VmPools
  PROVE  totalVms'[q] \in Nat /\ IsFiniteSet(idleVms'[q]) /\ Cardinality(idleVms'[q]) \in Nat
BY FS_Subset, VmPoolAssumption, FS_CardinalityType DEF VmShape, VmTyped

\* What is spare changes by "change" and at least as many threads come for it.
LEMMA AwakeStep ==
  ASSUME VmShape, VmShape', NEW q \in VmPools, AwakeAt(q), NEW a \in Int, NEW b \in Int, a <= b,
         Sleepers(q)' # {} => Sleepers(q) # {},
         Cardinality(idleVms'[q]) - totalVms'[q] = Cardinality(idleVms[q]) - totalVms[q] + a,
         Sleepers(q)' # {} => Cardinality(Acquirers(q)') >= Cardinality(Acquirers(q)) + b
  PROVE  AwakeAt(q)'
BY BooksTyped, BooksTypedNext, WaitersFinite DEF AwakeAt

LEMMA AwakeQuiet ==
  ASSUME VmShape, VmShape', NEW q \in VmPools, AwakeAt(q),
         Sleepers(q)' \subseteq Sleepers(q), Acquirers(q) \subseteq Acquirers(q)',
         Cardinality(idleVms'[q]) - totalVms'[q] = Cardinality(idleVms[q]) - totalVms[q]
  PROVE  AwakeAt(q)'
BY WaitersFinite, FS_Subset, BooksTyped, AwakeStep

\* A move of t alone.
LEMMA OthersWait ==
  ASSUME NEW t \in VmThreads, Others(t), NEW q
  PROVE  /\ \A u \in VmThreads \ {t} : u \in Sleepers(q)' <=> u \in Sleepers(q)
         /\ \A u \in VmThreads \ {t} : u \in Acquirers(q)' <=> u \in Acquirers(q)
         /\ t \in Sleepers(q) <=> vmThread[t] = "sleep" /\ Top(t).pool = q
         /\ t \in Sleepers(q)' <=> vmThread'[t] = "sleep" /\ Top(t)'.pool = q
         /\ t \in Acquirers(q) <=> vmThread[t] = "acquire" /\ Top(t).pool = q
         /\ t \in Acquirers(q)' <=> vmThread'[t] = "acquire" /\ Top(t)'.pool = q
         /\ Sleepers(q) \subseteq VmThreads /\ Sleepers(q)' \subseteq VmThreads
         /\ Acquirers(q) \subseteq VmThreads /\ Acquirers(q)' \subseteq VmThreads
BY DEF Others, Sleepers, Acquirers, At, Top

\* A waiter is served: it takes one of what is spare.
LEMMA AwakeTaken ==
  ASSUME VmShape, VmShape', NEW t \in VmThreads, NEW q \in VmPools, AwakeAt(q), Others(t),
         vmThread[t] = "acquire", Top(t).pool = q, vmThread'[t] \notin {"acquire", "sleep"},
         Cardinality(idleVms'[q]) - totalVms'[q] = Cardinality(idleVms[q]) - totalVms[q] - 1
  PROVE  AwakeAt(q)'
<1>1. Acquirers(q)' = Acquirers(q) \ {t} /\ t \in Acquirers(q) /\ Sleepers(q)' \subseteq Sleepers(q)
  BY OthersWait
<1>2. Cardinality(Acquirers(q) \ {t}) = Cardinality(Acquirers(q)) - 1
  BY <1>1, WaitersFinite, FS_RemoveElement
<1>3. Cardinality(Acquirers(q)') = Cardinality(Acquirers(q)) - 1
  BY <1>1, <1>2, Zenon
<1>4. totalVms[q] \in Nat /\ Cardinality(idleVms[q]) \in Nat /\ Cardinality(Acquirers(q)) \in Nat
  BY BooksTyped, WaitersFinite
<1>5. /\ Cardinality(idleVms'[q]) - totalVms'[q] = Cardinality(idleVms[q]) - totalVms[q] + (-1)
      /\ Cardinality(Acquirers(q)') >= Cardinality(Acquirers(q)) + (-1) /\ -1 \in Int /\ -1 <= -1
  BY <1>3, <1>4
<1> QED BY <1>1, <1>5, AwakeStep

\* Something becomes spare in pool p and one sleeper is told.
LEMMA AwakeWoken ==
  ASSUME VmShape, VmShape', NEW t \in VmThreads, NEW p \in VmPools, VmAwake,
         vmThread[t] \notin {"acquire", "sleep"}, NEW pc \in {"run", "idle"}, Woke(p, t, pc),
         \A u \in VmThreads \ {t} : vmStack'[u] = vmStack[u],
         Cardinality(idleVms'[p]) - totalVms'[p] = Cardinality(idleVms[p]) - totalVms[p] + 1,
         \A q \in VmPools \ {p} : totalVms'[q] = totalVms[q] /\ idleVms'[q] = idleVms[q]
  PROVE  VmAwake'
<1>0. \A q \in VmPools : AwakeAt(q)
  BY DEF VmAwake, AwakeAt
<1>1. ASSUME NEW q \in VmPools \ {p} PROVE Cardinality(idleVms'[q]) - totalVms'[q] = Cardinality(idleVms[q]) - totalVms[q]
  BY Zenon
<1>2. CASE Sleepers(p) = {} /\ \A u \in VmThreads \ {t} : vmThread'[u] = vmThread[u]
  BY <1>0, <1>1, <1>2, OthersWait, AwakeQuiet DEF Others, Woke, AwakeAt, VmAwake
<1>3. ASSUME NEW s \in Sleepers(p) \ {t}, vmThread'[s] = "acquire",
             \A u \in VmThreads \ {t, s} : vmThread'[u] = vmThread[u]
      PROVE  VmAwake'
  <2>1. s \in VmThreads /\ vmThread[s] = "sleep" /\ Top(s).pool = p /\ Top(s)' = Top(s) /\ vmThread'[t] = pc
    BY <1>3 DEF Sleepers, At, Top, Woke
  <2>2. ASSUME NEW q PROVE Sleepers(q)' = Sleepers(q) \ {s} /\ Acquirers(q)' = Acquirers(q) \cup (IF q = p THEN {s} ELSE {})
    BY <1>3, <2>1 DEF Sleepers, Acquirers, At, Top
  <2>3. AwakeAt(p)'
    <3>1. s \notin Acquirers(p) /\ Acquirers(p)' = Acquirers(p) \cup {s}
      BY <2>1, <2>2 DEF Acquirers, At
    <3>2. Cardinality(Acquirers(p) \cup {s}) = Cardinality(Acquirers(p)) + 1
      BY <3>1, WaitersFinite, FS_AddElement
    <3>3. Cardinality(Acquirers(p)') = Cardinality(Acquirers(p)) + 1
      BY <3>1, <3>2, Zenon
    <3>4. Cardinality(Acquirers(p)') >= Cardinality(Acquirers(p)) + 1 /\ 1 \in Int /\ 1 <= 1
      BY <3>3, WaitersFinite
    <3> QED BY <1>0, <1>3, <3>4, AwakeStep
  <2>4. ASSUME NEW q \in VmPools \ {p} PROVE AwakeAt(q)'
    BY <1>0, <1>1, <2>2, AwakeQuiet
  <2>5. \A q \in VmPools : AwakeAt(q)'
    BY <2>3, <2>4
  <2> QED BY <2>5 DEF VmAwake, AwakeAt
<1> QED BY <1>2, <1>3 DEF Woke


\* Nobody goes to sleep or gives up waiting, and nothing becomes spare.
LEMMA AwakeCalm ==
  ASSUME VmShape, VmShape', VmAwake, NEW t \in VmThreads, Others(t),
         vmThread'[t] # "sleep", vmThread[t] = "acquire" => vmThread'[t] = "acquire" /\ Top(t)' = Top(t),
         \A q \in VmPools : Cardinality(idleVms'[q]) - totalVms'[q] = Cardinality(idleVms[q]) - totalVms[q]
  PROVE  VmAwake'
BY OthersWait, AwakeQuiet DEF VmAwake, AwakeAt

LEMMA OneMoved ==
  ASSUME VmTyped, NEW t \in VmThreads, NEW pc, vmThread' = [vmThread EXCEPT ![t] = pc],
         \A u \in VmThreads \ {t} : vmStack'[u] = vmStack[u]
  PROVE  Others(t) /\ vmThread'[t] = pc
BY DEF VmTyped, Others

LEMMA SpareSame ==
  ASSUME UNCHANGED <<idleVms, totalVms>>
  PROVE  \A q \in VmPools : Cardinality(idleVms'[q]) - totalVms'[q] = Cardinality(idleVms[q]) - totalVms[q]
OBVIOUS

\* The thread is not among the waiters, or becomes one that is awake.
LEMMA CalmMoves ==
  ASSUME VmBooks, VmBooks', VmAwake, NEW t \in VmThreads,
         \/ \E f : Asks(t, f)
         \/ SpuriousWake(t) \/ Builds(t) \/ Prepares(t) \/ HandlerEnds(t)
         \/ \E ctx, pc : Populates(t, ctx, pc)
         \/ \E f, ctx : Nests(t, f, ctx)
  PROVE  VmAwake'
BY OneMoved, SpareSame, AwakeCalm DEF VmBooks, VmShape, Asks, Pushed, SpuriousWake, At, Builds, SetTop, VmTyped,
   Prepares, HandlerEnds, Populates, Nests, Replaced, Others

LEMMA ReapsAwake ==
  ASSUME VmBooks, VmBooks', VmAwake, NEW t \in VmThreads, NEW gone, Reaps(t, gone)
  PROVE  VmAwake'
<1>0. VmShape /\ VmShape' /\ VmTyped /\ vmThread[t] = "acquire"
  BY DEF VmBooks, VmShape, Reaps
<1>1. PICK p \in VmPools : p = Top(t).pool
  BY <1>0, TopTyped
<1>2. /\ gone \in SUBSET idleVms[p]
      /\ idleVms' = [idleVms EXCEPT ![p] = idleVms[p] \ gone]
      /\ totalVms' = [totalVms EXCEPT ![p] = @ - Cardinality(gone)]
      /\ UNCHANGED <<vmContext, vmThread, vmStack>>
  BY <1>1 DEF Reaps, Reapable
<1>3. /\ idleVms'[p] = idleVms[p] \ gone /\ totalVms'[p] = totalVms[p] - Cardinality(gone)
      /\ \A q \in VmPools \ {p} : totalVms'[q] = totalVms[q] /\ idleVms'[q] = idleVms[q]
  BY <1>0, <1>2 DEF VmTyped
<1>4. /\ Cardinality(idleVms[p]) \in Nat /\ totalVms[p] \in Nat /\ Cardinality(gone) \in Nat
      /\ Cardinality(idleVms[p] \ gone) = Cardinality(idleVms[p]) - Cardinality(gone)
  BY <1>0, <1>2, BooksTyped, Reduced
<1>5. Cardinality(idleVms'[p]) = Cardinality(idleVms[p]) - Cardinality(gone)
  BY <1>3, <1>4, Zenon
<1>6. ASSUME NEW q \in VmPools PROVE Cardinality(idleVms'[q]) - totalVms'[q] = Cardinality(idleVms[q]) - totalVms[q]
  <2>1. CASE q = p
    <3>1. Cardinality(idleVms'[p]) - totalVms'[p] = Cardinality(idleVms[p]) - totalVms[p]
      BY <1>3, <1>4, <1>5
    <3> QED BY <2>1, <3>1, Zenon
  <2>2. CASE q # p
    BY <1>3, <2>2
  <2> QED BY <2>1, <2>2
<1>7. Others(t) /\ Top(t)' = Top(t) /\ vmThread'[t] = "acquire"
  BY <1>0, <1>2 DEF Others, Top
<1> QED BY <1>0, <1>6, <1>7, AwakeCalm

\* A thread that was on its way takes an idle VM or a slot.
LEMMA ServedAwake ==
  ASSUME VmBooks, VmBooks', VmAwake, NEW t \in VmThreads, (\E v : Takes(t, v)) \/ Starts(t)
  PROVE  VmAwake'
<1>0. VmShape /\ VmShape' /\ VmTyped /\ vmThread[t] = "acquire"
  BY DEF VmBooks, VmShape, Takes, Starts
<1>1. PICK p \in VmPools : p = Top(t).pool
  BY <1>0, TopTyped
<1>2. Others(t) /\ vmThread'[t] \notin {"acquire", "sleep"}
  <2>1. CASE \E v : Takes(t, v)
    <3>1. vmThread' = [vmThread EXCEPT ![t] = "leased"] /\ \A u \in VmThreads \ {t} : vmStack'[u] = vmStack[u]
      BY <2>1 DEF Takes, Replaced
    <3> QED BY <1>0, <3>1, OneMoved
  <2>2. CASE Starts(t)
    <3>1. vmThread' = [vmThread EXCEPT ![t] = "build"] /\ \A u \in VmThreads \ {t} : vmStack'[u] = vmStack[u]
      BY <2>2 DEF Starts
    <3> QED BY <1>0, <3>1, OneMoved
  <2> QED BY <2>1, <2>2
<1>3. \A q \in VmPools \ {p} : totalVms'[q] = totalVms[q] /\ idleVms'[q] = idleVms[q]
  BY <1>0, <1>1 DEF Takes, Starts, VmTyped
<1>4. Cardinality(idleVms'[p]) - totalVms'[p] = Cardinality(idleVms[p]) - totalVms[p] - 1
  <2>0. Cardinality(idleVms[p]) \in Nat /\ totalVms[p] \in Nat /\ IsFiniteSet(idleVms[p])
    BY <1>0, BooksTyped
  <2>1. ASSUME NEW v, Takes(t, v) PROVE Cardinality(idleVms'[p]) = Cardinality(idleVms[p]) - 1 /\ totalVms'[p] = totalVms[p]
    BY <1>0, <1>1, <2>0, <2>1, FS_RemoveElement DEF Takes, VmTyped
  <2>2. CASE Starts(t)
    <3>1. idleVms' = idleVms /\ totalVms'[p] = totalVms[p] + 1
      BY <1>0, <1>1, <2>2 DEF Starts, VmTyped
    <3>2. Cardinality(idleVms'[p]) = Cardinality(idleVms[p])
      BY <3>1, Zenon
    <3> QED BY <2>0, <3>1, <3>2
  <2> QED BY <2>0, <2>1, <2>2
<1>5. \A q \in VmPools : AwakeAt(q)
  BY DEF VmAwake, AwakeAt
<1>6. AwakeAt(p)'
  BY <1>0, <1>1, <1>2, <1>4, <1>5, AwakeTaken
<1>7. ASSUME NEW q \in VmPools \ {p} PROVE AwakeAt(q)'
  BY <1>0, <1>1, <1>2, <1>3, <1>5, <1>7, OthersWait, AwakeQuiet
<1>8. \A q \in VmPools : AwakeAt(q)'
  BY <1>6, <1>7
<1> QED BY <1>8 DEF VmAwake, AwakeAt

\* A thread only sleeps when nothing is spare.
LEMMA SleepsAwake ==
  ASSUME VmBooks, VmBooks', VmAwake, NEW t \in VmThreads, Sleeps(t)
  PROVE  VmAwake'
<1>0. VmShape /\ VmShape' /\ VmTyped /\ VmCounted /\ vmThread[t] = "acquire"
  BY DEF VmBooks, VmShape, Sleeps
<1>1. PICK p \in VmPools : p = Top(t).pool
  BY <1>0, TopTyped
<1>2. /\ idleVms[p] = {} /\ totalVms[p] >= MaxVms[p] /\ vmThread' = [vmThread EXCEPT ![t] = "sleep"]
      /\ UNCHANGED <<idleVms, totalVms, vmContext, vmStack>>
  BY <1>1 DEF Sleeps
<1>3. Others(t) /\ vmThread'[t] = "sleep" /\ Top(t)' = Top(t)
  BY <1>0, <1>2, OneMoved DEF Top
<1>4. AwakeAt(p)'
  BY <1>0, <1>2, FS_EmptySet, BooksTyped, BooksTypedNext, WaitersFinite DEF AwakeAt
<1>5. ASSUME NEW q \in VmPools \ {p} PROVE AwakeAt(q)'
  BY <1>0, <1>1, <1>2, <1>3, <1>5, OthersWait, AwakeQuiet DEF VmAwake, AwakeAt
<1>6. \A q \in VmPools : AwakeAt(q)'
  BY <1>4, <1>5
<1> QED BY <1>6 DEF VmAwake, AwakeAt

\* A lease ends: what it held is spare and one sleeper is told.
LEMMA EndsAwake ==
  ASSUME VmBooks, VmBooks', VmAwake, NEW t \in VmThreads, Forgoes(t) \/ \E gone : Releases(t, gone)
  PROVE  VmAwake'
<1>0. VmShape /\ VmShape' /\ VmTyped /\ VmOwned /\ vmThread[t] \in {"build", "leased", "finish"}
  BY DEF VmBooks, VmShape, Forgoes, Releases
<1>1. PICK p \in VmPools, n \in {1, 2} : p = Top(t).pool /\ n = Len(vmStack[t])
  BY <1>0, TopTyped
<1>2. PICK pc \in {"run", "idle"} : pc = Unwound(t)
  BY DEF Unwound
<1>3. Woke(p, t, pc) /\ \A u \in VmThreads \ {t} : vmStack'[u] = vmStack[u]
  BY <1>1, <1>2 DEF Forgoes, Releases, Popped
<1>4. \A q \in VmPools \ {p} : totalVms'[q] = totalVms[q] /\ idleVms'[q] = idleVms[q]
  BY <1>0, <1>1 DEF Forgoes, Releases, VmTyped
<1>5. Cardinality(idleVms'[p]) - totalVms'[p] = Cardinality(idleVms[p]) - totalVms[p] + 1
  <2>0. Cardinality(idleVms[p]) \in Nat /\ totalVms[p] \in Nat /\ IsFiniteSet(idleVms[p])
    BY <1>0, BooksTyped
  <2>1. CASE Forgoes(t)
    BY <1>0, <1>1, <2>0, <2>1 DEF Forgoes, VmTyped
  <2>2. ASSUME NEW gone, Releases(t, gone)
        PROVE  Cardinality(idleVms'[p]) - totalVms'[p] = Cardinality(idleVms[p]) - totalVms[p] + 1
    <3>1. PICK v \in VmIds : v = Top(t).vm /\ VmAt(t, n) = v
      BY <1>0, <1>1, <2>2, TopTyped DEF Releases, Waiting
    <3>2. /\ gone \in SUBSET (idleVms[p] \cup {v}) /\ idleVms'[p] = (idleVms[p] \cup {v}) \ gone
          /\ totalVms'[p] = totalVms[p] - Cardinality(gone)
      BY <1>0, <1>1, <2>2, <3>1 DEF Releases, Reapable, VmTyped
    <3>3. v \notin idleVms[p]
      BY <1>0, <3>1 DEF VmOwned
    <3>4. IsFiniteSet(idleVms[p] \cup {v}) /\ Cardinality(idleVms[p] \cup {v}) = Cardinality(idleVms[p]) + 1
      BY <2>0, <3>3, FS_AddElement
    <3>5. /\ Cardinality((idleVms[p] \cup {v}) \ gone) = Cardinality(idleVms[p] \cup {v}) - Cardinality(gone)
          /\ Cardinality(gone) \in Nat
      BY <3>2, <3>4, Reduced
    <3>6. Cardinality(idleVms'[p]) = Cardinality(idleVms[p] \cup {v}) - Cardinality(gone)
      BY <3>2, <3>5, Zenon
    <3> QED BY <2>0, <3>2, <3>4, <3>5, <3>6
  <2> QED BY <2>1, <2>2
<1> QED BY <1>0, <1>2, <1>3, <1>4, <1>5, AwakeWoken

LEMMA MovesAwake ==
  ASSUME VmBooks, VmBooks', VmAwake, NEW t \in VmThreads, VmMoves(t)
  PROVE  VmAwake'
BY CalmMoves, ReapsAwake, ServedAwake, SleepsAwake, EndsAwake DEF VmMoves


-----------------------------------------------------------------------------
(* Every context belongs to the call that runs in it.                      *)

\* Of all contexts only that of w may change, and nobody else holds w.
Touches(t, w) ==
  /\ \A v \in VmIds \ {w} : vmContext'[v] = vmContext[v]
  /\ \A u \in VmThreads \ {t}, i \in {1, 2} : VmAt(u, i) # 0 => VmAt(u, i) # w

LEMMA FrameKept ==
  ASSUME VmShape, NEW u \in VmThreads, NEW i \in {1, 2}, i \in 1..Len(vmStack[u]), NEW w,
         vmStack'[u][i] = vmStack[u][i], FrameRight(vmStack[u][i]),
         i < Len(vmStack[u]) \/ vmThread[u] = "run", VmAt(u, i) # w,
         \A v \in VmIds \ {w} : vmContext'[v] = vmContext[v]
  PROVE  FrameRight(vmStack[u][i])'
<1>1. StackShape(u) /\ vmStack[u] \in Seq(VmFrame)
  BY DEF VmShape, VmTyped
<1>2. vmStack[u][i] \in VmFrame /\ vmStack[u][i].vm # 0
  BY <1>1 DEF StackShape, Waiting
<1>3. vmStack[u][i].vm \in VmIds \ {w}
  BY <1>2 DEF VmFrame, VmAt
<1>4. vmContext'[vmStack[u][i].vm] = vmContext[vmStack[u][i].vm]
  BY <1>3
<1> QED BY <1>4 DEF FrameRight, Depth

LEMMA ContextStep ==
  ASSUME VmBooks, VmBooks', VmContexts, NEW t \in VmThreads, Rest(t), NEW w, Touches(t, w),
         \A q \in VmPools : \A v \in idleVms'[q] : vmContext'[v] = Uniform(0),
         \A i \in {1, 2} : i < Len(vmStack'[t]) =>
           /\ vmStack'[t][i] = vmStack[t][i] /\ VmAt(t, i) # w
           /\ i \in 1..Len(vmStack[t]) /\ (i < Len(vmStack[t]) \/ vmThread[t] = "run"),
         vmThread'[t] = "run" => FrameRight(Top(t))',
         vmThread'[t] = "populate" => vmContext'[Top(t)'.vm] = Uniform(0)
  PROVE  VmContexts'
<1>0. VmShape /\ VmShape' /\ VmTyped'
  BY DEF VmBooks, VmShape
<1>1. ASSUME NEW u \in VmThreads, NEW i \in {1, 2}, i \in 1..Len(vmStack'[u])
      PROVE  /\ i < Len(vmStack'[u]) \/ vmThread'[u] = "run" => FrameRight(vmStack[u][i])'
             /\ i = Len(vmStack'[u]) /\ vmThread'[u] = "populate" => vmContext'[vmStack'[u][i].vm] = Uniform(0)
  <2>1. CASE u # t
    <3>1. /\ vmStack'[u] = vmStack[u] /\ i \in 1..Len(vmStack[u])
          /\ vmThread'[u] \in {"run", "populate"} => vmThread[u] = vmThread'[u]
      BY <1>1, <2>1 DEF Rest
    <3>2. StackShape(u) /\ vmStack[u] \in Seq(VmFrame)
      BY <1>0 DEF VmShape, VmTyped
    <3>3. vmStack[u][i].vm \in VmIds \cup {0}
      <4>1. vmStack[u][i] \in VmFrame
        BY <3>1, <3>2
      <4> QED BY <4>1 DEF VmFrame
    <3>4. VmAt(u, i) = vmStack[u][i].vm
      BY <3>1 DEF VmAt
    <3>5. ASSUME i < Len(vmStack'[u]) \/ vmThread'[u] = "run" PROVE FrameRight(vmStack[u][i])'
      <4>1. i < Len(vmStack[u]) \/ vmThread[u] = "run"
        BY <3>1, <3>5
      <4>2. FrameRight(vmStack[u][i])
        BY <3>1, <4>1 DEF VmContexts
      <4>3. VmAt(u, i) # 0
        BY <3>1, <3>2, <3>4, <4>1 DEF StackShape, Waiting
      <4>4. VmAt(u, i) # w
        BY <2>1, <4>3 DEF Touches
      <4> QED BY <1>0, <3>1, <4>1, <4>2, <4>4, FrameKept DEF Touches
    <3>6. ASSUME i = Len(vmStack'[u]), vmThread'[u] = "populate" PROVE vmContext'[vmStack'[u][i].vm] = Uniform(0)
      BY <2>1, <3>1, <3>2, <3>3, <3>4, <3>6 DEF VmContexts, StackShape, Waiting, Touches
    <3> QED BY <3>5, <3>6
  <2>2. CASE u = t
    <3>0. Len(vmStack'[t]) \in Nat
      BY <1>0 DEF VmTyped
    <3>1. CASE i < Len(vmStack'[t])
      <4>1. /\ vmStack'[t][i] = vmStack[t][i] /\ VmAt(t, i) # w
            /\ i \in 1..Len(vmStack[t]) /\ (i < Len(vmStack[t]) \/ vmThread[t] = "run")
        BY <3>1
      <4>2. FrameRight(vmStack[t][i])
        BY <4>1 DEF VmContexts
      <4>3. FrameRight(vmStack[t][i])'
        BY <1>0, <4>1, <4>2, FrameKept DEF Touches
      <4> QED BY <2>2, <3>0, <3>1, <4>3
    <3>2. CASE i = Len(vmStack'[t])
      BY <2>2, <3>2 DEF Top, FrameRight, Depth
    <3> QED BY <1>1, <2>2, <3>0, <3>1, <3>2
  <2> QED BY <2>1, <2>2
<1> QED BY <1>1 DEF VmContexts

\* Nobody but t holds the VM of its innermost lease, and it is not idle.
LEMMA TopAlone ==
  ASSUME VmBooks, NEW t \in VmThreads, vmThread[t] \notin Waiting \cup {"idle"}, NEW w, w = Top(t).vm
  PROVE  /\ w \in VmIds /\ \A q \in VmPools : w \notin idleVms[q]
         /\ \A u \in VmThreads \ {t}, i \in {1, 2} : VmAt(u, i) # 0 => VmAt(u, i) # w
         /\ \A i \in {1, 2} : i < Len(vmStack[t]) => VmAt(t, i) # w
<1>0. VmShape /\ VmOwned
  BY DEF VmBooks
<1>1. PICK n \in {1, 2} : n = Len(vmStack[t])
  BY <1>0, TopTyped
<1>2. VmAt(t, n) = w /\ w \in VmIds /\ w # 0
  BY <1>0, <1>1, TopTyped, VmPoolAssumption
<1>3. \A q \in VmPools : w \notin idleVms[q]
  BY <1>0, <1>2 DEF VmOwned
<1>4. ASSUME NEW u \in VmThreads, NEW i \in {1, 2}, VmAt(u, i) = w PROVE u = t /\ i = n
  BY <1>0, <1>2, <1>4 DEF VmOwned
<1>5. \A i \in {1, 2} : i < Len(vmStack[t]) => VmAt(t, i) # w
  <2>1. \A i \in {1, 2} : i < n => i # n
    OBVIOUS
  <2> QED BY <1>1, <1>4, <2>1
<1>6. \A u \in VmThreads \ {t}, i \in {1, 2} : VmAt(u, i) # 0 => VmAt(u, i) # w
  BY <1>4
<1> QED BY <1>2, <1>3, <1>5, <1>6

LEMMA BelowNotZero ==
  ASSUME VmShape, NEW t \in VmThreads
  PROVE  \A i \in {1, 2} : i < Len(vmStack[t]) \/ (i = Len(vmStack[t]) /\ vmThread[t] = "run") =>
           VmAt(t, i) # 0 /\ i \in 1..Len(vmStack[t])
<1>1. StackShape(t) /\ Len(vmStack[t]) \in Nat
  BY DEF VmShape, VmTyped
<1>2. ASSUME NEW i \in {1, 2}, i < Len(vmStack[t]) \/ (i = Len(vmStack[t]) /\ vmThread[t] = "run")
      PROVE  VmAt(t, i) # 0 /\ i \in 1..Len(vmStack[t])
  BY <1>1, <1>2 DEF StackShape, VmAt, Waiting
<1> QED BY <1>2

\* The leases below the innermost are the ones that were below it, or Lua ran under them.
Below(t) ==
  \A i \in {1, 2} : i < Len(vmStack'[t]) =>
    /\ vmStack'[t][i] = vmStack[t][i]
    /\ i \in 1..Len(vmStack[t]) /\ (i < Len(vmStack[t]) \/ (i = Len(vmStack[t]) /\ vmThread[t] = "run"))

LEMMA BelowPushed ==
  ASSUME VmShape, NEW t \in VmThreads, NEW f, Pushed(t, f), vmThread[t] \in {"idle", "run"}
  PROVE  Below(t)
BY DEF VmShape, StackShape, Pushed, Below

LEMMA BelowShorter ==
  ASSUME VmShape, NEW t \in VmThreads, Len(vmStack[t]) > 0,
         Popped(t) \/ vmStack' = vmStack \/ \E f : Replaced(t, f)
  PROVE  Below(t)
<1>1. Len(vmStack[t]) \in Nat
  BY DEF VmShape, VmTyped
<1>2. /\ Len(vmStack'[t]) \in {Len(vmStack[t]), Len(vmStack[t]) - 1}
      /\ \A i \in 1..Len(vmStack[t]) - 1 : vmStack'[t][i] = vmStack[t][i]
  BY <1>1 DEF Popped, Replaced
<1>3. ASSUME NEW i \in {1, 2}, i < Len(vmStack'[t])
      PROVE  i \in 1..Len(vmStack[t]) - 1 /\ i \in 1..Len(vmStack[t]) /\ i < Len(vmStack[t])
  BY <1>1, <1>2, <1>3
<1> QED BY <1>2, <1>3 DEF Below

LEMMA QuietContexts ==
  ASSUME VmBooks, VmBooks', VmContexts, NEW t \in VmThreads, Rest(t), Below(t),
         \A v \in VmIds : vmContext'[v] = vmContext[v],
         \A q \in VmPools : idleVms'[q] \subseteq idleVms[q], vmThread'[t] \notin {"run", "populate"}
  PROVE  VmContexts'
<1>0. VmShape /\ VmTyped
  BY DEF VmBooks, VmShape
<1>1. Touches(t, 0)
  BY DEF Touches
<1>2. ASSUME NEW q \in VmPools, NEW v \in idleVms'[q] PROVE vmContext'[v] = Uniform(0)
  BY <1>0 DEF VmTyped, VmContexts
<1>3. \A i \in {1, 2} : i < Len(vmStack'[t]) =>
        /\ vmStack'[t][i] = vmStack[t][i] /\ VmAt(t, i) # 0
        /\ i \in 1..Len(vmStack[t]) /\ (i < Len(vmStack[t]) \/ vmThread[t] = "run")
  BY <1>0, BelowNotZero DEF Below
<1> QED BY <1>1, <1>2, <1>3, ContextStep

\* The context of the thread's own VM changes, or that of a VM nobody has.
LEMMA OwnContexts ==
  ASSUME VmBooks, VmBooks', VmContexts, NEW t \in VmThreads, Rest(t), NEW w \in VmIds,
         Len(vmStack'[t]) <= Len(vmStack[t]),
         \A i \in {1, 2} : i < Len(vmStack'[t]) => vmStack'[t][i] = vmStack[t][i],
         \A v \in VmIds \ {w} : vmContext'[v] = vmContext[v],
         \A u \in VmThreads \ {t}, i \in {1, 2} : VmAt(u, i) # 0 => VmAt(u, i) # w,
         \A i \in {1, 2} : i < Len(vmStack[t]) => VmAt(t, i) # w,
         \A q \in VmPools : \A v \in idleVms'[q] : (v # w /\ v \in idleVms[q]) \/ (v = w /\ vmContext'[w] = Uniform(0)),
         vmThread'[t] = "run" => FrameRight(Top(t))',
         vmThread'[t] = "populate" => vmContext'[Top(t)'.vm] = Uniform(0)
  PROVE  VmContexts'
<1>0. VmShape /\ VmTyped
  BY DEF VmBooks, VmShape
<1>1. Touches(t, w)
  BY DEF Touches
<1>2. ASSUME NEW q \in VmPools, NEW v \in idleVms'[q] PROVE vmContext'[v] = Uniform(0)
  BY <1>0 DEF VmTyped, VmContexts
<1>3. \A i \in {1, 2} : i < Len(vmStack'[t]) => i < Len(vmStack[t])
  BY DEF VmBooks, VmShape, VmTyped
<1>4. \A i \in {1, 2} : i < Len(vmStack'[t]) =>
        /\ vmStack'[t][i] = vmStack[t][i] /\ VmAt(t, i) # w
        /\ i \in 1..Len(vmStack[t]) /\ (i < Len(vmStack[t]) \/ vmThread[t] = "run")
  BY <1>0, <1>3, BelowNotZero
<1> QED BY <1>1, <1>2, <1>4, ContextStep

LEMMA QuietMoves ==
  ASSUME VmBooks, VmBooks', VmContexts, NEW t \in VmThreads, Rest(t),
         \/ \E f : Asks(t, f)
         \/ \E gone : Reaps(t, gone)
         \/ \E v : Takes(t, v)
         \/ Starts(t) \/ Sleeps(t) \/ SpuriousWake(t) \/ HandlerEnds(t)
  PROVE  VmContexts'
<1>0. VmShape /\ VmTyped
  BY DEF VmBooks, VmShape
<1>1. vmContext' = vmContext
  BY DEF Asks, Reaps, Takes, Starts, Sleeps, SpuriousWake, HandlerEnds
<1>2. vmThread'[t] \notin {"run", "populate"}
  BY <1>0 DEF Reaps, Asks, Takes, Starts, Sleeps, SpuriousWake, HandlerEnds, VmTyped
<1>3. \A q \in VmPools : idleVms'[q] \subseteq idleVms[q]
  BY <1>0 DEF Asks, Reaps, Takes, Starts, Sleeps, SpuriousWake, HandlerEnds, VmTyped
<1>4. Below(t)
  BY <1>0, BelowPushed, TopTyped, BelowShorter DEF Asks, Reaps, Takes, Starts, Sleeps, SpuriousWake, HandlerEnds, At
<1> QED BY <1>1, <1>2, <1>3, <1>4, QuietContexts

\* What the pop leaves innermost was below, and is right.
LEMMA PoppedRight ==
  ASSUME VmBooks, VmBooks', VmContexts, NEW t \in VmThreads, Popped(t), Len(vmStack[t]) > 0, NEW w,
         \A i \in {1, 2} : i < Len(vmStack[t]) => VmAt(t, i) # w,
         \A v \in VmIds \ {w} : vmContext'[v] = vmContext[v], vmThread'[t] = "run"
  PROVE  FrameRight(Top(t))'
<1>0. VmShape /\ VmShape'
  BY DEF VmBooks
<1>1. Len(vmStack'[t]) \in {1, 2} /\ Top(t)' = vmStack'[t][Len(vmStack'[t])]
  BY <1>0 DEF VmShape, StackShape, Top
<1>2. PICK i \in {1, 2} : i = Len(vmStack'[t])
  BY <1>1
<1>3. i \in 1..Len(vmStack[t]) /\ i < Len(vmStack[t]) /\ i \in 1..Len(vmStack[t]) - 1
  BY <1>0, <1>2 DEF VmShape, VmTyped, Popped
<1>4. vmStack'[t][i] = vmStack[t][i] /\ FrameRight(vmStack[t][i])
  BY <1>3 DEF Popped, VmContexts
<1>5. FrameRight(vmStack[t][i])'
  BY <1>0, <1>3, <1>4, FrameKept
<1>6. Top(t)' = vmStack'[t][i]
  BY <1>1, <1>2
<1> QED BY <1>5, <1>6 DEF FrameRight, Depth

LEMMA ForgoesContexts ==
  ASSUME VmBooks, VmBooks', VmContexts, NEW t \in VmThreads, Rest(t), Forgoes(t)
  PROVE  VmContexts'
<1>0. VmShape /\ VmTyped /\ vmThread[t] \in {"build", "leased", "finish"}
  BY DEF VmBooks, VmShape, Forgoes
<1>1. Popped(t) /\ idleVms' = idleVms /\ Len(vmStack[t]) > 0 /\ Len(vmStack[t]) \in Nat
  BY <1>0, TopTyped DEF Forgoes
<1>2. PICK pc \in {"run", "idle"} : pc = Unwound(t) /\ vmThread'[t] = pc
  BY DEF Unwound, Forgoes, Woke
<1>3. CASE vmThread[t] = "build"
  <2>1. vmContext' = vmContext
    BY <1>3 DEF Forgoes
  <2>2. Touches(t, 0)
    BY <2>1 DEF Touches
  <2>3. \A q \in VmPools : \A v \in idleVms'[q] : vmContext'[v] = Uniform(0)
    BY <1>1, <2>1 DEF VmContexts
  <2>4. Below(t)
    BY <1>0, <1>1, BelowShorter
  <2>5. \A i \in {1, 2} : i < Len(vmStack'[t]) =>
          /\ vmStack'[t][i] = vmStack[t][i] /\ VmAt(t, i) # 0
          /\ i \in 1..Len(vmStack[t]) /\ (i < Len(vmStack[t]) \/ vmThread[t] = "run")
    BY <1>0, <2>4, BelowNotZero DEF Below
  <2>6. \A i \in {1, 2} : i < Len(vmStack[t]) => VmAt(t, i) # 0
    BY <1>0, BelowNotZero
  <2>7. vmThread'[t] = "run" => FrameRight(Top(t))'
    BY <1>1, <2>1, <2>6, PoppedRight
  <2> QED BY <1>2, <2>2, <2>3, <2>5, <2>7, ContextStep
<1>4. CASE vmThread[t] # "build"
  <2>1. PICK w : w = Top(t).vm
    OBVIOUS
  <2>2. /\ w \in VmIds /\ \A q \in VmPools : w \notin idleVms[q]
        /\ \A u \in VmThreads \ {t}, i \in {1, 2} : VmAt(u, i) # 0 => VmAt(u, i) # w
        /\ \A i \in {1, 2} : i < Len(vmStack[t]) => VmAt(t, i) # w
    BY <1>0, <1>4, <2>1, TopAlone DEF Waiting
  <2>3. \A v \in VmIds \ {w} : vmContext'[v] = vmContext[v]
    BY <1>0, <1>4, <2>1 DEF Forgoes, VmTyped
  <2>4. vmThread'[t] = "run" => FrameRight(Top(t))'
    BY <1>1, <2>2, <2>3, PoppedRight
  <2>5. /\ Len(vmStack'[t]) <= Len(vmStack[t])
        /\ \A i \in {1, 2} : i < Len(vmStack'[t]) => vmStack'[t][i] = vmStack[t][i]
    BY <1>1 DEF Popped
  <2>6. \A q \in VmPools : \A v \in idleVms'[q] : v # w /\ v \in idleVms[q]
    BY <1>1, <2>2
  <2> QED BY <1>2, <2>2, <2>3, <2>4, <2>5, <2>6, OwnContexts
<1> QED BY <1>3, <1>4

LEMMA ReleasesContexts ==
  ASSUME VmBooks, VmBooks', VmContexts, NEW t \in VmThreads, Rest(t), NEW gone, Releases(t, gone)
  PROVE  VmContexts'
<1>0. VmShape /\ VmTyped /\ vmThread[t] = "finish"
  BY DEF VmBooks, VmShape, Releases
<1>1. Popped(t) /\ Len(vmStack[t]) > 0 /\ Len(vmStack[t]) \in Nat
  BY <1>0, TopTyped DEF Releases
<1>2. PICK pc \in {"run", "idle"} : pc = Unwound(t) /\ vmThread'[t] = pc
  BY DEF Unwound, Releases, Woke
<1>3. PICK w \in VmIds, p \in VmPools : w = Top(t).vm /\ p = Top(t).pool
  BY <1>0, TopTyped DEF Waiting
<1>4. /\ w \in VmIds /\ \A q \in VmPools : w \notin idleVms[q]
      /\ \A u \in VmThreads \ {t}, i \in {1, 2} : VmAt(u, i) # 0 => VmAt(u, i) # w
      /\ \A i \in {1, 2} : i < Len(vmStack[t]) => VmAt(t, i) # w
  BY <1>0, <1>3, TopAlone DEF Waiting
<1>5. vmContext'[w] = Uniform(0) /\ \A v \in VmIds \ {w} : vmContext'[v] = vmContext[v]
  BY <1>0, <1>3, <1>4 DEF Releases, VmTyped
<1>6. vmThread'[t] = "run" => FrameRight(Top(t))'
  BY <1>1, <1>4, <1>5, PoppedRight
<1>7. /\ Len(vmStack'[t]) <= Len(vmStack[t])
      /\ \A i \in {1, 2} : i < Len(vmStack'[t]) => vmStack'[t][i] = vmStack[t][i]
  BY <1>1 DEF Popped
<1>8. \A q \in VmPools : \A v \in idleVms'[q] : (v # w /\ v \in idleVms[q]) \/ v = w
  BY <1>0, <1>3, <1>4 DEF Releases, VmTyped
<1> QED BY <1>2, <1>4, <1>5, <1>6, <1>7, <1>8, OwnContexts

LEMMA BuildsContexts ==
  ASSUME VmBooks, VmBooks', VmContexts, NEW t \in VmThreads, Rest(t), Builds(t)
  PROVE  VmContexts'
<1>0. VmShape /\ VmTyped /\ VmCounted /\ VmOwned /\ vmThread[t] = "build"
  BY DEF VmBooks, VmShape, Builds
<1>1. PICK w \in VmIds : w = FreshVm
  BY <1>0, FreshExists
<1>2. w # 0 /\ (\A q \in VmPools : w \notin idleVms[q]) /\ \A u \in VmThreads, i \in {1, 2} : VmAt(u, i) # w
  BY <1>0, <1>1, FreshExists, VmPoolAssumption
<1>3. \A v \in VmIds \ {w} : vmContext'[v] = vmContext[v]
  BY <1>0, <1>1 DEF Builds, VmTyped
<1>4. vmThread'[t] = "leased" /\ idleVms' = idleVms
  BY <1>0 DEF Builds, VmTyped
<1>5. /\ Len(vmStack'[t]) <= Len(vmStack[t])
      /\ \A i \in {1, 2} : i < Len(vmStack'[t]) => vmStack'[t][i] = vmStack[t][i]
  <2>1. /\ Len(vmStack[t]) \in Nat /\ vmStack[t] \in Seq(VmFrame)
        /\ vmStack'[t] = [vmStack[t] EXCEPT ![Len(vmStack[t])] = [Top(t) EXCEPT !.vm = FreshVm]]
    BY <1>0 DEF VmTyped, Builds, SetTop
  <2>2. Len(vmStack'[t]) = Len(vmStack[t]) /\ \A i \in 1..Len(vmStack[t]) - 1 : vmStack'[t][i] = vmStack[t][i]
    BY <2>1
  <2>3. PICK n \in Nat : n = Len(vmStack[t])
    BY <2>1
  <2>4. \A i \in {1, 2} : i < n => i \in 1..n - 1
    OBVIOUS
  <2> QED BY <2>2, <2>3, <2>4
<1>6. \A q \in VmPools : \A v \in idleVms'[q] : v # w /\ v \in idleVms[q]
  BY <1>2, <1>4
<1> QED BY <1>2, <1>3, <1>4, <1>5, <1>6, OwnContexts

\* The moves inside a lease that change its context.
LEMMA InsideContexts ==
  ASSUME VmBooks, VmBooks', VmContexts, NEW t \in VmThreads, Rest(t), vmThread[t] \in {"leased", "populate", "run"},
         vmStack' = vmStack \/ \E f : Replaced(t, f), idleVms' = idleVms,
         NEW ctx, vmContext' = [vmContext EXCEPT ![Top(t).vm] = ctx],
         vmThread'[t] = "run" => FrameRight(Top(t))',
         vmThread'[t] = "populate" => vmContext'[Top(t)'.vm] = Uniform(0)
  PROVE  VmContexts'
<1>0. VmShape /\ VmTyped
  BY DEF VmBooks, VmShape
<1>1. PICK w : w = Top(t).vm
  OBVIOUS
<1>2. /\ w \in VmIds /\ \A q \in VmPools : w \notin idleVms[q]
      /\ \A u \in VmThreads \ {t}, i \in {1, 2} : VmAt(u, i) # 0 => VmAt(u, i) # w
      /\ \A i \in {1, 2} : i < Len(vmStack[t]) => VmAt(t, i) # w
  BY <1>1, TopAlone DEF Waiting
<1>3. \A v \in VmIds \ {w} : vmContext'[v] = vmContext[v]
  BY <1>0, <1>1 DEF VmTyped
<1>4. /\ Len(vmStack'[t]) <= Len(vmStack[t])
      /\ \A i \in {1, 2} : i < Len(vmStack'[t]) => vmStack'[t][i] = vmStack[t][i]
  BY <1>0 DEF VmTyped, Replaced
<1>5. \A q \in VmPools : \A v \in idleVms'[q] : v # w /\ v \in idleVms[q]
  BY <1>2
<1> QED BY <1>2, <1>3, <1>4, <1>5, OwnContexts

LEMMA InsideMoves ==
  ASSUME VmBooks, VmBooks', VmContexts, NEW t \in VmThreads, Rest(t),
         Prepares(t) \/ (\E ctx, pc : Populates(t, ctx, pc)) \/ \E f, ctx : Nests(t, f, ctx)
  PROVE  VmContexts'
<1>0. VmShape /\ VmTyped /\ vmThread[t] \in {"leased", "populate", "run"}
  BY DEF VmBooks, VmShape, Prepares, Populates, Nests
<1>1. PICK n \in {1, 2}, w \in VmIds : n = Len(vmStack[t]) /\ w = Top(t).vm /\ Top(t) = vmStack[t][n] /\ n \in 1..Len(vmStack[t])
  BY <1>0, TopTyped DEF Waiting
<1>2. CASE Prepares(t)
  BY <1>0, <1>1, <1>2, InsideContexts DEF Prepares, VmTyped, Top
<1>3. ASSUME NEW ctx, NEW pc, Populates(t, ctx, pc) PROVE VmContexts'
  <2>1. /\ vmThread[t] = "populate" /\ vmThread'[t] = pc /\ pc \in {"run", "finish"} /\ vmStack' = vmStack /\ idleVms' = idleVms
        /\ vmContext' = [vmContext EXCEPT ![Top(t).vm] = ctx] /\ Top(t)' = Top(t)
    BY <1>0, <1>3 DEF Populates, VmTyped, Top
  <2>2. ASSUME vmThread'[t] = "run" PROVE FrameRight(Top(t))'
    <3>1. vmContext[Top(t).vm] = Uniform(0)
      BY <1>1, <2>1 DEF VmContexts
    <3>2. ctx = Installed(Top(t).kind) /\ vmContext'[Top(t).vm] = ctx
      BY <1>0, <1>1, <1>3, <2>1, <2>2, <3>1 DEF Populates, VmTyped
    <3>3. Top(t).snapshots = <<>>
      BY <1>0, <2>1, TopTyped DEF Early
    <3>4. Depth(Top(t)) = 1 /\ Len(Top(t).snapshots) = 0
      BY <3>3 DEF Depth
    <3>5. ContextAt(Top(t).kind, 1) = Installed(Top(t).kind)
      BY DEF ContextAt
    <3>6. Depth(Top(t))' = 1 /\ Len(Top(t)'.snapshots) = 0
      BY <2>1, <3>4 DEF Depth
    <3> QED BY <2>1, <3>2, <3>5, <3>6 DEF FrameRight
  <2> QED BY <1>0, <2>1, <2>2, InsideContexts
<1>4. ASSUME NEW f, NEW ctx, Nests(t, f, ctx) PROVE VmContexts'
  <2>1. /\ vmThread[t] = "run" /\ vmThread' = vmThread /\ Replaced(t, f) /\ idleVms' = idleVms
        /\ vmContext' = [vmContext EXCEPT ![Top(t).vm] = ctx] /\ f.vm = w
    BY <1>1, <1>4 DEF Nests
  <2>2. Top(t)' = f /\ vmContext'[f.vm] = ctx
    BY <1>0, <1>1, <2>1 DEF Top, Replaced, VmTyped
  <2>3. FrameRight(Top(t))
    BY <1>1, <2>1 DEF VmContexts
  <2>4. ~f.tainted => /\ ctx = ContextAt(f.kind, Depth(f))
                      /\ \A d \in 1..Len(f.snapshots) : f.snapshots[d] = ContextAt(f.kind, d)
    BY <1>4, <2>3 DEF Nests
  <2>5. FrameRight(Top(t))'
    BY <2>2, <2>4 DEF FrameRight, Depth
  <2> QED BY <1>0, <2>1, <2>5, InsideContexts
<1> QED BY <1>2, <1>3, <1>4

LEMMA MovesContexts ==
  ASSUME VmBooks, VmBooks', VmContexts, NEW t \in VmThreads, Rest(t), VmMoves(t)
  PROVE  VmContexts'
BY QuietMoves, ForgoesContexts, ReleasesContexts, BuildsContexts, InsideMoves DEF VmMoves


-----------------------------------------------------------------------------
(* The invariant.                                                          *)

\* A step that fails stays within the bound on failures.
LEMMA CountedFaults ==
  ASSUME FaultsTyped, NEW order, NEW i \in Steps(order), Counted(order, i)
  PROVE  FaultsTyped'
BY VmPoolAssumption DEF FaultsTyped, Steps, Counted

LEMMA NextFaults ==
  ASSUME FaultsTyped, VmPoolNext
  PROVE  FaultsTyped'
<1>1. PICK t \in VmThreads :
    \/ Request(t, "main", "skill") \/ Request(t, "main", "anonymous")
    \/ Request(t, "runlua", "luaexec")
    \/ acquire(t) \/ SpuriousWake(t) \/ BuildVm(t)
    \/ ScopeNew(t) \/ Populate(t) \/ HandlerEnds(t) \/ ScopeFinish(t)
    \/ NestedCall(t) \/ NestedReturn(t)
  BY DEF VmPoolNext
<1>2. CASE \/ Request(t, "main", "skill") \/ Request(t, "main", "anonymous") \/ Request(t, "runlua", "luaexec")
           \/ acquire(t) \/ SpuriousWake(t) \/ BuildVm(t) \/ HandlerEnds(t)
  BY <1>2 DEF Request, acquire, SpuriousWake, BuildVm, HandlerEnds, FaultsTyped
<1>3. CASE ScopeNew(t) \/ Populate(t) \/ ScopeFinish(t) \/ NestedReturn(t)
  BY <1>3, CountedFaults DEF ScopeNew, Populate, ScopeFinish, NestedReturn
<1>4. CASE NestedCall(t)
  <2>1. PICK i \in Steps(EnterOrder) :
          \/ i = Len(EnterOrder) /\ vmFaults' = vmFaults
          \/ i # Len(EnterOrder) /\ vmFaults' \in {vmFaults + 1, vmFaults + 2}
    BY <1>4 DEF NestedCall
  <2>2. MaxVmFaults \in Nat /\ Len(EnterOrder) = 6
    BY VmPoolAssumption, OrdersLong
  <2>3. CASE i = Len(EnterOrder)
    BY <2>1, <2>3 DEF FaultsTyped
  <2>4. CASE i # Len(EnterOrder)
    BY <2>1, <2>2, <2>4 DEF Steps, FaultsTyped
  <2> QED BY <2>3, <2>4
<1> QED BY <1>1, <1>2, <1>3, <1>4

\* Every step of the pools preserves the invariant.
LEMMA VmStep ==
  ASSUME VmInv, VmPoolNext
  PROVE  VmInv'
BY NextMoves, NextFaults, MovesBooks, MovesAwake, MovesContexts DEF VmInv, VmBooks, VmShape, VmTyped, FaultsTyped

LEMMA VmStutter ==
  ASSUME VmInv, UNCHANGED vmVars
  PROVE  VmInv'
<1>1. /\ idleVms' = idleVms /\ totalVms' = totalVms /\ vmContext' = vmContext
      /\ vmThread' = vmThread /\ vmStack' = vmStack /\ vmFaults' = vmFaults
  BY DEF vmVars
<1>2. VmShape'
  BY <1>1 DEF VmInv, VmShape, VmTyped, StackShape
<1>3. VmOwned'
  BY <1>1 DEF VmInv, VmOwned, VmAt
<1>4. VmCounted'
  BY <1>1, Zenon DEF VmInv, VmCounted, Occupied, At
<1>5. VmAwake'
  BY <1>1, Zenon DEF VmInv, VmAwake, Sleepers, Acquirers, At, Top
<1>6. VmContexts'
  BY <1>1, Zenon DEF VmInv, VmContexts, FrameRight, Depth
<1> QED BY <1>2, <1>3, <1>4, <1>5, <1>6 DEF VmInv

LEMMA VmStart ==
  ASSUME VmPoolInit
  PROVE  VmInv
<1>0. /\ vmFaults = 0 /\ vmContext = [v \in VmIds |-> Uniform(0)]
      /\ vmThread = [t \in VmThreads |-> "idle"] /\ vmStack = [t \in VmThreads |-> <<>>]
      /\ MinVms \in Nat /\ MaxVmFaults \in Nat /\ \A p \in VmPools : MaxVms[p] \in Nat /\ MaxVms[p] >= MinVms
  BY VmPoolAssumption DEF VmPoolInit
<1>1. /\ idleVms \in [VmPools -> SUBSET VmIds] /\ totalVms \in [VmPools -> Nat]
      /\ idleVms["main"] \cap idleVms["runlua"] = {}
  BY <1>0 DEF VmPools, VmPoolInit
<1>2. \A p \in VmPools : totalVms[p] = Cardinality(idleVms[p]) /\ totalVms[p] <= MaxVms[p]
  <2>1. CASE idleVms = [p \in VmPools |-> {}] /\ totalVms = [p \in VmPools |-> 0]
    BY <1>0, <2>1, FS_EmptySet
  <2>2. CASE ~(idleVms = [p \in VmPools |-> {}] /\ totalVms = [p \in VmPools |-> 0])
    BY <1>0, <2>2 DEF VmPoolInit
  <2> QED BY <2>1, <2>2
<1>3. \A t \in VmThreads : vmStack[t] = <<>> /\ vmThread[t] = "idle" /\ Len(vmStack[t]) = 0
  BY <1>0
<1>4. VmShape
  BY <1>0, <1>1, <1>3, VmPoolAssumption, SnapshotsTyped DEF Pcs, VmTyped, StackShape, VmShape
<1>5. VmOwned
  BY <1>1, <1>3, VmPoolAssumption DEF VmAt, VmOwned
<1>6. VmCounted
  <2>1. ASSUME NEW p \in VmPools PROVE Cardinality(Occupied(p)) = 0
    <3>1. Occupied(p) = {}
      BY <1>3 DEF Occupied
    <3> QED BY <3>1, FS_EmptySet
  <2>2. \A p \in VmPools : totalVms[p] \in Nat
    BY <1>1
  <2> QED BY <1>2, <2>1, <2>2 DEF VmCounted
<1>7. VmAwake
  BY <1>3 DEF Sleepers, At, VmAwake
<1>8. VmContexts
  BY <1>0, <1>1, <1>3 DEF VmContexts
<1> QED BY <1>4, <1>5, <1>6, <1>7, <1>8 DEF VmInv

\* What the invariant says of the pools.
LEMMA VmInvSound ==
  ASSUME VmInv
  PROVE  NoVmLost /\ ContextOwned
<1>0. VmShape /\ VmTyped /\ VmOwned /\ VmCounted /\ VmAwake /\ VmContexts
  BY DEF VmInv, VmShape
<1>1. ASSUME NEW t \in VmThreads, NEW p \in VmPools PROVE VmsOf(t) \cap idleVms[p] = {}
  <2>1. Len(vmStack[t]) \in 0..2 /\ vmStack[t] \in Seq(VmFrame) /\ DOMAIN vmStack[t] = 1..Len(vmStack[t])
    BY <1>0 DEF VmShape, StackShape, VmTyped
  <2>2. ASSUME NEW i \in DOMAIN vmStack[t] PROVE vmStack[t][i].vm \notin idleVms[p]
    <3>1. i \in 1..Len(vmStack[t])
      BY <2>1
    <3>2. i \in {1, 2}
      <4>1. \A n \in 0..2 : \A k \in 1..n : k \in {1, 2}
        OBVIOUS
      <4> QED BY <2>1, <3>1, <4>1
    <3>3. VmAt(t, i) = vmStack[t][i].vm
      BY <3>1 DEF VmAt
    <3> QED BY <1>0, <3>2, <3>3 DEF VmOwned
  <2> QED BY <2>2 DEF VmsOf
<1>2. NoVmLost
  BY <1>0, <1>1 DEF NoVmLost, VmCounted, VmAwake
<1>3. ASSUME NEW t \in VmThreads, At(t, "run"), ~Top(t).tainted
      PROVE  Context(t) = IF Depth(Top(t)) > 1 THEN Uniform(Depth(Top(t))) ELSE Installed(Top(t).kind)
  BY <1>0, <1>3, TopTyped DEF At, VmContexts, FrameRight, ContextAt, Context
<1> QED BY <1>0, <1>2, <1>3 DEF ContextOwned, VmContexts


\* The invariant of the whole engine instance, as far as the VM pools go.
PoolsInv == part = "vms" => VmInv

\* LuaVmPool, LuaVmLease and the two scope guards, for any number of threads,
\* any sizes of the pools and any depth of vulcan.call: total_count counts
\* exactly the idle VMs and the leases and stays within max_size, a VM has one
\* place, no thread sleeps while something is spare that no woken thread comes
\* for, an idle VM holds nothing of a request, and Lua that was not told of a
\* failed restore runs in the context of its own call.
THEOREM VmsAlwaysSound == EngineSpec => []VmsSound
<1>1. EngineInit => PoolsInv
  BY VmStart DEF EngineInit, PoolsInv
<1>2. PoolsInv /\ [EngineNext]_engineHostVars => PoolsInv'
  BY VmStep, VmStutter DEF PoolsInv, EngineNext, engineHostVars
<1>3. PoolsInv => VmsSound
  BY VmInvSound DEF PoolsInv, VmsSound
<1> QED BY <1>1, <1>2, <1>3, PTL DEF EngineSpec


-----------------------------------------------------------------------------
(* The runtime leases.                                                     *)

LeaseRecord == [sid : Sids \cup {"none"}, gen : Nat, terminal : {"active", "closed", "expired", "replaced"},
                finite : BOOLEAN, expired : BOOLEAN]
LeaseCaller == [pc : {"idle", "commit", "drain", "drain_lookup", "locate", "eval"}, id : 0..MaxLeaseIds,
                sid : Sids \cup {"none"}]

LeaseTyped ==
  /\ nextLease \in 0..MaxLeaseIds
  /\ leases \subseteq 1..nextLease /\ tombstones \subseteq 1..nextLease
  /\ retiredOwners \subseteq 1..nextLease /\ appliedOwners \subseteq 1..nextLease
  /\ openSessions \subseteq 1..nextLease
  /\ lease \in [LeaseIds -> LeaseRecord]
  /\ sidIndex \in [Sids -> 0..nextLease]
  /\ generations \in [Sids -> Nat]
  /\ sessionLock \in [LeaseIds -> Callers \cup {"free"}]
  /\ managerLock \in Callers \cup {"free"}
  /\ caller \in [Callers -> LeaseCaller]

\* The index and the active leases point at each other.
LeaseIndexed ==
  /\ \A l \in leases : /\ lease[l].sid \in Sids /\ sidIndex[lease[l].sid] = l
                       /\ lease[l].gen = generations[lease[l].sid]
                       /\ lease[l].terminal = "active"
  /\ \A s \in Sids : sidIndex[s] # 0 => sidIndex[s] \in leases /\ lease[sidIndex[s]].sid = s

\* A lease is active, or its owner is queued, or its owner was retired.
LeaseRetired ==
  /\ retiredOwners \cap appliedOwners = {}
  /\ (1..nextLease) \ leases = retiredOwners \cup appliedOwners
  /\ tombstones \cap leases = {}
  /\ \A l \in (1..nextLease) \ leases : lease[l].terminal # "active"
  /\ Cardinality(leases) <= LeaseLimit

\* What a caller between two locks knows.
CallerRight(c) ==
  /\ caller[c].pc \in {"drain_lookup", "locate", "eval"} => caller[c].id \in 1..nextLease
  /\ caller[c].pc = "eval" =>
       /\ sessionLock[caller[c].id] = c
       /\ caller[c].id \in leases \/ lease[caller[c].id].terminal = "replaced"
  /\ caller[c].pc = "commit" =>
       /\ managerLock = c /\ nextLease < MaxLeaseIds
       /\ caller[c].sid \in Sids /\ caller[c].id = sidIndex[caller[c].sid]
       /\ caller[c].id = 0 => Cardinality(leases) < LeaseLimit

LeaseOpen == \A l \in openSessions \cap appliedOwners : \E c \in Callers : Referenced(c, l)

LeaseTables == LeaseTyped /\ LeaseIndexed /\ LeaseRetired
LeaseInv == LeaseTables /\ (\A c \in Callers : CallerRight(c)) /\ LeaseOpen

LEMMA LeasesFinite ==
  ASSUME LeaseTyped
  PROVE  IsFiniteSet(leases) /\ Cardinality(leases) \in Nat
<1>1. IsFiniteSet(1..nextLease)
  BY FS_Interval DEF LeaseTyped
<1> QED BY <1>1, FS_Subset, FS_CardinalityType DEF LeaseTyped

\* retire_active_lease_locked, with the pruning before it.
LEMMA RetireTables ==
  ASSUME LeaseTables, NEW gone \in SUBSET leases, NEW code \in {"active", "closed"}, gone # {} => code # "active",
         Retire(gone, code), caller' \in [Callers -> LeaseCaller], managerLock' \in Callers \cup {"free"},
         UNCHANGED <<generations, nextLease, appliedOwners, sessionLock>>
  PROVE  /\ LeaseTables'
         /\ leases' = leases \ (gone \cup Prunable)
         /\ \A l \in LeaseIds \ (gone \cup Prunable) : lease'[l] = lease[l]
         /\ \A s \in Sids : sidIndex'[s] = IF sidIndex[s] \in gone \cup Prunable THEN 0 ELSE sidIndex[s]
         /\ \A l \in openSessions' : l \in leases' \/ \E c \in Callers : Referenced(c, l)'
<1> DEFINE out == gone \cup Prunable
<1>0. LeaseTyped /\ LeaseIndexed /\ LeaseRetired
  BY DEF LeaseTables
<1>1. out \subseteq leases /\ leases \subseteq 1..nextLease /\ 1..nextLease \subseteq LeaseIds /\ nextLease \in Nat
  <2>1. nextLease \in 0..MaxLeaseIds /\ MaxLeaseIds \in Nat /\ leases \subseteq 1..nextLease
    BY <1>0, LeaseAssumption DEF LeaseTyped
  <2>2. 1..nextLease \subseteq LeaseIds /\ nextLease \in Nat
    BY <2>1 DEF LeaseIds
  <2> QED BY <2>1, <2>2 DEF Prunable
<1>2. /\ leases' = leases \ out /\ retiredOwners' = retiredOwners \cup out
      /\ sidIndex' = [s \in Sids |-> IF sidIndex[s] \in out THEN 0 ELSE sidIndex[s]]
      /\ tombstones' \subseteq tombstones \cup out
      /\ openSessions' = {l \in openSessions : l \in leases' \/ \E c \in Callers : Referenced(c, l)'}
  BY DEF Retire, Surviving
<1>3. /\ lease' \in [LeaseIds -> LeaseRecord]
      /\ \A l \in LeaseIds \ out : lease'[l] = lease[l]
      /\ \A l \in out : /\ lease'[l].terminal # "active" /\ lease'[l].sid = lease[l].sid
  BY <1>0, <1>1 DEF Retire, LeaseTyped, LeaseRecord
<1> HIDE DEF out
<1>4. LeaseTyped'
  <2>1. sidIndex' \in [Sids -> 0..nextLease']
    BY <1>0, <1>1, <1>2 DEF LeaseTyped
  <2>2. /\ leases' \subseteq 1..nextLease' /\ tombstones' \subseteq 1..nextLease' /\ retiredOwners' \subseteq 1..nextLease'
        /\ openSessions' \subseteq 1..nextLease'
    BY <1>0, <1>1, <1>2 DEF LeaseTyped
  <2> QED BY <1>0, <1>3, <2>1, <2>2 DEF LeaseTyped
<1>5. LeaseIndexed'
  <2>1. ASSUME NEW l \in leases'
        PROVE  /\ lease'[l].sid \in Sids /\ sidIndex'[lease'[l].sid] = l
               /\ lease'[l].gen = generations'[lease'[l].sid] /\ lease'[l].terminal = "active"
    BY <1>0, <1>1, <1>2, <1>3 DEF LeaseIndexed
  <2>2. ASSUME NEW s \in Sids, sidIndex'[s] # 0 PROVE sidIndex'[s] \in leases' /\ lease'[sidIndex'[s]].sid = s
    BY <1>0, <1>1, <1>2, <1>3, <2>2 DEF LeaseIndexed
  <2> QED BY <2>1, <2>2 DEF LeaseIndexed
<1>6. LeaseRetired'
  <2>1. Cardinality(leases') <= LeaseLimit
    BY <1>0, <1>2, LeasesFinite, FS_Subset, FS_CardinalityType, LeaseAssumption DEF LeaseRetired
  <2>2. \A l \in (1..nextLease') \ leases' : lease'[l].terminal # "active"
    BY <1>0, <1>1, <1>2, <1>3 DEF LeaseRetired
  <2> QED BY <1>0, <1>1, <1>2, <2>1, <2>2 DEF LeaseRetired
<1> QED BY <1>1, <1>2, <1>3, <1>4, <1>5, <1>6 DEF LeaseTables, out

\* The callers under way do not notice a retirement: their lease is locked.
LEMMA RetireCallers ==
  ASSUME LeaseInv, NEW c \in Callers, Free(c), NEW gone \in SUBSET leases, \A l \in gone : Unlocked(l),
         NEW code \in {"active", "closed"}, gone # {} => code # "active",
         Retire(gone, code), managerLock' \in Callers \cup {"free"},
         NEW r \in LeaseCaller, caller' = [caller EXCEPT ![c] = r],
         UNCHANGED <<generations, nextLease, appliedOwners, sessionLock>>,
         CallerRight(c)'
  PROVE  LeaseInv'
<1>0. LeaseTables /\ LeaseTyped /\ LeaseRetired
  BY DEF LeaseInv, LeaseTables
<1>1. caller' \in [Callers -> LeaseCaller] /\ \A d \in Callers \ {c} : caller'[d] = caller[d]
  BY <1>0 DEF LeaseTyped
<1>2. /\ LeaseTables'
      /\ leases' = leases \ (gone \cup Prunable)
      /\ \A l \in LeaseIds \ (gone \cup Prunable) : lease'[l] = lease[l]
      /\ \A l \in openSessions' : l \in leases' \/ \E d \in Callers : Referenced(d, l)'
  BY <1>0, <1>1, RetireTables
<1>3. ASSUME NEW d \in Callers \ {c} PROVE CallerRight(d)'
  BY <1>0, <1>1, <1>2, LeaseAssumption DEF LeaseInv, LeaseTyped, CallerRight, Free, Unlocked, LeaseIds, Prunable
<1>4. LeaseOpen'
  BY <1>0, <1>2 DEF LeaseRetired, LeaseOpen
<1> QED BY <1>2, <1>3, <1>4 DEF LeaseInv


LEMMA RetiringMoves ==
  ASSUME LeaseInv, NEW c \in Callers,
         \/ \E s \in Sids, replace \in BOOLEAN : InsertRefused(c, s, replace)
         \/ \E l \in LeaseIds : close(c, l)
         \/ Query(c)
  PROVE  LeaseInv'
<1>1. PICK gone \in SUBSET leases, code \in {"active", "closed"} :
        /\ Free(c) /\ (gone # {} => code # "active") /\ \A l \in gone : Unlocked(l)
        /\ Retire(gone, code) /\ Goto(c, "drain")
        /\ UNCHANGED <<generations, nextLease, appliedOwners, sessionLock, managerLock>>
  <2>1. CASE \E l \in LeaseIds : close(c, l)
    BY <2>1 DEF close
  <2>2. CASE Query(c) \/ \E s \in Sids, replace \in BOOLEAN : InsertRefused(c, s, replace)
    BY <2>2 DEF Query, InsertRefused
  <2> QED BY <2>1, <2>2
<1>2. LeaseTyped /\ caller[c] \in LeaseCaller
  BY DEF LeaseInv, LeaseTables, LeaseTyped
<1>3. PICK r \in LeaseCaller : r = [caller[c] EXCEPT !.pc = "drain"] /\ r.pc = "drain"
  <2>1. [caller[c] EXCEPT !.pc = "drain"] \in LeaseCaller /\ [caller[c] EXCEPT !.pc = "drain"].pc = "drain"
    BY <1>2 DEF LeaseCaller
  <2> QED BY <2>1
<1>4. caller' = [caller EXCEPT ![c] = r] /\ caller'[c] = r
  BY <1>1, <1>2, <1>3 DEF Goto, LeaseTyped
<1>5. CallerRight(c)' /\ managerLock' \in Callers \cup {"free"}
  BY <1>1, <1>2, <1>3, <1>4 DEF CallerRight, LeaseTyped
<1> QED BY <1>1, <1>4, <1>5, RetireCallers

LEMMA GetMoves ==
  ASSUME LeaseInv, NEW c \in Callers, NEW l \in LeaseIds, get(c, l)
  PROVE  LeaseInv'
<1>1. LeaseTyped /\ Free(c) /\ {} \in SUBSET leases /\ (\A x \in {} : Unlocked(x)) /\ Retire({}, "active") /\ l \in 1..nextLease
  BY DEF get, LeaseInv, LeaseTables, LeaseTyped
<1>2. PICK r \in LeaseCaller : r = [IdleCaller EXCEPT !.pc = "drain_lookup", !.id = l] /\ r.pc = "drain_lookup" /\ r.id = l
  <2>1. l \in 0..MaxLeaseIds
    BY LeaseAssumption DEF LeaseIds
  <2>2. IdleCaller \in LeaseCaller
    BY LeaseAssumption DEF IdleCaller, LeaseCaller
  <2>3. /\ [IdleCaller EXCEPT !.pc = "drain_lookup", !.id = l] \in LeaseCaller
        /\ [IdleCaller EXCEPT !.pc = "drain_lookup", !.id = l].pc = "drain_lookup"
        /\ [IdleCaller EXCEPT !.pc = "drain_lookup", !.id = l].id = l
    BY <2>1, <2>2 DEF LeaseCaller
  <2> QED BY <2>3
<1>3. caller' = [caller EXCEPT ![c] = r] /\ caller'[c] = r /\ UNCHANGED <<generations, nextLease, appliedOwners, sessionLock, managerLock>>
  BY <1>1, <1>2 DEF get, LeaseTyped
<1>4. CallerRight(c)' /\ managerLock' \in Callers \cup {"free"}
  BY <1>1, <1>2, <1>3 DEF CallerRight, LeaseTyped
<1> QED BY <1>1, <1>3, <1>4, RetireCallers

LEMMA CheckMoves ==
  ASSUME LeaseInv, NEW c \in Callers, NEW s \in Sids, NEW replace \in BOOLEAN, InsertCheck(c, s, replace)
  PROVE  LeaseInv'
<1>1. /\ LeaseTyped /\ Free(c) /\ {} \in SUBSET leases /\ (\A x \in {} : Unlocked(x)) /\ Retire({}, "active")
      /\ nextLease < MaxLeaseIds /\ managerLock' = c
      /\ UNCHANGED <<generations, nextLease, appliedOwners, sessionLock>>
  BY DEF InsertCheck, LeaseInv, LeaseTables
<1>2. PICK e : e = Existing(s)
  OBVIOUS
<1>3. e = 0 => Cardinality(leases \ Prunable) < LeaseLimit
  BY <1>2 DEF InsertCheck
<1>4. leases' = leases \ Prunable /\ sidIndex'[s] = e
  BY <1>1, <1>2 DEF Retire, Existing
<1>5. PICK r \in LeaseCaller : r = [pc |-> "commit", id |-> e, sid |-> s]
  <2>1. e \in 0..MaxLeaseIds
    BY <1>1, <1>2, LeaseAssumption DEF LeaseTyped, Existing
  <2> QED BY <2>1 DEF LeaseCaller
<1>6. caller' = [caller EXCEPT ![c] = r] /\ caller'[c] = r
  BY <1>1, <1>2, <1>5 DEF InsertCheck, LeaseTyped
<1>7. e = 0 => Cardinality(leases') < LeaseLimit
  BY <1>3, <1>4, Zenon
<1>8. CallerRight(c)'
  BY <1>1, <1>4, <1>5, <1>6, <1>7 DEF CallerRight
<1> QED BY <1>1, <1>6, <1>8, RetireCallers

\* The steps that touch neither the tables nor the fate of a lease.
LEMMA QuietTables ==
  ASSUME LeaseTables, UNCHANGED <<leases, sidIndex, generations, tombstones, nextLease, managerLock>>,
         lease' \in [LeaseIds -> LeaseRecord],
         \A l \in LeaseIds : lease'[l].sid = lease[l].sid /\ lease'[l].gen = lease[l].gen /\ lease'[l].terminal = lease[l].terminal,
         sessionLock' \in [LeaseIds -> Callers \cup {"free"}], caller' \in [Callers -> LeaseCaller],
         openSessions' \subseteq 1..nextLease, retiredOwners' \cap appliedOwners' = {},
         retiredOwners' \cup appliedOwners' = retiredOwners \cup appliedOwners
  PROVE  LeaseTables'
<1>0. LeaseTyped /\ LeaseIndexed /\ LeaseRetired
  BY DEF LeaseTables
<1>1. leases \subseteq LeaseIds /\ 1..nextLease \subseteq LeaseIds
  BY <1>0, LeaseAssumption DEF LeaseTyped, LeaseIds
<1>2. LeaseTyped'
  BY <1>0 DEF LeaseTyped
<1>3. LeaseIndexed'
  BY <1>0, <1>1 DEF LeaseIndexed
<1>4. LeaseRetired'
  BY <1>0, <1>1 DEF LeaseRetired
<1> QED BY <1>2, <1>3, <1>4 DEF LeaseTables

LEMMA QuietCallers ==
  ASSUME LeaseInv, NEW c \in Callers, LeaseTables', \A d \in Callers \ {c} : caller'[d] = caller[d],
         UNCHANGED <<leases, sidIndex, nextLease, managerLock>>,
         \A l \in LeaseIds : lease'[l].terminal = lease[l].terminal,
         \A l \in LeaseIds : sessionLock[l] \in Callers \ {c} => sessionLock'[l] = sessionLock[l],
         CallerRight(c)', LeaseOpen'
  PROVE  LeaseInv'
<1>1. ASSUME NEW d \in Callers \ {c} PROVE CallerRight(d)'
  <2>1. CallerRight(d) /\ caller'[d] = caller[d] /\ LeaseTyped
    BY DEF LeaseInv, LeaseTables
  <2>2. 1..nextLease \subseteq LeaseIds
    BY <2>1, LeaseAssumption DEF LeaseTyped, LeaseIds
  <2>3. caller[d].pc = "commit" /\ caller[d].id = 0 => Cardinality(leases') < LeaseLimit
    BY <2>1, Zenon DEF CallerRight
  <2> QED BY <2>1, <2>2, <2>3 DEF CallerRight
<1> QED BY <1>1 DEF LeaseInv

LEMMA TakeMoves ==
  ASSUME LeaseInv, NEW c \in Callers, NEW then \in {"idle", "locate"}, TakeRetiredOwners(c, then)
  PROVE  LeaseInv'
BY QuietTables, QuietCallers DEF LeaseInv, LeaseTables, LeaseTyped, TakeRetiredOwners, Goto, LeaseCaller, CallerRight,
   LeaseOpen, Referenced

LEMMA SurvivingOpen ==
  ASSUME LeaseRetired', openSessions' \subseteq {l \in openSessions : l \in leases' \/ \E c \in Callers : Referenced(c, l)'}
  PROVE  LeaseOpen'
BY DEF LeaseOpen, LeaseRetired

LEMMA EvalBeginMoves ==
  ASSUME LeaseInv, NEW c \in Callers, EvalBegin(c)
  PROVE  LeaseInv'
<1>0. LeaseTables /\ LeaseTyped /\ LeaseRetired /\ CallerRight(c) /\ caller[c] \in LeaseCaller
  BY DEF LeaseInv, LeaseTables, LeaseTyped
<1>1. PICK l : l = caller[c].id
  OBVIOUS
<1>2. /\ caller[c].pc = "locate" /\ l \in 1..nextLease
      /\ UNCHANGED <<leases, lease, sidIndex, generations, tombstones, nextLease, retiredOwners, appliedOwners, managerLock>>
      /\ openSessions' = {x \in openSessions : x \in leases' \/ \E d \in Callers : Referenced(d, x)'}
      /\ \/ Unlocked(l) /\ StillActive(l) /\ sessionLock' = [sessionLock EXCEPT ![l] = c] /\ caller' = [caller EXCEPT ![c].pc = "eval"]
         \/ sessionLock' = sessionLock /\ caller' = [caller EXCEPT ![c] = IdleCaller]
  BY <1>0, <1>1 DEF EvalBegin, CallerRight, Goto, Back, Surviving
<1>3. l \in LeaseIds
  BY <1>0, <1>2, LeaseAssumption DEF LeaseTyped, LeaseIds
<1>4. /\ caller' \in [Callers -> LeaseCaller] /\ sessionLock' \in [LeaseIds -> Callers \cup {"free"}]
      /\ \A d \in Callers \ {c} : caller'[d] = caller[d]
      /\ \A x \in LeaseIds : sessionLock[x] \in Callers \ {c} => sessionLock'[x] = sessionLock[x]
  BY <1>0, <1>2, <1>3, LeaseAssumption DEF IdleCaller, LeaseCaller, LeaseTyped, Unlocked
<1>5. LeaseTables'
  BY <1>0, <1>2, <1>4, QuietTables DEF LeaseTyped, LeaseRetired
<1>6. CallerRight(c)'
  BY <1>0, <1>1, <1>2, <1>3 DEF LeaseTyped, LeaseCaller, StillActive, Inactive, LeaseRetired, CallerRight, IdleCaller
<1>7. LeaseOpen'
  BY <1>2, <1>5, SurvivingOpen DEF LeaseTables
<1> QED BY <1>2, <1>4, <1>5, <1>6, <1>7, QuietCallers

LEMMA OpenMoves ==
  ASSUME LeaseInv, NEW c \in Callers, OpenSession(c)
  PROVE  LeaseInv'
<1>0. LeaseTables /\ LeaseTyped /\ LeaseRetired /\ CallerRight(c) /\ LeaseOpen
  BY DEF LeaseInv, LeaseTables
<1>1. /\ caller[c].pc = "eval" /\ caller[c].id \in 1..nextLease /\ openSessions' = openSessions \cup {caller[c].id}
      /\ UNCHANGED <<leases, lease, sidIndex, generations, tombstones, nextLease, retiredOwners,
                     appliedOwners, sessionLock, managerLock, caller>>
  BY <1>0 DEF OpenSession, CallerRight
<1>2. LeaseTables'
  BY <1>0, <1>1, QuietTables DEF LeaseTyped, LeaseRetired
<1>3. CallerRight(c)'
  BY <1>0, <1>1 DEF CallerRight
<1>4. LeaseOpen'
  BY <1>0, <1>1 DEF LeaseOpen, Referenced
<1> QED BY <1>1, <1>2, <1>3, <1>4, QuietCallers


LEMMA EvalEndMoves ==
  ASSUME LeaseInv, NEW c \in Callers, EvalEnd(c)
  PROVE  LeaseInv'
<1>0. LeaseTables /\ LeaseTyped /\ LeaseRetired /\ CallerRight(c)
  BY DEF LeaseInv, LeaseTables
<1>1. PICK l : l = caller[c].id
  OBVIOUS
<1>2. /\ caller[c].pc = "eval" /\ l \in 1..nextLease /\ sessionLock[l] = c
      /\ UNCHANGED <<leases, sidIndex, generations, tombstones, nextLease, retiredOwners, appliedOwners, managerLock>>
      /\ lease' = [lease EXCEPT ![l].expired = FALSE] \/ lease' = lease
      /\ openSessions' \subseteq {x \in openSessions : x \in leases' \/ \E d \in Callers : Referenced(d, x)'}
      /\ sessionLock' = [sessionLock EXCEPT ![l] = "free"] /\ caller' = [caller EXCEPT ![c] = IdleCaller]
  BY <1>0, <1>1 DEF EvalEnd, CallerRight, Back, Surviving
<1>3. l \in LeaseIds
  BY <1>0, <1>2, LeaseAssumption DEF LeaseTyped, LeaseIds
<1>4. /\ caller' \in [Callers -> LeaseCaller] /\ sessionLock' \in [LeaseIds -> Callers \cup {"free"}]
      /\ \A d \in Callers \ {c} : caller'[d] = caller[d]
      /\ \A x \in LeaseIds : sessionLock[x] \in Callers \ {c} => sessionLock'[x] = sessionLock[x]
  BY <1>0, <1>2, <1>3, LeaseAssumption DEF IdleCaller, LeaseCaller, LeaseTyped
<1>5. /\ lease' \in [LeaseIds -> LeaseRecord]
      /\ \A x \in LeaseIds : lease'[x].sid = lease[x].sid /\ lease'[x].gen = lease[x].gen /\ lease'[x].terminal = lease[x].terminal
  <2>1. CASE lease' = [lease EXCEPT ![l].expired = FALSE]
    BY <1>0, <2>1, <1>3 DEF LeaseTyped, LeaseRecord
  <2>2. CASE lease' = lease
    BY <1>0, <2>2 DEF LeaseTyped
  <2> QED BY <1>2, <2>1, <2>2
<1>6. LeaseTables'
  BY <1>0, <1>2, <1>4, <1>5, QuietTables DEF LeaseTyped, LeaseRetired
<1>7. CallerRight(c)'
  BY <1>0, <1>2 DEF LeaseTyped, CallerRight, IdleCaller
<1>8. LeaseOpen'
  BY <1>2, <1>6, SurvivingOpen DEF LeaseTables
<1> QED BY <1>2, <1>4, <1>5, <1>6, <1>7, <1>8, QuietCallers

LEMMA ExpireMoves ==
  ASSUME LeaseInv, NEW l \in LeaseIds, Expire(l)
  PROVE  LeaseInv'
<1>0. LeaseTables /\ LeaseTyped /\ LeaseRetired
  BY DEF LeaseInv, LeaseTables
<1>1. /\ lease' = [lease EXCEPT ![l].expired = TRUE]
      /\ UNCHANGED <<leases, sidIndex, generations, tombstones, nextLease, retiredOwners,
                     appliedOwners, sessionLock, managerLock, caller, openSessions>>
  BY DEF Expire
<1>2. /\ lease' \in [LeaseIds -> LeaseRecord]
      /\ \A x \in LeaseIds : lease'[x].sid = lease[x].sid /\ lease'[x].gen = lease[x].gen /\ lease'[x].terminal = lease[x].terminal
  BY <1>0, <1>1 DEF LeaseTyped, LeaseRecord
<1>3. LeaseTables'
  BY <1>0, <1>1, <1>2, QuietTables DEF LeaseTyped, LeaseRetired
<1>4. LeaseOpen'
  BY <1>1 DEF LeaseInv, LeaseOpen, Referenced
<1>5. \A c \in Callers : CallerRight(c)'
  BY <1>0, <1>1, <1>2, LeaseAssumption DEF LeaseTyped, LeaseIds, LeaseInv, CallerRight
<1> QED BY <1>3, <1>4, <1>5 DEF LeaseInv

\* The infallible tail of insert: the old lease of the sid leaves the tables
\* and the new one enters them, under the state lock.
CommitStep(c, s, old, l, finite) ==
  /\ caller[c].pc = "commit" /\ s = caller[c].sid /\ l = nextLease + 1
  /\ old = IF caller[c].id = 0 THEN {} ELSE {caller[c].id}
  /\ nextLease' = l /\ generations' = [generations EXCEPT ![s] = @ + 1] /\ leases' = (leases \ old) \cup {l}
  /\ lease' = [i \in LeaseIds |->
       IF i = l THEN [sid |-> s, gen |-> generations[s] + 1, terminal |-> "active",
                      finite |-> finite, expired |-> FALSE]
       ELSE IF i \in old THEN [lease[i] EXCEPT !.terminal = "replaced"] ELSE lease[i]]
  /\ retiredOwners' = retiredOwners \cup old /\ tombstones' = tombstones \cup old
  /\ sidIndex' = [sidIndex EXCEPT ![s] = l] /\ managerLock' = "free" /\ Goto(c, "drain")
  /\ openSessions' = Surviving(openSessions) /\ UNCHANGED <<appliedOwners, sessionLock>>

LEMMA CommitTables ==
  ASSUME LeaseInv, NEW c \in Callers, NEW s, NEW old, NEW l, NEW finite \in BOOLEAN, CommitStep(c, s, old, l, finite)
  PROVE  LeaseInv'
<1> USE DEF CommitStep
<1>0. LeaseTables /\ LeaseTyped /\ LeaseIndexed /\ LeaseRetired /\ CallerRight(c) /\ caller[c] \in LeaseCaller
  BY DEF LeaseInv, LeaseTables, LeaseTyped
<1>1. /\ managerLock = c /\ nextLease < MaxLeaseIds /\ s \in Sids /\ caller[c].id = sidIndex[s]
      /\ caller[c].id = 0 => Cardinality(leases) < LeaseLimit
  BY <1>0 DEF CallerRight
<1>2. /\ nextLease \in Nat /\ l \in LeaseIds /\ l \in 0..MaxLeaseIds /\ l \notin 1..nextLease /\ l # 0
      /\ 1..l = (1..nextLease) \cup {l} /\ 0..nextLease \subseteq 0..l /\ l \in 0..l /\ l \in Nat
      /\ 1..nextLease \subseteq LeaseIds
  BY <1>0, <1>1, LeaseAssumption DEF LeaseTyped, LeaseIds
<1>3. /\ old \subseteq leases /\ old \subseteq {sidIndex[s]} /\ l \notin old
      /\ \A x \in leases : x \in old <=> lease[x].sid = s
  BY <1>0, <1>1, <1>2 DEF LeaseTyped, LeaseIndexed
<1>4. /\ lease' \in [LeaseIds -> LeaseRecord] /\ lease'[l].sid = s /\ lease'[l].gen = generations[s] + 1
      /\ lease'[l].terminal = "active"
      /\ \A x \in LeaseIds \ ({l} \cup old) : lease'[x] = lease[x]
      /\ \A x \in old : lease'[x].terminal = "replaced"
  <2>1. ASSUME NEW x \in LeaseIds PROVE lease'[x] \in LeaseRecord /\ (x \in old => lease'[x].terminal = "replaced")
    BY <1>0, <1>1, <1>3 DEF LeaseTyped, LeaseRecord
  <2>2. lease' = [x \in LeaseIds |-> lease'[x]]
    OBVIOUS
  <2>3. old \subseteq LeaseIds
    BY <1>0, <1>2, <1>3 DEF LeaseTyped
  <2> QED BY <1>2, <2>1, <2>2, <2>3
<1>5. /\ caller' \in [Callers -> LeaseCaller] /\ caller'[c].pc = "drain"
      /\ \A d \in Callers \ {c} : caller'[d] = caller[d]
  BY <1>0 DEF Goto, LeaseTyped, LeaseCaller
<1>6. openSessions' = {x \in openSessions : x \in leases' \/ \E d \in Callers : Referenced(d, x)'}
  BY DEF Surviving
<1>7. LeaseTyped'
  <2>1. generations' \in [Sids -> Nat] /\ sidIndex' \in [Sids -> 0..nextLease']
    BY <1>0, <1>1, <1>2 DEF LeaseTyped
  <2>2. /\ leases' \subseteq 1..nextLease' /\ tombstones' \subseteq 1..nextLease' /\ retiredOwners' \subseteq 1..nextLease'
        /\ appliedOwners' \subseteq 1..nextLease' /\ openSessions' \subseteq 1..nextLease'
    BY <1>0, <1>2, <1>3, <1>6 DEF LeaseTyped
  <2> QED BY <1>0, <1>2, <1>4, <1>5, <2>1, <2>2 DEF LeaseTyped
<1>8. LeaseIndexed'
  <2>1. ASSUME NEW x \in leases'
        PROVE  /\ lease'[x].sid \in Sids /\ sidIndex'[lease'[x].sid] = x
               /\ lease'[x].gen = generations'[lease'[x].sid] /\ lease'[x].terminal = "active"
    <3>1. CASE x = l
      BY <1>0, <1>1, <1>4, <3>1 DEF LeaseTyped
    <3>2. CASE x # l
      BY <1>0, <1>1, <1>2, <1>3, <1>4, <3>2 DEF LeaseTyped, LeaseIndexed
    <3> QED BY <3>1, <3>2
  <2>2. ASSUME NEW t \in Sids, sidIndex'[t] # 0 PROVE sidIndex'[t] \in leases' /\ lease'[sidIndex'[t]].sid = t
    BY <1>0, <1>1, <1>2, <1>3, <1>4, <2>2 DEF LeaseTyped, LeaseIndexed
  <2> QED BY <2>1, <2>2 DEF LeaseIndexed
<1>9. LeaseRetired'
  <2>1. Cardinality(leases') <= LeaseLimit
    <3>1. IsFiniteSet(leases) /\ Cardinality(leases) \in Nat /\ l \notin leases
      BY <1>0, <1>2, LeasesFinite DEF LeaseTyped
    <3>2. CASE caller[c].id = 0
      <4>1. leases \ old = leases
        BY <3>2
      <4>2. Cardinality(leases \cup {l}) = Cardinality(leases) + 1
        BY <3>1, FS_AddElement
      <4>3. Cardinality(leases') = Cardinality(leases) + 1
        BY <4>1, <4>2, Zenon
      <4> QED BY <1>1, <3>1, <3>2, <4>3, LeaseAssumption
    <3>3. CASE caller[c].id # 0
      <4>1. caller[c].id \in leases /\ old = {caller[c].id}
        BY <1>3, <3>3
      <4>2. Cardinality(leases \ {caller[c].id}) = Cardinality(leases) - 1 /\ IsFiniteSet(leases \ {caller[c].id})
        BY <3>1, <4>1, FS_RemoveElement
      <4>3. Cardinality((leases \ {caller[c].id}) \cup {l}) = Cardinality(leases \ {caller[c].id}) + 1
        BY <3>1, <4>2, FS_AddElement
      <4>4. Cardinality(leases') = Cardinality((leases \ {caller[c].id}) \cup {l})
        BY <4>1, Zenon
      <4> QED BY <1>0, <3>1, <4>2, <4>3, <4>4, LeaseAssumption DEF LeaseRetired
    <3> QED BY <3>2, <3>3
  <2>2. (1..nextLease') \ leases' = retiredOwners' \cup appliedOwners'
    BY <1>0, <1>2, <1>3 DEF LeaseRetired, LeaseTyped
  <2>3. retiredOwners' \cap appliedOwners' = {} /\ tombstones' \cap leases' = {}
    BY <1>0, <1>2, <1>3 DEF LeaseRetired, LeaseTyped
  <2>4. \A x \in (1..nextLease') \ leases' : lease'[x].terminal # "active"
    BY <1>0, <1>2, <1>4 DEF LeaseRetired
  <2> QED BY <2>1, <2>2, <2>3, <2>4 DEF LeaseRetired
<1>10. ASSUME NEW d \in Callers PROVE CallerRight(d)'
  BY <1>1, <1>2, <1>4, <1>5 DEF CallerRight, LeaseInv
<1>11. LeaseOpen'
  BY <1>6, <1>9, SurvivingOpen
<1> QED BY <1>7, <1>8, <1>9, <1>10, <1>11 DEF LeaseInv, LeaseTables

LEMMA LeaseStep ==
  ASSUME LeaseInv, LeaseNext
  PROVE  LeaseInv'
<1>1. CASE \E c \in Callers, s \in Sids, replace \in BOOLEAN : InsertRefused(c, s, replace) \/ InsertCheck(c, s, replace)
  BY <1>1, RetiringMoves, CheckMoves
<1>2. CASE \E c \in Callers, l \in LeaseIds : close(c, l) \/ get(c, l)
  BY <1>2, RetiringMoves, GetMoves
<1>3. CASE \E c \in Callers : InsertCommit(c)
  <2>1. PICK c \in Callers : InsertCommit(c)
    BY <1>3
  <2>2. \E finite \in BOOLEAN : CommitStep(c, caller[c].sid, IF caller[c].id = 0 THEN {} ELSE {caller[c].id}, nextLease + 1, finite)
    BY <2>1, Zenon DEF InsertCommit, CommitStep
  <2>3. \E s, old, l : \E finite \in BOOLEAN : CommitStep(c, s, old, l, finite)
    BY <2>2
  <2> QED BY <2>3, CommitTables
<1>4. CASE \E c \in Callers : \/ Query(c) \/ EvalBegin(c) \/ OpenSession(c) \/ EvalEnd(c)
                              \/ \E then \in {"idle", "locate"} : TakeRetiredOwners(c, then)
  BY <1>4, RetiringMoves, EvalBeginMoves, OpenMoves, EvalEndMoves, TakeMoves
<1>5. CASE \E l \in LeaseIds : Expire(l)
  BY <1>5, ExpireMoves
<1> QED BY <1>1, <1>2, <1>3, <1>4, <1>5 DEF LeaseNext

LEMMA LeaseStutter ==
  ASSUME LeaseInv, UNCHANGED leaseVars
  PROVE  LeaseInv'
BY DEF leaseVars, LeaseInv, LeaseTables, LeaseTyped, LeaseIndexed, LeaseRetired, LeaseOpen, Referenced, CallerRight

LEMMA LeaseStart ==
  ASSUME LeaseInit
  PROVE  LeaseInv
BY LeaseAssumption, FS_EmptySet DEF LeaseInit, NoLease, LeaseRecord, IdleCaller, LeaseCaller, LeaseTyped,
   LeaseIndexed, LeaseOpen, LeaseRetired, CallerRight, LeaseInv, LeaseTables

LEMMA LeaseInvSound ==
  ASSUME LeaseInv
  PROVE  LeasesAgree
BY DEF LeaseInv, LeaseTables, LeaseTyped, LeaseIndexed, LeaseRetired, LeaseOpen, CallerRight, Evaluating, LeasesAgree


-----------------------------------------------------------------------------
(* The pooled managed workers.                                             *)

OutLine == [kind : {"reply", "garbage", "refused"}, request : Nat]
WorkerRecord == [state : {"none", "held", "idle", "exited", "dead"}, key : WorkerKeys \cup {"none"}, pending : Nat,
                 writes : Nat, out : Seq(OutLine), reader : BOOLEAN, stderr : Nat, faulted : BOOLEAN]
CallRecord == [pc : CallPcs, key : WorkerKeys \cup {"none"}, cell : Nat, w : Workers \cup {0}, request : Nat,
               reply : Nat, discard : BOOLEAN]
BucketRecord == [exists : BOOLEAN, available : SUBSET Workers, total : Nat]

PoolTyped ==
  /\ bucket \in [WorkerKeys -> BucketRecord]
  /\ worker \in [Workers -> WorkerRecord]
  /\ cells \in [WorkerKeys -> Nat]
  /\ invocation \in [Invokers -> CallRecord]
  /\ retiring \in [WorkerKeys -> {"no", "pool", "snapshots", "done"}]
  /\ requests \in Nat
  /\ retiredKeys = {k \in WorkerKeys : retiring[k] # "no"}

\* The books of a key: exact while its owner is active, never short of what
\* the calls will give back until retirement takes the bucket away.
BookRight(k) ==
  /\ ~bucket[k].exists => bucket[k] = NoBucket
  /\ retiring[k] = "no" => bucket[k].total = Cardinality(bucket[k].available) + Cardinality(ChargedCalls(k))
  /\ retiring[k] = "pool" => bucket[k].total >= Cardinality(bucket[k].available) + Cardinality(ChargedCalls(k))
  /\ retiring[k] \in {"snapshots", "done"} => bucket[k] = NoBucket

\* A cell of a retired key is still somebody's, who will forget it.
CellRight(k) ==
  retiring[k] = "done" /\ cells[k] # 0 =>
    \E c \in Invokers : invocation[c].pc = "prepare" /\ invocation[c].key = k /\ invocation[c].cell = cells[k]

\* Nothing is under way in the worker.
Unused(w) == worker[w].pending = 0 /\ worker[w].out = <<>>

\* A worker is idle in the bucket of its key, or held by one call, or gone.
WorkerRight(w) ==
  /\ \A k \in WorkerKeys : w \in bucket[k].available =>
       worker[w].key = k /\ worker[w].state \in {"idle", "exited"} /\ Unused(w)
  /\ \A c \in Invokers : Holds(c, w) =>
       /\ worker[w].key = invocation[c].key /\ worker[w].state \in {"held", "exited"}
       /\ \A k \in WorkerKeys : w \notin bucket[k].available
       /\ \A d \in Invokers : Holds(d, w) => d = c
  /\ worker[w].state \in {"held", "idle", "exited"} =>
       \/ \E k \in WorkerKeys : w \in bucket[k].available
       \/ \E c \in Invokers : Holds(c, w)
  /\ worker[w].state = "none" => Unused(w)

\* What stands in the channel of a worker that serves request r: at most one
\* reply, to that request, or one refused line, as the last thing.
Awaiting(w, r) ==
  /\ worker[w].pending \in {0, r}
  /\ \A i \in 1..Len(worker[w].out) :
       /\ worker[w].out[i].kind = "reply" => worker[w].out[i].request = r
       /\ worker[w].out[i].kind # "garbage" => i = Len(worker[w].out) /\ worker[w].pending = 0

CallRight(c) ==
  /\ invocation[c].pc # "idle" => invocation[c].key \in WorkerKeys
  /\ invocation[c].pc \in {"spawned", "send", "wait", "finish"} => invocation[c].w \in Workers
  /\ invocation[c].pc \in {"spawned", "send"} => Unused(invocation[c].w)
  /\ invocation[c].pc = "finish" /\ ~invocation[c].discard => Unused(invocation[c].w)
  /\ invocation[c].pc = "wait" => Awaiting(invocation[c].w, invocation[c].request)
  /\ invocation[c].reply \in {0, invocation[c].request}
  /\ invocation[c].pc # "finish" => invocation[c].reply = 0

WorkersInv ==
  /\ PoolTyped
  /\ \A k \in WorkerKeys : BookRight(k)
  /\ \A k \in WorkerKeys : CellRight(k)
  /\ \A w \in Workers : WorkerRight(w)
  /\ \A c \in Invokers : CallRight(c)


LEMMA PoolFinite ==
  ASSUME PoolTyped, NEW k \in WorkerKeys
  PROVE  /\ IsFiniteSet(bucket[k].available) /\ Cardinality(bucket[k].available) \in Nat
         /\ IsFiniteSet(ChargedCalls(k)) /\ Cardinality(ChargedCalls(k)) \in Nat
<1>1. IsFiniteSet(Workers) /\ IsFiniteSet(Invokers)
  BY FS_Interval, WorkersAssumption DEF Workers
<1>2. bucket[k].available \subseteq Workers /\ ChargedCalls(k) \subseteq Invokers
  BY DEF PoolTyped, BucketRecord, ChargedCalls
<1> QED BY <1>1, <1>2, FS_Subset, FS_CardinalityType

\* A step of one call moves that call in and out of the charged ones.
LEMMA ChargedMoves ==
  ASSUME PoolTyped, NEW c \in Invokers, \A d \in Invokers \ {c} : invocation'[d] = invocation[d], NEW k \in WorkerKeys
  PROVE  /\ (c \in ChargedCalls(k) <=> c \in ChargedCalls(k)') => Cardinality(ChargedCalls(k)') = Cardinality(ChargedCalls(k))
         /\ c \in ChargedCalls(k) /\ c \notin ChargedCalls(k)' =>
              Cardinality(ChargedCalls(k)') = Cardinality(ChargedCalls(k)) - 1
         /\ c \notin ChargedCalls(k) /\ c \in ChargedCalls(k)' =>
              Cardinality(ChargedCalls(k)') = Cardinality(ChargedCalls(k)) + 1
<1>0. IsFiniteSet(ChargedCalls(k))
  BY PoolFinite
<1>1. \A d \in Invokers \ {c} : d \in ChargedCalls(k)' <=> d \in ChargedCalls(k)
  BY DEF ChargedCalls
<1>2. ChargedCalls(k) \subseteq Invokers /\ ChargedCalls(k)' \subseteq Invokers
  BY DEF ChargedCalls
<1>3. ASSUME c \in ChargedCalls(k) <=> c \in ChargedCalls(k)' PROVE Cardinality(ChargedCalls(k)') = Cardinality(ChargedCalls(k))
  BY <1>1, <1>2, <1>3
<1>4. ASSUME c \in ChargedCalls(k), c \notin ChargedCalls(k)'
      PROVE  Cardinality(ChargedCalls(k)') = Cardinality(ChargedCalls(k)) - 1
  BY <1>0, <1>1, <1>2, <1>4, FS_RemoveElement
<1>5. ASSUME c \notin ChargedCalls(k), c \in ChargedCalls(k)'
      PROVE  Cardinality(ChargedCalls(k)') = Cardinality(ChargedCalls(k)) + 1
  BY <1>0, <1>1, <1>2, <1>5, FS_AddElement
<1> QED BY <1>3, <1>4, <1>5

LEMMA BookKept ==
  ASSUME PoolTyped, NEW c \in Invokers, \A d \in Invokers \ {c} : invocation'[d] = invocation[d], NEW k \in WorkerKeys,
         BookRight(k), bucket'[k] = bucket[k], retiring'[k] = retiring[k], c \in ChargedCalls(k) <=> c \in ChargedCalls(k)'
  PROVE  BookRight(k)'
BY ChargedMoves DEF BookRight

LEMMA CellKept ==
  ASSUME NEW c \in Invokers, \A d \in Invokers \ {c} : invocation'[d] = invocation[d], NEW k \in WorkerKeys, CellRight(k),
         retiring'[k] = retiring[k],
         \/ cells'[k] = 0
         \/ /\ cells'[k] = cells[k]
            /\ ~(invocation[c].pc = "prepare" /\ invocation[c].key = k /\ invocation[c].cell = cells[k])
  PROVE  CellRight(k)'
BY DEF CellRight

\* What the other calls hold is not touched by a step of one call.
LEMMA OtherCalls ==
  ASSUME WorkersInv, NEW c \in Invokers, NEW d \in Invokers \ {c}, invocation'[d] = invocation[d],
         \A v \in Workers : ~Holds(c, v) => worker'[v].pending = worker[v].pending /\ worker'[v].out = worker[v].out
  PROVE  CallRight(d)'
BY DEF WorkersInv, CallRight, WorkerRight, Holds, Unused, Awaiting

LEMMA WorkerKept ==
  ASSUME NEW w \in Workers, WorkerRight(w), worker'[w] = worker[w],
         \A k \in WorkerKeys : w \in bucket'[k].available <=> w \in bucket[k].available,
         \A d \in Invokers : Holds(d, w)' <=> Holds(d, w),
         \A d \in Invokers : Holds(d, w) => invocation'[d].key = invocation[d].key
  PROVE  WorkerRight(w)'
BY DEF Unused, WorkerRight

\* A step of one call that touches the bucket of its key and a few workers.
LEMMA PoolMoves ==
  ASSUME WorkersInv, NEW c \in Invokers, NEW k \in WorkerKeys, k = invocation[c].key, invocation[c].pc # "prepare",
         NEW touched \in SUBSET Workers, NEW r \in CallRecord, invocation' = [invocation EXCEPT ![c] = r],
         r.key = k \/ r.pc = "idle", NEW b \in BucketRecord, bucket' = [bucket EXCEPT ![k] = b],
         worker' \in [Workers -> WorkerRecord], requests' \in Nat, UNCHANGED <<cells, retiring, retiredKeys>>,
         \A v \in Workers : ~Holds(c, v) => worker'[v].pending = worker[v].pending /\ worker'[v].out = worker[v].out,
         \A v \in Workers \ touched : /\ worker'[v] = worker[v] /\ (v \in b.available <=> v \in bucket[k].available)
                                      /\ Holds(c, v)' <=> Holds(c, v),
         \A v \in touched : WorkerRight(v)',
         BookRight(k)', CallRight(c)'
  PROVE  WorkersInv'
BY BookKept, CellKept, WorkerKept, OtherCalls DEF WorkersInv, PoolTyped, ChargedCalls, Holds

\* A step of one call that holds no worker and no reservation.
LEMMA QuietCall ==
  ASSUME WorkersInv, NEW c \in Invokers, invocation[c].pc \in {"idle", "cell", "prepare", "reserve"},
         NEW r \in CallRecord, r.pc \in {"idle", "cell", "prepare", "reserve"}, r.pc # "idle" => r.key \in WorkerKeys, r.reply = 0,
         invocation' = [invocation EXCEPT ![c] = r], cells' \in [WorkerKeys -> Nat], requests' \in Nat,
         UNCHANGED <<retiredKeys, bucket, worker, retiring>>, \A k \in WorkerKeys : CellRight(k)'
  PROVE  WorkersInv'
BY BookKept, WorkerKept, OtherCalls DEF WorkersInv, PoolTyped, ChargedCalls, Holds, CallRight


\* The package snapshot: enter, find or make the cell, fail, or go on.
LEMMA SnapshotMoves ==
  ASSUME WorkersInv, NEW c \in Invokers,
         \/ \E k \in WorkerKeys : SnapshotEnter(c, k)
         \/ SnapshotCell(c) \/ SnapshotFails(c) \/ SnapshotReady(c)
         \/ reserve(c) /\ ~ensure_owner_active(invocation[c].key)
  PROVE  WorkersInv'
<1>0. /\ PoolTyped /\ (\A j \in WorkerKeys : CellRight(j)) /\ CallRight(c) /\ invocation[c] \in CallRecord
      /\ IdleCall \in CallRecord /\ IdleCall.pc = "idle" /\ IdleCall.reply = 0
  BY DEF WorkersInv, PoolTyped, IdleCall, CallRecord, CallPcs
<1>1. CASE \E k \in WorkerKeys : SnapshotEnter(c, k)
  <2>1. PICK k \in WorkerKeys : SnapshotEnter(c, k)
    BY <1>1
  <2>2. PICK r \in CallRecord : r = [IdleCall EXCEPT !.pc = "cell", !.key = k] /\ r.pc = "cell" /\ r.key = k /\ r.reply = 0
    <3>1. /\ [IdleCall EXCEPT !.pc = "cell", !.key = k] \in CallRecord
          /\ [IdleCall EXCEPT !.pc = "cell", !.key = k].pc = "cell" /\ [IdleCall EXCEPT !.pc = "cell", !.key = k].key = k
          /\ [IdleCall EXCEPT !.pc = "cell", !.key = k].reply = 0
      BY <1>0 DEF CallRecord, CallPcs
    <3> QED BY <3>1
  <2>3. /\ invocation' = [invocation EXCEPT ![c] = r] /\ invocation[c].pc = "idle"
        /\ UNCHANGED <<retiredKeys, bucket, worker, cells, retiring, requests>>
    BY <2>1, <2>2 DEF SnapshotEnter
  <2>4. \A j \in WorkerKeys : CellRight(j)'
    BY <1>0, <2>3, CellKept DEF PoolTyped
  <2> QED BY <1>0, <2>2, <2>3, <2>4, QuietCall DEF PoolTyped
<1>2. CASE SnapshotCell(c)
  <2>1. PICK k, id : k = invocation[c].key /\ id = IF cells[k] # 0 THEN cells[k] ELSE requests + 1
    OBVIOUS
  <2>2. /\ invocation[c].pc = "cell" /\ k \in WorkerKeys /\ id \in Nat /\ cells' = [cells EXCEPT ![k] = id] /\ requests' \in Nat
        /\ invocation' = [invocation EXCEPT ![c].pc = "prepare", ![c].cell = id]
        /\ UNCHANGED <<retiredKeys, bucket, worker, retiring>>
    BY <1>0, <1>2, <2>1 DEF SnapshotCell, CallRight, PoolTyped
  <2>3. PICK r \in CallRecord : r = [invocation[c] EXCEPT !.pc = "prepare", !.cell = id] /\ r.pc = "prepare" /\ r.key = k /\ r.cell = id /\ r.reply = 0
    <3>1. /\ [invocation[c] EXCEPT !.pc = "prepare", !.cell = id] \in CallRecord
          /\ [invocation[c] EXCEPT !.pc = "prepare", !.cell = id].pc = "prepare"
          /\ [invocation[c] EXCEPT !.pc = "prepare", !.cell = id].key = k
          /\ [invocation[c] EXCEPT !.pc = "prepare", !.cell = id].cell = id
          /\ [invocation[c] EXCEPT !.pc = "prepare", !.cell = id].reply = 0
      BY <1>0, <2>1, <2>2 DEF CallRecord, CallPcs, CallRight
    <3> QED BY <3>1
  <2>4. invocation' = [invocation EXCEPT ![c] = r]
    BY <1>0, <2>2, <2>3 DEF PoolTyped
  <2>5. /\ (\A d \in Invokers \ {c} : invocation'[d] = invocation[d]) /\ invocation'[c] = r
        /\ cells'[k] = id /\ \A j \in WorkerKeys \ {k} : cells'[j] = cells[j]
    BY <1>0, <2>2, <2>4 DEF PoolTyped
  <2>6. CellRight(k)'
    BY <2>3, <2>5 DEF CellRight
  <2>7. \A j \in WorkerKeys \ {k} : CellRight(j)'
    BY <1>0, <2>2, <2>5, CellKept
  <2>8. cells' \in [WorkerKeys -> Nat]
    BY <1>0, <2>2 DEF PoolTyped
  <2>9. \A j \in WorkerKeys : CellRight(j)'
    BY <2>6, <2>7
  <2> QED BY <2>2, <2>3, <2>4, <2>8, <2>9, QuietCall
<1>3. CASE invocation[c].pc = "prepare" /\ cells' = ForgetCell(c) /\ Return(c)
           /\ UNCHANGED <<retiredKeys, bucket, worker, retiring, requests>>
  BY <1>0, <1>3, CellKept, QuietCall DEF CallRight, ForgetCell, PoolTyped, Return
<1>4. CASE SnapshotReady(c) /\ KeptAfterCopy(invocation[c].key)
  <2>1. PICK k \in WorkerKeys : k = invocation[c].key /\ invocation[c].pc = "prepare" /\ retiring[k] = "no"
    BY <1>0, <1>4 DEF SnapshotReady, CallRight, KeptAfterCopy, ensure_owner_active, PoolTyped
  <2>2. /\ invocation' = [invocation EXCEPT ![c].pc = "reserve"]
        /\ UNCHANGED <<retiredKeys, bucket, worker, cells, retiring, requests>>
    BY <1>4 DEF SnapshotReady, CallAt
  <2>3. PICK r \in CallRecord : r = [invocation[c] EXCEPT !.pc = "reserve"] /\ r.pc = "reserve" /\ r.key = k /\ r.reply = 0
    <3>1. /\ [invocation[c] EXCEPT !.pc = "reserve"] \in CallRecord /\ [invocation[c] EXCEPT !.pc = "reserve"].pc = "reserve"
          /\ [invocation[c] EXCEPT !.pc = "reserve"].key = k /\ [invocation[c] EXCEPT !.pc = "reserve"].reply = 0
      BY <1>0, <2>1 DEF CallRecord, CallPcs, CallRight
    <3> QED BY <3>1
  <2>4. invocation' = [invocation EXCEPT ![c] = r] /\ \A d \in Invokers \ {c} : invocation'[d] = invocation[d]
    BY <1>0, <2>2, <2>3 DEF PoolTyped
  <2>5. CellRight(k)'
    BY <2>1, <2>2 DEF CellRight
  <2>6. \A j \in WorkerKeys \ {k} : CellRight(j)'
    BY <1>0, <2>1, <2>2, <2>4, CellKept
  <2>7. \A j \in WorkerKeys : CellRight(j)'
    BY <2>5, <2>6
  <2>8. /\ cells' \in [WorkerKeys -> Nat] /\ requests' \in Nat /\ UNCHANGED <<retiredKeys, bucket, worker, retiring>>
        /\ invocation[c].pc \in {"idle", "cell", "prepare", "reserve"} /\ r.pc \in {"idle", "cell", "prepare", "reserve"}
        /\ r.key \in WorkerKeys /\ r.reply = 0
    BY <1>0, <2>1, <2>2, <2>3 DEF PoolTyped
  <2> QED BY <2>4, <2>7, <2>8, QuietCall
<1>5. CASE reserve(c) /\ ~ensure_owner_active(invocation[c].key)
  BY <1>0, <1>5, CellKept, QuietCall DEF reserve, Return, PoolTyped
<1> QED BY <1>1, <1>2, <1>3, <1>4, <1>5 DEF SnapshotFails, SnapshotReady

\* A call that keeps its worker.
LEMMA HeldMoves ==
  ASSUME WorkersInv, NEW c \in Invokers, NEW w \in Workers, Holds(c, w), NEW r \in CallRecord, r.w = w,
         r.pc \in {"spawned", "send", "wait", "finish"}, r.key = invocation[c].key, invocation' = [invocation EXCEPT ![c] = r],
         worker' \in [Workers -> WorkerRecord], \A v \in Workers \ {w} : worker'[v] = worker[v],
         worker'[w].key = worker[w].key, worker'[w].state \in {worker[w].state, "exited"},
         requests' \in Nat, UNCHANGED <<retiredKeys, bucket, cells, retiring>>, CallRight(c)'
  PROVE  WorkersInv'
<1>0. PoolTyped /\ WorkerRight(w) /\ CallRight(c) /\ \A j \in WorkerKeys : BookRight(j)
  BY DEF WorkersInv
<1>1. PICK k \in WorkerKeys : k = invocation[c].key
  BY <1>0 DEF CallRight, Holds
<1>2. PICK b \in BucketRecord : b = bucket[k] /\ bucket' = [bucket EXCEPT ![k] = b]
  BY <1>0 DEF PoolTyped
<1>3. (\A d \in Invokers \ {c} : invocation'[d] = invocation[d]) /\ invocation'[c] = r
  BY <1>0 DEF PoolTyped
<1>4. \A d \in Invokers : Holds(d, w)' <=> d = c
  BY <1>0, <1>3 DEF Holds, WorkerRight
<1>5. WorkerRight(w)'
  BY <1>0, <1>1, <1>3, <1>4 DEF WorkerRight
<1>6. \A v \in Workers \ {w} : Holds(c, v)' <=> Holds(c, v)
  BY <1>3 DEF Holds
<1>7. BookRight(k)'
  BY <1>0, <1>1, <1>3, BookKept DEF ChargedCalls, Holds
<1>8. invocation[c].pc # "prepare"
  BY DEF Holds
<1>9. PICK touched \in SUBSET Workers : touched = {w}
  OBVIOUS
<1>10. /\ \A v \in Workers : ~Holds(c, v) => worker'[v].pending = worker[v].pending /\ worker'[v].out = worker[v].out
       /\ \A v \in Workers \ touched : /\ worker'[v] = worker[v] /\ (v \in b.available <=> v \in bucket[k].available)
                                       /\ Holds(c, v)' <=> Holds(c, v)
       /\ \A v \in touched : WorkerRight(v)'
  BY <1>2, <1>5, <1>6, <1>9
<1> QED BY <1>1, <1>2, <1>7, <1>8, <1>10, PoolMoves


LEMMA HolderFacts ==
  ASSUME WorkersInv, NEW c \in Invokers, invocation[c].pc \in {"spawned", "send", "wait", "finish"}
  PROVE  /\ PoolTyped /\ CallRight(c) /\ invocation[c] \in CallRecord /\ invocation[c].w \in Workers
         /\ Holds(c, invocation[c].w) /\ worker[invocation[c].w] \in WorkerRecord /\ WorkerRight(invocation[c].w)
         /\ invocation[c].key \in WorkerKeys
BY DEF WorkersInv, PoolTyped, CallRight, Holds

\* The spawned worker of an active owner, the request, and the failed write.
LEMMA SendMoves ==
  ASSUME WorkersInv, NEW c \in Invokers,
         \/ AcquireSpawned(c) /\ ensure_owner_active(invocation[c].key)
         \/ InvokeWriteFails(c) \/ InvokeSend(c)
  PROVE  WorkersInv'
<1>0. invocation[c].pc \in {"spawned", "send"}
  BY DEF AcquireSpawned, InvokeWriteFails, InvokeSend
<1>1. PICK w \in Workers, q \in CallRecord : w = invocation[c].w /\ q = invocation[c]
  BY <1>0, HolderFacts
<1>2. /\ PoolTyped /\ CallRight(c) /\ Holds(c, w) /\ worker[w] \in WorkerRecord /\ Unused(w) /\ q.w = w /\ q.key \in WorkerKeys
      /\ worker \in [Workers -> WorkerRecord] /\ requests \in Nat /\ invocation \in [Invokers -> CallRecord]
  BY <1>0, <1>1, HolderFacts DEF CallRight, PoolTyped
<1>3. CASE AcquireSpawned(c) /\ ensure_owner_active(invocation[c].key)
  <2>1. invocation' = [invocation EXCEPT ![c].pc = "send"] /\ UNCHANGED <<bucket, worker, retiredKeys, cells, retiring, requests>>
    BY <1>3 DEF AcquireSpawned, CallAt
  <2>2. PICK r \in CallRecord : r = [q EXCEPT !.pc = "send"] /\ r.pc = "send" /\ r.w = w /\ r.key = q.key /\ r.reply = q.reply
    <3>1. /\ [q EXCEPT !.pc = "send"] \in CallRecord
           /\ [q EXCEPT !.pc = "send"].pc = "send"
           /\ [q EXCEPT !.pc = "send"].w = w
           /\ [q EXCEPT !.pc = "send"].key = q.key
           /\ [q EXCEPT !.pc = "send"].reply = q.reply
      BY <1>2 DEF CallRecord, CallPcs
    <3> QED BY <3>1
  <2>3. invocation' = [invocation EXCEPT ![c] = r] /\ invocation'[c] = r
    BY <1>1, <1>2, <2>1, <2>2
  <2>4. CallRight(c)'
    BY <1>0, <1>1, <1>2, <2>1, <2>2, <2>3 DEF CallRight, Unused
  <2> QED BY <1>1, <1>2, <2>1, <2>2, <2>3, <2>4, HeldMoves
<1>4. CASE InvokeWriteFails(c) \/ (InvokeSend(c) /\ worker[w].stderr > 0)
  <2>1. /\ invocation' = [invocation EXCEPT ![c].pc = "finish", ![c].discard = TRUE]
        /\ worker' = worker \/ worker' = [worker EXCEPT ![w].stderr = 0]
        /\ UNCHANGED <<bucket, retiredKeys, cells, retiring, requests>> /\ invocation[c].pc = "send"
    BY <1>1, <1>4 DEF InvokeWriteFails, InvokeSend
  <2>2. PICK r \in CallRecord : /\ r = [q EXCEPT !.pc = "finish", !.discard = TRUE] /\ r.pc = "finish" /\ r.w = w /\ r.key = q.key
                                /\ r.discard = TRUE /\ r.reply = q.reply /\ r.request = q.request
    <3>1. /\ [q EXCEPT !.pc = "finish", !.discard = TRUE] \in CallRecord
           /\ [q EXCEPT !.pc = "finish", !.discard = TRUE].pc = "finish"
           /\ [q EXCEPT !.pc = "finish", !.discard = TRUE].w = w
           /\ [q EXCEPT !.pc = "finish", !.discard = TRUE].key = q.key
           /\ [q EXCEPT !.pc = "finish", !.discard = TRUE].discard = TRUE
           /\ [q EXCEPT !.pc = "finish", !.discard = TRUE].reply = q.reply
           /\ [q EXCEPT !.pc = "finish", !.discard = TRUE].request = q.request
      BY <1>2 DEF CallRecord, CallPcs
    <3> QED BY <3>1
  <2>3. invocation' = [invocation EXCEPT ![c] = r] /\ invocation'[c] = r
    BY <1>1, <1>2, <2>1, <2>2
  <2>4. /\ worker' \in [Workers -> WorkerRecord] /\ worker'[w].key = worker[w].key /\ worker'[w].state = worker[w].state
        /\ \A v \in Workers \ {w} : worker'[v] = worker[v]
    <3>1. CASE worker' = worker
      BY <1>2, <3>1
    <3>2. CASE worker' = [worker EXCEPT ![w].stderr = 0]
      BY <1>2, <3>2 DEF WorkerRecord
    <3> QED BY <2>1, <3>1, <3>2
  <2>5. CallRight(c)'
    BY <1>1, <1>2, <2>1, <2>2, <2>3 DEF CallRight
  <2>6. /\ worker'[w].state \in {worker[w].state, "exited"} /\ r.key = invocation[c].key /\ requests' \in Nat
        /\ r.pc \in {"spawned", "send", "wait", "finish"} /\ UNCHANGED <<retiredKeys, bucket, cells, retiring>>
    BY <1>1, <1>2, <2>1, <2>2, <2>4
  <2> QED BY <1>2, <2>2, <2>3, <2>4, <2>5, <2>6, HeldMoves
<1>5. CASE InvokeSend(c) /\ ~(worker[w].stderr > 0)
  <2>1. /\ invocation' = [invocation EXCEPT ![c].pc = "wait", ![c].request = requests + 1] /\ requests' = requests + 1
        /\ \E n \in 0..StderrCapacity + 1 : worker' = [worker EXCEPT ![w].pending = requests + 1, ![w].writes = n]
        /\ UNCHANGED <<bucket, retiredKeys, cells, retiring>>
    BY <1>1, <1>5 DEF InvokeSend
  <2>2. PICK m \in Nat : m = requests + 1
    BY <1>2
  <2>3. PICK n \in 0..StderrCapacity + 1 : worker' = [worker EXCEPT ![w].pending = m, ![w].writes = n]
    BY <2>1, <2>2
  <2>4. PICK r \in CallRecord : r = [q EXCEPT !.pc = "wait", !.request = m] /\ r.pc = "wait" /\ r.w = w /\ r.key = q.key /\ r.request = m /\ r.reply = q.reply
    <3>1. /\ [q EXCEPT !.pc = "wait", !.request = m] \in CallRecord
           /\ [q EXCEPT !.pc = "wait", !.request = m].pc = "wait"
           /\ [q EXCEPT !.pc = "wait", !.request = m].w = w
           /\ [q EXCEPT !.pc = "wait", !.request = m].key = q.key
           /\ [q EXCEPT !.pc = "wait", !.request = m].request = m
           /\ [q EXCEPT !.pc = "wait", !.request = m].reply = q.reply
      BY <1>2 DEF CallRecord, CallPcs
    <3> QED BY <3>1
  <2>5. invocation' = [invocation EXCEPT ![c] = r] /\ invocation'[c] = r
    BY <1>1, <1>2, <2>1, <2>2, <2>4
  <2>6. n \in Nat
    BY WorkersAssumption
  <2>7. /\ worker' \in [Workers -> WorkerRecord] /\ worker'[w].key = worker[w].key /\ worker'[w].state = worker[w].state
        /\ worker'[w].pending = m /\ worker'[w].out = worker[w].out
        /\ \A v \in Workers \ {w} : worker'[v] = worker[v]
    BY <1>2, <2>3, <2>6 DEF WorkerRecord
  <2>8. Awaiting(w, m)'
    BY <1>2, <2>7 DEF Unused, Awaiting
  <2>9. CallRight(c)'
    BY <1>0, <1>1, <1>2, <2>4, <2>5, <2>8 DEF CallRight
  <2>10. /\ worker'[w].state \in {worker[w].state, "exited"} /\ r.key = invocation[c].key /\ requests' \in Nat
         /\ r.pc \in {"spawned", "send", "wait", "finish"} /\ UNCHANGED <<retiredKeys, bucket, cells, retiring>>
    BY <1>1, <1>2, <2>1, <2>2, <2>4, <2>7
  <2> QED BY <1>2, <2>4, <2>5, <2>7, <2>9, <2>10, HeldMoves
<1> QED BY <1>3, <1>4, <1>5

\* The line that arrives, the closed channel and the timeout.
LEMMA OutcomeMoves ==
  ASSUME WorkersInv, NEW c \in Invokers, InvokeReceive(c) \/ InvokeClosed(c) \/ InvokeTimesOut(c)
  PROVE  WorkersInv'
<1>0. invocation[c].pc = "wait"
  BY DEF InvokeReceive, InvokeClosed, InvokeTimesOut
<1>1. PICK w \in Workers, q \in CallRecord : w = invocation[c].w /\ q = invocation[c]
  BY <1>0, HolderFacts
<1>2. /\ PoolTyped /\ CallRight(c) /\ Holds(c, w) /\ worker[w] \in WorkerRecord /\ q.w = w /\ q.key \in WorkerKeys
      /\ worker \in [Workers -> WorkerRecord] /\ requests \in Nat /\ invocation \in [Invokers -> CallRecord]
      /\ Awaiting(w, q.request) /\ q.request \in Nat
  BY <1>0, <1>1, HolderFacts DEF CallRight, PoolTyped, CallRecord
<1>3. PICK s \in Seq(OutLine) : s = worker[w].out
  BY <1>2 DEF WorkerRecord
<1>4. PICK line : /\ Outcome(c, line)
                  /\ \/ s # <<>> /\ line = Head(s)
                     \/ s = <<>> /\ line \in {Line("closed", 0), Line("timeout", 0)}
  BY <1>1, <1>3 DEF InvokeReceive, InvokeClosed, InvokeTimesOut
<1>5. /\ line.kind = "reply" => line.request = q.request
      /\ ~Discards(line) => worker[w].pending = 0 /\ Len(s) = 1
  <2>1. CASE s # <<>> /\ line = Head(s)
    <3>1. Len(s) \in Nat /\ Len(s) >= 1 /\ s[1] \in OutLine /\ line = s[1] /\ 1 \in 1..Len(s)
      BY <2>1
    <3>2. /\ line.kind = "reply" => line.request = q.request
          /\ line.kind # "garbage" => 1 = Len(s) /\ worker[w].pending = 0
      BY <1>2, <1>3, <3>1 DEF Awaiting
    <3> QED BY <3>1, <3>2 DEF Discards
  <2>2. CASE line \in {Line("closed", 0), Line("timeout", 0)}
    BY <2>2 DEF Line, Discards
  <2> QED BY <1>4, <2>1, <2>2
<1>6. PICK got \in Nat : got = (IF line.kind = "reply" THEN line.request ELSE 0) /\ got \in {0, q.request}
  BY <1>2, <1>5
<1>7. PICK drop \in BOOLEAN : drop = (Discards(line) \/ worker[w].stderr > 0) /\ (~drop => ~Discards(line))
  BY Zenon
<1>8. PICK r \in CallRecord : /\ r = [q EXCEPT !.pc = "finish", !.reply = got, !.discard = drop] /\ r.pc = "finish"
                              /\ r.w = w /\ r.key = q.key /\ r.discard = drop /\ r.reply = got /\ r.request = q.request
  <2>1. /\ [q EXCEPT !.pc = "finish", !.reply = got, !.discard = drop] \in CallRecord
         /\ [q EXCEPT !.pc = "finish", !.reply = got, !.discard = drop].pc = "finish"
         /\ [q EXCEPT !.pc = "finish", !.reply = got, !.discard = drop].w = w
         /\ [q EXCEPT !.pc = "finish", !.reply = got, !.discard = drop].key = q.key
         /\ [q EXCEPT !.pc = "finish", !.reply = got, !.discard = drop].discard = drop
         /\ [q EXCEPT !.pc = "finish", !.reply = got, !.discard = drop].reply = got
         /\ [q EXCEPT !.pc = "finish", !.reply = got, !.discard = drop].request = q.request
    BY <1>2, <1>6, <1>7 DEF CallRecord, CallPcs
  <2> QED BY <2>1
<1>9. /\ invocation' = [invocation EXCEPT ![c].pc = "finish", ![c].reply = got, ![c].discard = drop]
      /\ UNCHANGED <<bucket, retiredKeys, cells, retiring, requests>>
      /\ worker' = [worker EXCEPT ![w].out = IF @ = <<>> THEN @ ELSE Tail(@), ![w].stderr = 0,
                                  ![w].state = IF line.kind = "timeout" THEN "exited" ELSE @,
                                  ![w].faulted = @ \/ line.kind = "refused"]
  BY <1>1, <1>4, <1>6, <1>7 DEF Outcome
<1>10. invocation' = [invocation EXCEPT ![c] = r] /\ invocation'[c] = r
  BY <1>1, <1>2, <1>8, <1>9
<1>11. PICK t \in Seq(OutLine) : t = (IF s = <<>> THEN s ELSE Tail(s)) /\ (Len(s) = 1 => t = <<>>)
  <2>1. CASE s = <<>>
    BY <2>1
  <2>2. CASE s # <<>>
    <3>1. Tail(s) \in Seq(OutLine) /\ Len(Tail(s)) = Len(s) - 1
      BY <2>2
    <3>2. Len(s) = 1 => Tail(s) = <<>>
      BY <3>1
    <3> QED BY <2>2, <3>1, <3>2
  <2> QED BY <2>1, <2>2
<1>12. /\ worker' \in [Workers -> WorkerRecord] /\ worker'[w].key = worker[w].key /\ worker'[w].pending = worker[w].pending
       /\ worker'[w].state \in {worker[w].state, "exited"} /\ worker'[w].out = t /\ \A v \in Workers \ {w} : worker'[v] = worker[v]
  <2>1. PICK f \in BOOLEAN : f = (worker[w].faulted \/ line.kind = "refused")
    OBVIOUS
  <2>2. PICK st \in {worker[w].state, "exited"} : st = IF line.kind = "timeout" THEN "exited" ELSE worker[w].state
    OBVIOUS
  <2>3. worker' = [worker EXCEPT ![w] = [worker[w] EXCEPT !.out = t, !.stderr = 0, !.state = st, !.faulted = f]]
    BY <1>2, <1>3, <1>9, <1>11, <2>1, <2>2
  <2> QED BY <1>2, <2>3 DEF WorkerRecord
<1>13. CallRight(c)'
  BY <1>2, <1>5, <1>6, <1>7, <1>8, <1>10, <1>11, <1>12 DEF Unused, CallRight
<1>14. /\ r.key = invocation[c].key /\ requests' \in Nat /\ r.pc \in {"spawned", "send", "wait", "finish"}
       /\ UNCHANGED <<retiredKeys, bucket, cells, retiring>>
  BY <1>1, <1>2, <1>8, <1>9
<1> QED BY <1>2, <1>8, <1>10, <1>12, <1>13, <1>14, HeldMoves


\* The process on the other side writes, answers or ends.
LEMMA ProcessMoves ==
  ASSUME WorkersInv, NEW w \in Workers, WorkerStderr(w) \/ WorkerAnswers(w) \/ WorkerExits(w)
  PROVE  WorkersInv'
<1>0. /\ PoolTyped /\ (\A k \in WorkerKeys : BookRight(k) /\ CellRight(k)) /\ (\A v \in Workers : WorkerRight(v))
      /\ (\A c \in Invokers : CallRight(c)) /\ worker[w] \in WorkerRecord /\ worker \in [Workers -> WorkerRecord]
  BY DEF WorkersInv, PoolTyped
<1>1. UNCHANGED <<retiredKeys, bucket, cells, invocation, retiring, requests>> /\ worker[w].state \in {"held", "idle"}
  BY DEF WorkerStderr, WorkerAnswers, WorkerExits, Running
<1>2. PICK s \in Seq(OutLine) : s = worker[w].out
  BY <1>0 DEF WorkerRecord
<1>3. /\ worker' \in [Workers -> WorkerRecord] /\ (\A v \in Workers \ {w} : worker'[v] = worker[v])
      /\ worker'[w].key = worker[w].key /\ worker'[w].state \in {worker[w].state, "exited"}
      /\ \/ worker'[w].pending = worker[w].pending /\ worker'[w].out = s
         \/ worker[w].pending # 0 /\ worker'[w].pending = 0 /\ worker'[w].out = Append(s, Line("reply", worker[w].pending))
         \/ worker[w].pending # 0 /\ worker'[w].pending = worker[w].pending /\ worker'[w].out = Append(s, Line("garbage", 0))
         \/ worker[w].pending # 0 /\ worker'[w].pending = 0 /\ worker'[w].out = Append(s, Line("refused", 0))
  <2>1. CASE WorkerStderr(w)
    BY <1>0, <1>2, <2>1 DEF WorkerStderr, WorkerRecord
  <2>2. CASE WorkerExits(w)
    BY <1>0, <1>2, <2>2 DEF WorkerExits, WorkerRecord
  <2>3. CASE WorkerAnswers(w)
    <3>1. PICK line \in OutLine, p \in {0, worker[w].pending} :
             /\ worker[w].pending # 0
             /\ \/ line = Line("reply", worker[w].pending) /\ p = 0
                \/ line = Line("garbage", 0) /\ p = worker[w].pending
                \/ line = Line("refused", 0) /\ p = 0
             /\ \/ worker' = [worker EXCEPT ![w].out = Append(s, line), ![w].pending = p]
                \/ worker' = [worker EXCEPT ![w].out = Append(s, line), ![w].pending = p, ![w].reader = FALSE]
      <4>1. /\ Line("reply", worker[w].pending) \in OutLine /\ Line("garbage", 0) \in OutLine /\ Line("refused", 0) \in OutLine
        BY <1>0 DEF Line, OutLine, WorkerRecord
      <4>2. CASE worker' = [worker EXCEPT ![w].out = Append(@, Line("reply", worker[w].pending)), ![w].pending = 0]
        BY <1>0, <1>2, <2>3, <4>1, <4>2 DEF WorkerAnswers
      <4>3. CASE worker' = [worker EXCEPT ![w].out = Append(@, Line("garbage", 0))]
        <5>1. worker' = [worker EXCEPT ![w].out = Append(s, Line("garbage", 0)), ![w].pending = worker[w].pending]
          BY <1>0, <1>2, <4>3 DEF WorkerRecord
        <5> QED BY <2>3, <4>1, <5>1 DEF WorkerAnswers
      <4>4. CASE worker' = [worker EXCEPT ![w].out = Append(@, Line("refused", 0)), ![w].pending = 0, ![w].reader = FALSE]
        BY <1>0, <1>2, <2>3, <4>1, <4>4 DEF WorkerAnswers
      <4> QED BY <2>3, <4>2, <4>3, <4>4 DEF WorkerAnswers
    <3>2. PICK t \in Seq(OutLine) : t = Append(s, line)
      <4>1. Append(s, line) \in Seq(OutLine)
        OBVIOUS
      <4> QED BY <4>1
    <3>3. p \in Nat
      BY <1>0, <3>1 DEF WorkerRecord
    <3>4. CASE worker' = [worker EXCEPT ![w].out = Append(s, line), ![w].pending = p]
      BY <1>0, <3>1, <3>2, <3>3, <3>4 DEF WorkerRecord
    <3>5. CASE worker' = [worker EXCEPT ![w].out = Append(s, line), ![w].pending = p, ![w].reader = FALSE]
      BY <1>0, <3>1, <3>2, <3>3, <3>5 DEF WorkerRecord
    <3> QED BY <3>1, <3>4, <3>5
  <2> QED BY <2>1, <2>2, <2>3
<1>4. PoolTyped'
  BY <1>0, <1>1, <1>3 DEF PoolTyped
<1>5. \A k \in WorkerKeys : BookRight(k)' /\ CellRight(k)'
  BY <1>0, <1>1 DEF BookRight, ChargedCalls, CellRight
<1>6. Unused(w) => Unused(w)'
  BY <1>2, <1>3 DEF Unused
<1>7. ASSUME NEW v \in Workers PROVE WorkerRight(v)'
  BY <1>0, <1>1, <1>3, <1>6, WorkerKept DEF Holds, WorkerRight
<1>8. ASSUME NEW r \in Nat, Awaiting(w, r) PROVE Awaiting(w, r)'
  <2>1. CASE worker'[w].pending = worker[w].pending /\ worker'[w].out = s
    BY <1>2, <1>8, <2>1 DEF Awaiting
  <2>2. ASSUME NEW kind \in {"reply", "garbage", "refused"}, NEW req \in Nat, worker[w].pending # 0,
               worker'[w].out = Append(s, Line(kind, req)), kind = "reply" => req = worker[w].pending,
               worker'[w].pending = IF kind = "garbage" THEN worker[w].pending ELSE 0
        PROVE  Awaiting(w, r)'
    BY <1>2, <1>8, <2>2 DEF Awaiting, OutLine, Line
  <2>3. worker[w].pending \in Nat
    BY <1>0 DEF WorkerRecord
  <2> QED BY <1>3, <2>1, <2>2, <2>3
<1>9. ASSUME NEW c \in Invokers PROVE CallRight(c)'
  <2>1. CASE invocation[c].pc \in {"spawned", "send", "wait", "finish"}
    <3>1. PICK v \in Workers, r \in Nat : v = invocation[c].w /\ r = invocation[c].request
      BY <1>0, <2>1 DEF CallRight, PoolTyped, CallRecord
    <3>2. (Unused(v) => Unused(v)') /\ (Awaiting(v, r) => Awaiting(v, r)')
      <4>1. CASE v = w
        BY <1>6, <1>8, <4>1
      <4>2. CASE v # w
        BY <1>3, <4>2 DEF Unused, Awaiting
      <4> QED BY <4>1, <4>2
    <3> QED BY <1>0, <1>1, <3>1, <3>2 DEF CallRight
  <2>2. CASE invocation[c].pc \notin {"spawned", "send", "wait", "finish"}
    BY <1>0, <1>1, <2>2 DEF CallRight
  <2> QED BY <2>1, <2>2
<1> QED BY <1>4, <1>5, <1>7, <1>9 DEF WorkersInv

\* retire_owner, one lock at a time.
LEMMA RetireMoves ==
  ASSUME WorkersInv, NEW k \in WorkerKeys, RetireState(k) \/ RetirePool(k) \/ RetireSnapshots(k)
  PROVE  WorkersInv'
<1>0. /\ PoolTyped /\ (\A j \in WorkerKeys : BookRight(j) /\ CellRight(j)) /\ (\A v \in Workers : WorkerRight(v))
      /\ (\A c \in Invokers : CallRight(c)) /\ worker \in [Workers -> WorkerRecord] /\ bucket \in [WorkerKeys -> BucketRecord]
  BY DEF WorkersInv, PoolTyped
<1>1. NoBucket \in BucketRecord /\ NoBucket.available = {} /\ UNCHANGED <<invocation, requests>>
  BY DEF NoBucket, BucketRecord, RetireState, RetirePool, RetireSnapshots
<1>2. PICK dead \in SUBSET Workers :
        /\ dead = IF RetirePool(k) THEN bucket[k].available ELSE {}
        /\ \A v \in dead : v \in bucket[k].available
        /\ \A v \in Workers \ dead : worker'[v] = worker[v]
        /\ \A v \in Workers : worker'[v].pending = worker[v].pending /\ worker'[v].out = worker[v].out
        /\ \A v \in dead : worker'[v].state = "dead" /\ \A j \in WorkerKeys : v \notin bucket'[j].available
        /\ worker' \in [Workers -> WorkerRecord] /\ bucket' \in [WorkerKeys -> BucketRecord]
        /\ \A v \in Workers \ dead, j \in WorkerKeys : v \in bucket'[j].available <=> v \in bucket[j].available
        /\ bucket'[k] \in {bucket[k], NoBucket} /\ \A j \in WorkerKeys \ {k} : bucket'[j] = bucket[j]
  <2>1. CASE RetirePool(k)
    <3>1. PICK dead \in SUBSET Workers : dead = bucket[k].available
      BY <1>0 DEF BucketRecord
    <3>2. worker' = [w \in Workers |-> IF w \in dead THEN [worker[w] EXCEPT !.state = "dead"] ELSE worker[w]]
      BY <2>1, <3>1 DEF RetirePool, Dead
    <3>3. bucket' = [bucket EXCEPT ![k] = NoBucket]
      BY <2>1 DEF RetirePool
    <3>4. ASSUME NEW v \in Workers
          PROVE  /\ worker'[v] \in WorkerRecord /\ worker'[v].pending = worker[v].pending /\ worker'[v].out = worker[v].out
                 /\ (v \notin dead => worker'[v] = worker[v]) /\ (v \in dead => worker'[v].state = "dead")
      BY <1>0, <3>2 DEF WorkerRecord
    <3>5. \A v \in dead : \A j \in WorkerKeys : v \notin bucket'[j].available
      BY <1>0, <1>1, <3>1, <3>3 DEF WorkerRight
    <3>6. worker' \in [Workers -> WorkerRecord]
      BY <3>2, <3>4
    <3> QED BY <1>0, <1>1, <2>1, <3>1, <3>3, <3>4, <3>5, <3>6
  <2>2. CASE ~RetirePool(k)
    <3>1. worker' = worker /\ bucket' = bucket
      BY <2>2 DEF RetireState, RetireSnapshots
    <3>2. PICK dead \in SUBSET Workers : dead = {}
      OBVIOUS
    <3> QED BY <1>0, <2>2, <3>1, <3>2
  <2> QED BY <2>1, <2>2
<1>3. /\ retiring' \in [WorkerKeys -> {"no", "pool", "snapshots", "done"}] /\ (\A j \in WorkerKeys \ {k} : retiring'[j] = retiring[j])
      /\ retiredKeys' = {j \in WorkerKeys : retiring'[j] # "no"}
      /\ cells' \in [WorkerKeys -> Nat] /\ (\A j \in WorkerKeys \ {k} : cells'[j] = cells[j])
      /\ \/ retiring[k] = "no" /\ retiring'[k] = "pool" /\ bucket'[k] = bucket[k]
         \/ retiring[k] = "pool" /\ retiring'[k] = "snapshots" /\ bucket'[k] = NoBucket
         \/ retiring[k] = "snapshots" /\ retiring'[k] = "done" /\ bucket'[k] = bucket[k] /\ cells'[k] = 0
  BY <1>0 DEF RetireState, PoolTyped, RetirePool, RetireSnapshots
<1>4. PoolTyped'
  BY <1>0, <1>1, <1>2, <1>3 DEF PoolTyped
<1>5. ASSUME NEW j \in WorkerKeys PROVE BookRight(j)' /\ CellRight(j)'
  <2>1. Cardinality(ChargedCalls(j)') = Cardinality(ChargedCalls(j))
    BY <1>1 DEF ChargedCalls
  <2>2. CellRight(j)'
    BY <1>0, <1>1, <1>3 DEF CellRight
  <2>3. CASE bucket'[j] = bucket[j]
    BY <1>0, <1>3, <2>1, <2>2, <2>3, PoolFinite DEF BucketRecord, BookRight
  <2>4. CASE bucket'[j] # bucket[j]
    BY <1>2, <1>3, <2>2, <2>4 DEF BookRight
  <2> QED BY <2>3, <2>4
<1>6. ASSUME NEW v \in Workers PROVE WorkerRight(v)'
  BY <1>0, <1>1, <1>2, WorkerKept DEF Holds, WorkerRight
<1>7. ASSUME NEW c \in Invokers PROVE CallRight(c)'
  <2>1. \A v \in Workers, r \in Nat : (Unused(v)' <=> Unused(v)) /\ (Awaiting(v, r)' <=> Awaiting(v, r))
    BY <1>2 DEF Unused, Awaiting
  <2>2. CallRight(c) /\ invocation'[c] = invocation[c] /\ invocation[c].request \in Nat
    BY <1>0, <1>1 DEF PoolTyped, CallRecord
  <2> QED BY <2>1, <2>2 DEF CallRight
<1> QED BY <1>4, <1>5, <1>6, <1>7 DEF WorkersInv


\* A worker that ends leaves no trace in the pool.
LEMMA GoneRight ==
  ASSUME NEW v \in Workers, worker'[v].state = "dead", \A k \in WorkerKeys : v \notin bucket'[k].available,
         \A d \in Invokers : ~Holds(d, v)'
  PROVE  WorkerRight(v)'
BY DEF WorkerRight

LEMMA DeadWorkers ==
  ASSUME PoolTyped, NEW ws \in SUBSET Workers
  PROVE  /\ Dead(ws) \in [Workers -> WorkerRecord] /\ (\A v \in Workers \ ws : Dead(ws)[v] = worker[v])
         /\ \A v \in ws : Dead(ws)[v].state = "dead"
         /\ \A v \in Workers : Dead(ws)[v].pending = worker[v].pending /\ Dead(ws)[v].out = worker[v].out
<1>1. ASSUME NEW v \in Workers
      PROVE  /\ Dead(ws)[v] \in WorkerRecord /\ (v \notin ws => Dead(ws)[v] = worker[v]) /\ (v \in ws => Dead(ws)[v].state = "dead")
             /\ Dead(ws)[v].pending = worker[v].pending /\ Dead(ws)[v].out = worker[v].out
  BY DEF PoolTyped, WorkerRecord, Dead
<1>2. Dead(ws) = [v \in Workers |-> Dead(ws)[v]]
  BY DEF Dead
<1> QED BY <1>1, <1>2

\* pool.discard takes the call's charge off the books.
LEMMA DiscardBook ==
  ASSUME WorkersInv, NEW c \in Invokers, NEW k \in WorkerKeys, c \in ChargedCalls(k), c \notin ChargedCalls(k)',
         \A d \in Invokers \ {c} : invocation'[d] = invocation[d],
         bucket'[k] = Discarded(k), retiring'[k] = retiring[k]
  PROVE  BookRight(k)' /\ Discarded(k) \in BucketRecord /\ Discarded(k).available = bucket[k].available
<1>0. PoolTyped /\ BookRight(k) /\ bucket[k] \in BucketRecord /\ bucket[k].total \in Nat /\ bucket[k].exists \in BOOLEAN
  BY DEF WorkersInv, PoolTyped, BucketRecord
<1>1. /\ Cardinality(bucket[k].available) \in Nat /\ Cardinality(ChargedCalls(k)) \in Nat
      /\ IsFiniteSet(ChargedCalls(k)) /\ IsFiniteSet(bucket[k].available)
      /\ Cardinality(ChargedCalls(k)') = Cardinality(ChargedCalls(k)) - 1
  BY <1>0, PoolFinite, ChargedMoves
<1>2. Cardinality(ChargedCalls(k)) >= 1
  BY <1>1, FS_EmptySet
<1>3. NoBucket \in BucketRecord /\ NoBucket.available = {} /\ NoBucket.total = 0 /\ NoBucket.exists = FALSE
  BY DEF NoBucket, BucketRecord
<1>4. CASE ~bucket[k].exists
  BY <1>0, <1>1, <1>2, <1>3, <1>4 DEF Discarded, BookRight
<1>5. CASE bucket[k].exists /\ bucket[k].total <= 1 /\ bucket[k].available = {}
  <2>1. Discarded(k) = NoBucket
    BY <1>5 DEF Discarded
  <2>2. Cardinality(NoBucket.available) = 0 /\ Cardinality(bucket[k].available) = 0
    BY <1>3, <1>5, FS_EmptySet
  <2>3. /\ retiring[k] \in {"no", "pool"} => Cardinality(ChargedCalls(k)') = 0
    BY <1>0, <1>1, <1>2, <1>5, <2>2 DEF BookRight
  <2>4. bucket'[k].total = 0 /\ Cardinality(bucket'[k].available) = 0
    BY <1>3, <2>1, <2>2, Zenon
  <2> QED BY <1>3, <1>5, <2>1, <2>3, <2>4 DEF BookRight
<1>6. CASE bucket[k].exists /\ ~(bucket[k].total <= 1 /\ bucket[k].available = {})
  BY <1>0, <1>1, <1>2, <1>3, <1>6 DEF Discarded, BookRight, PoolTyped, BucketRecord
<1> QED BY <1>4, <1>5, <1>6

\* A call gives up with its worker, if it had one.
LEMMA DropMoves ==
  ASSUME WorkersInv, NEW c \in Invokers, NEW k \in WorkerKeys, k = invocation[c].key,
         invocation[c].pc \in {"spawn", "spawned", "send", "wait", "finish"}, Return(c),
         NEW ws \in SUBSET Workers, \A v \in Workers : v \in ws <=> Holds(c, v), worker' = Dead(ws),
         \/ bucket' = [bucket EXCEPT ![k] = Discarded(k)]
         \/ bucket' = bucket /\ ~ensure_owner_active(k),
         UNCHANGED <<retiredKeys, cells, retiring, requests>>
  PROVE  WorkersInv'
<1>0. /\ PoolTyped /\ BookRight(k) /\ (\A v \in Workers : WorkerRight(v)) /\ bucket \in [WorkerKeys -> BucketRecord] /\ requests \in Nat
      /\ IdleCall \in CallRecord /\ IdleCall.pc = "idle" /\ IdleCall.reply = 0
  BY DEF WorkersInv, PoolTyped, IdleCall, CallRecord, CallPcs
<1>1. PICK r \in CallRecord : r = IdleCall
  BY <1>0
<1>2. /\ invocation' = [invocation EXCEPT ![c] = r] /\ invocation'[c] = r /\ r.pc = "idle" /\ r.reply = 0
      /\ \A d \in Invokers \ {c} : invocation'[d] = invocation[d]
  BY <1>0, <1>1 DEF Return, PoolTyped
<1>3. c \in ChargedCalls(k) /\ c \notin ChargedCalls(k)'
  BY <1>2 DEF ChargedCalls
<1>4. PICK b \in BucketRecord : bucket' = [bucket EXCEPT ![k] = b] /\ b.available = bucket[k].available /\ BookRight(k)'
  BY <1>0, <1>2, <1>3, DiscardBook, PoolFinite, ChargedMoves DEF PoolTyped, ensure_owner_active, BucketRecord,
     BookRight
<1>5. /\ worker' \in [Workers -> WorkerRecord] /\ (\A v \in Workers \ ws : worker'[v] = worker[v])
      /\ (\A v \in ws : worker'[v].state = "dead")
      /\ \A v \in Workers : worker'[v].pending = worker[v].pending /\ worker'[v].out = worker[v].out
  BY <1>0, DeadWorkers
<1>6. \A v \in Workers : ~Holds(c, v)'
  BY <1>2 DEF Holds
<1>7. ASSUME NEW v \in ws PROVE WorkerRight(v)'
  BY <1>0, <1>2, <1>4, <1>5, <1>6, GoneRight DEF WorkerRight, Holds
<1>8. CallRight(c)'
  BY <1>2 DEF CallRight
<1>9. \A v \in Workers \ ws : /\ worker'[v] = worker[v] /\ (v \in b.available <=> v \in bucket[k].available)
                              /\ Holds(c, v)' <=> Holds(c, v)
  BY <1>4, <1>5, <1>6
<1>10. requests' \in Nat /\ invocation[c].pc # "prepare"
  BY <1>0
<1> QED BY <1>2, <1>4, <1>5, <1>7, <1>8, <1>9, <1>10, PoolMoves

\* SpawnFails, AcquireSpawned for a retired owner, and the ends of ReleaseWorker
\* that do not keep the worker.
LEMMA GiveUpMoves ==
  ASSUME WorkersInv, NEW c \in Invokers,
         \/ SpawnFails(c)
         \/ AcquireSpawned(c) /\ ~ensure_owner_active(invocation[c].key)
         \/ ReleaseWorker(c) /\ (invocation[c].discard \/ ~ensure_owner_active(invocation[c].key))
  PROVE  WorkersInv'
<1>1. PICK k \in WorkerKeys : k = invocation[c].key
  BY DEF WorkersInv, CallRight, SpawnFails, AcquireSpawned, ReleaseWorker
<1>2. CASE SpawnFails(c)
  <2>1. PICK ws \in SUBSET Workers : ws = {}
    OBVIOUS
  <2>2. \A v \in Workers : v \in ws <=> Holds(c, v)
    BY <1>2, <2>1 DEF SpawnFails, Holds
  <2>3. Dead(ws) = worker
    BY <2>1 DEF WorkersInv, PoolTyped, Dead
  <2>4. /\ invocation[c].pc \in {"spawn", "spawned", "send", "wait", "finish"} /\ Return(c) /\ worker' = Dead(ws)
        /\ bucket' = [bucket EXCEPT ![k] = Discarded(k)] /\ UNCHANGED <<retiredKeys, cells, retiring, requests>>
    BY <1>1, <1>2, <2>3 DEF SpawnFails
  <2> QED BY <1>1, <2>2, <2>4, DropMoves
<1>3. CASE ~SpawnFails(c)
  BY <1>1, <1>3, HolderFacts, DropMoves DEF AcquireSpawned, ReleaseWorker, Holds
<1> QED BY <1>2, <1>3


LEMMA SpawnMoves ==
  ASSUME WorkersInv, NEW c \in Invokers, SpawnWorker(c)
  PROVE  WorkersInv'
<1>0. /\ PoolTyped /\ (\A k \in WorkerKeys : BookRight(k)) /\ (\A v \in Workers : WorkerRight(v)) /\ CallRight(c) /\ requests \in Nat
      /\ bucket \in [WorkerKeys -> BucketRecord] /\ worker \in [Workers -> WorkerRecord] /\ invocation \in [Invokers -> CallRecord]
  BY DEF WorkersInv, PoolTyped
<1>1. PICK k \in WorkerKeys, q \in CallRecord : k = invocation[c].key /\ q = invocation[c] /\ q.pc = "spawn" /\ q.reply = 0
  BY <1>0 DEF SpawnWorker, CallRight
<1>2. PICK w \in Workers : /\ worker[w].state = "none" /\ worker' = [worker EXCEPT ![w].state = "held", ![w].key = k]
                           /\ invocation' = [invocation EXCEPT ![c].pc = "spawned", ![c].w = w]
  BY <1>1 DEF SpawnWorker
<1>3. PICK r \in CallRecord : r = [q EXCEPT !.pc = "spawned", !.w = w] /\ r.pc = "spawned" /\ r.w = w /\ r.key = k /\ r.reply = 0
  <2>1. /\ [q EXCEPT !.pc = "spawned", !.w = w] \in CallRecord /\ [q EXCEPT !.pc = "spawned", !.w = w].pc = "spawned"
        /\ [q EXCEPT !.pc = "spawned", !.w = w].w = w /\ [q EXCEPT !.pc = "spawned", !.w = w].key = k
        /\ [q EXCEPT !.pc = "spawned", !.w = w].reply = 0
    BY <1>1 DEF CallRecord, CallPcs
  <2> QED BY <2>1
<1>4. /\ invocation' = [invocation EXCEPT ![c] = r] /\ invocation'[c] = r /\ \A d \in Invokers \ {c} : invocation'[d] = invocation[d]
  BY <1>0, <1>1, <1>2, <1>3
<1>5. /\ worker' \in [Workers -> WorkerRecord] /\ (\A v \in Workers \ {w} : worker'[v] = worker[v])
      /\ worker'[w].state = "held" /\ worker'[w].key = k
      /\ \A v \in Workers : worker'[v].pending = worker[v].pending /\ worker'[v].out = worker[v].out
  <2>1. /\ worker' \in [Workers -> WorkerRecord] /\ (\A v \in Workers \ {w} : worker'[v] = worker[v])
        /\ worker'[w].state = "held" /\ worker'[w].key = k
        /\ worker'[w].pending = worker[w].pending /\ worker'[w].out = worker[w].out
    BY <1>0, <1>2 DEF WorkerRecord
  <2> QED BY <2>1
<1>6. UNCHANGED <<retiredKeys, bucket, cells, retiring, requests>>
  BY DEF SpawnWorker
<1>7. PICK b \in BucketRecord : b = bucket[k] /\ bucket' = [bucket EXCEPT ![k] = b]
  BY <1>0, <1>6
<1>8. Unused(w) /\ (\A j \in WorkerKeys : w \notin bucket[j].available) /\ \A d \in Invokers : ~Holds(d, w)
  BY <1>0, <1>2 DEF WorkerRight
<1>9. WorkerRight(w)'
  <2>1. \A d \in Invokers : Holds(d, w)' <=> d = c
    BY <1>3, <1>4, <1>8 DEF Holds
  <2> QED BY <1>3, <1>4, <1>5, <1>6, <1>8, <2>1 DEF WorkerRight
<1>10. CallRight(c)'
  BY <1>3, <1>4, <1>5, <1>8 DEF Unused, CallRight
<1>11. BookRight(k)'
  BY <1>0, <1>1, <1>3, <1>4, <1>6, BookKept DEF ChargedCalls
<1>12. PICK touched \in SUBSET Workers : touched = {w}
  OBVIOUS
<1>13. /\ \A v \in Workers \ touched : /\ worker'[v] = worker[v] /\ (v \in b.available <=> v \in bucket[k].available)
                                       /\ Holds(c, v)' <=> Holds(c, v)
       /\ \A v \in touched : WorkerRight(v)'
  BY <1>1, <1>3, <1>4, <1>5, <1>7, <1>9, <1>12 DEF Holds
<1>14. requests' \in Nat /\ invocation[c].pc # "prepare"
  BY <1>0, <1>1, <1>6
<1> QED BY <1>1, <1>3, <1>4, <1>5, <1>6, <1>7, <1>10, <1>11, <1>13, <1>14, PoolMoves

\* Reaping takes as many workers off the list as off the total.
LEMMA ReapedBucket ==
  ASSUME PoolTyped, NEW k \in WorkerKeys, NEW q \in BucketRecord, NEW expired \in SUBSET bucket[k].available,
         bucket[k].total >= Cardinality(bucket[k].available), q.total = bucket[k].total
  PROVE  /\ Cardinality(bucket[k].available \ expired) = Cardinality(bucket[k].available) - Cardinality(expired)
         /\ Cardinality(bucket[k].available \ expired) \in Nat /\ IsFiniteSet(bucket[k].available \ expired)
         /\ Cardinality(expired) \in Nat
         /\ Reaped(q, expired) \in BucketRecord /\ Reaped(q, expired).available = q.available \ expired
         /\ Reaped(q, expired).total = bucket[k].total - Cardinality(expired) /\ Reaped(q, expired).exists = q.exists
<1>0. IsFiniteSet(bucket[k].available) /\ Cardinality(bucket[k].available) \in Nat /\ bucket[k].total \in Nat
  BY PoolFinite DEF PoolTyped, BucketRecord
<1>1. PICK n \in Nat : n = Cardinality(expired) /\ n <= Cardinality(bucket[k].available) /\ IsFiniteSet(expired)
  BY <1>0, FS_Subset, FS_CardinalityType
<1>2. bucket[k].available \cap expired = expired
  OBVIOUS
<1>3. /\ Cardinality(bucket[k].available \ expired) = Cardinality(bucket[k].available) - Cardinality(bucket[k].available \cap expired)
      /\ IsFiniteSet(bucket[k].available \ expired)
  BY <1>0, FS_Difference
<1>4. Cardinality(bucket[k].available \ expired) = Cardinality(bucket[k].available) - n
  BY <1>1, <1>2, <1>3, Zenon
<1>5. PICK t \in Nat : t = bucket[k].total - n
  BY <1>0, <1>1
<1>6. Reaped(q, expired) = [q EXCEPT !.available = q.available \ expired, !.total = t]
  BY <1>1, <1>5 DEF Reaped
<1>7. /\ Reaped(q, expired) \in BucketRecord /\ Reaped(q, expired).available = q.available \ expired
      /\ Reaped(q, expired).total = t /\ Reaped(q, expired).exists = q.exists
  BY <1>6 DEF BucketRecord
<1> QED BY <1>0, <1>1, <1>3, <1>4, <1>5, <1>7

\* What reaping does to the workers it ends.
LEMMA ReapedRight ==
  ASSUME WorkersInv, NEW c \in Invokers, NEW k \in WorkerKeys, NEW expired \in SUBSET bucket[k].available,
         \A d \in Invokers \ {c} : invocation'[d] = invocation[d], \A v \in expired : ~Holds(c, v)' \/ invocation'[c].w \notin expired,
         NEW b, b.available \cap expired = {}, bucket' = [bucket EXCEPT ![k] = b], \A v \in expired : worker'[v].state = "dead"
  PROVE  \A v \in expired : WorkerRight(v)'
<1>0. PoolTyped /\ (\A v \in Workers : WorkerRight(v)) /\ bucket \in [WorkerKeys -> BucketRecord]
  BY DEF WorkersInv, PoolTyped
<1>1. ASSUME NEW v \in expired PROVE WorkerRight(v)'
  BY <1>0, GoneRight DEF BucketRecord, WorkerRight, Holds
<1> QED BY <1>1


\* The bucket of a key after reaping, as reserve finds it.
Reserving(k, expired) == [Reaped(bucket[k], expired) EXCEPT !.exists = TRUE]

\* reserve for an active owner: a warm worker, a refusal, or a reservation.
LEMMA ReserveMoves ==
  ASSUME WorkersInv, NEW c \in Invokers, reserve(c), ensure_owner_active(invocation[c].key)
  PROVE  WorkersInv'
<1>0. /\ PoolTyped /\ (\A j \in WorkerKeys : BookRight(j)) /\ (\A v \in Workers : WorkerRight(v)) /\ CallRight(c) /\ requests \in Nat
      /\ bucket \in [WorkerKeys -> BucketRecord] /\ worker \in [Workers -> WorkerRecord] /\ invocation \in [Invokers -> CallRecord]
      /\ IdleCall \in CallRecord /\ IdleCall.pc = "idle" /\ IdleCall.reply = 0
  BY DEF WorkersInv, PoolTyped, IdleCall, CallRecord, CallPcs
<1>1. PICK k \in WorkerKeys, q \in CallRecord : /\ k = invocation[c].key /\ q = invocation[c] /\ q.pc = "reserve" /\ q.reply = 0
                                                /\ retiring[k] = "no"
  BY <1>0 DEF reserve, CallRight, PoolTyped, ensure_owner_active
<1>2. PICK n \in Nat, m \in Nat : /\ n = Cardinality(bucket[k].available) /\ m = Cardinality(ChargedCalls(k))
                                  /\ bucket[k].total = n + m /\ bucket[k].total >= Cardinality(bucket[k].available)
  BY <1>0, <1>1, PoolFinite DEF BookRight
<1>2a. PICK expired \in SUBSET bucket[k].available :
        \/ \E w \in Reserving(k, expired).available :
             /\ bucket' = [bucket EXCEPT ![k] = [Reserving(k, expired) EXCEPT !.available = @ \ {w}]]
             /\ worker' = [Dead(expired) EXCEPT ![w].state = IF @ = "idle" THEN "held" ELSE @]
             /\ invocation' = [invocation EXCEPT ![c].pc = "send", ![c].w = w]
        \/ bucket' = [bucket EXCEPT ![k] = Reserving(k, expired)] /\ worker' = Dead(expired) /\ Return(c)
        \/ /\ bucket' = [bucket EXCEPT ![k] = [Reserving(k, expired) EXCEPT !.total = @ + 1]]
           /\ worker' = Dead(expired) /\ CallAt(c, "spawn")
  BY <1>1, Zenon DEF reserve, Reserving
<1>3. PICK b0 :
        /\ b0 = [Reaped(bucket[k], expired) EXCEPT !.exists = TRUE]
        /\ \/ \E w \in b0.available :
                /\ bucket' = [bucket EXCEPT ![k] = [b0 EXCEPT !.available = @ \ {w}]]
                /\ worker' = [Dead(expired) EXCEPT ![w].state = IF @ = "idle" THEN "held" ELSE @]
                /\ invocation' = [invocation EXCEPT ![c].pc = "send", ![c].w = w]
           \/ bucket' = [bucket EXCEPT ![k] = b0] /\ worker' = Dead(expired) /\ Return(c)
           \/ bucket' = [bucket EXCEPT ![k] = [b0 EXCEPT !.total = @ + 1]] /\ worker' = Dead(expired) /\ CallAt(c, "spawn")
  BY <1>2a, Zenon DEF Reserving
<1>4. PICK e \in Nat : /\ e = Cardinality(expired) /\ Cardinality(bucket[k].available \ expired) = n - e /\ n - e \in Nat
                       /\ IsFiniteSet(bucket[k].available \ expired) /\ b0 \in BucketRecord /\ b0.exists = TRUE
                       /\ b0.available = bucket[k].available \ expired /\ b0.total = (n - e) + m
  <2>1. /\ Cardinality(bucket[k].available \ expired) = Cardinality(bucket[k].available) - Cardinality(expired)
        /\ Cardinality(bucket[k].available \ expired) \in Nat /\ IsFiniteSet(bucket[k].available \ expired)
        /\ Cardinality(expired) \in Nat
        /\ Reaped(bucket[k], expired) \in BucketRecord /\ Reaped(bucket[k], expired).available = bucket[k].available \ expired
        /\ Reaped(bucket[k], expired).total = bucket[k].total - Cardinality(expired)
    <3>1. PICK x \in BucketRecord : x = bucket[k] /\ x.total = bucket[k].total
      BY <1>0
    <3>2. /\ Cardinality(bucket[k].available \ expired) = Cardinality(bucket[k].available) - Cardinality(expired)
          /\ Cardinality(bucket[k].available \ expired) \in Nat /\ IsFiniteSet(bucket[k].available \ expired)
          /\ Cardinality(expired) \in Nat
          /\ Reaped(x, expired) \in BucketRecord /\ Reaped(x, expired).available = x.available \ expired
          /\ Reaped(x, expired).total = bucket[k].total - Cardinality(expired)
      <4>1. PoolTyped /\ bucket[k].total >= Cardinality(bucket[k].available) /\ x.total = bucket[k].total
        BY <1>0, <1>2, <3>1
      <4> QED BY <4>1, ReapedBucket
    <3> QED BY <3>1, <3>2, Zenon
  <2>2. PICK y \in BucketRecord : y = Reaped(bucket[k], expired)
    BY <2>1
  <2>3. b0 \in BucketRecord /\ b0.exists = TRUE /\ b0.available = y.available /\ b0.total = y.total
    BY <1>3, <2>2 DEF BucketRecord
  <2>4. y.available = bucket[k].available \ expired /\ y.total = bucket[k].total - Cardinality(expired)
    BY <2>1, <2>2
  <2>5. b0.total = bucket[k].total - Cardinality(expired) /\ b0.available = bucket[k].available \ expired
    BY <2>3, <2>4
  <2>6. Cardinality(bucket[k].available \ expired) = n - Cardinality(expired) /\ n - Cardinality(expired) \in Nat
        /\ b0.total = (n - Cardinality(expired)) + m
    BY <1>2, <2>1, <2>5
  <2> QED BY <2>1, <2>3, <2>5, <2>6
<1>5. expired \subseteq Workers /\ UNCHANGED <<retiredKeys, cells, retiring, requests>> /\ c \notin ChargedCalls(k)
      /\ requests' \in Nat /\ invocation[c].pc # "prepare" /\ \A v \in Workers : ~Holds(c, v)
  BY <1>0, <1>1 DEF BucketRecord, reserve, ChargedCalls, Holds
<1>6. PICK ww \in [Workers -> WorkerRecord] :
        /\ ww = Dead(expired) /\ (\A v \in Workers \ expired : ww[v] = worker[v]) /\ (\A v \in expired : ww[v].state = "dead")
        /\ \A v \in Workers : ww[v].pending = worker[v].pending /\ ww[v].out = worker[v].out
  BY <1>0, <1>5, DeadWorkers
<1>7. CASE \E w \in b0.available :
             /\ bucket' = [bucket EXCEPT ![k] = [b0 EXCEPT !.available = @ \ {w}]]
             /\ worker' = [Dead(expired) EXCEPT ![w].state = IF @ = "idle" THEN "held" ELSE @]
             /\ invocation' = [invocation EXCEPT ![c].pc = "send", ![c].w = w]
  <2>1. PICK w \in b0.available :
             /\ bucket' = [bucket EXCEPT ![k] = [b0 EXCEPT !.available = @ \ {w}]]
             /\ worker' = [ww EXCEPT ![w].state = IF @ = "idle" THEN "held" ELSE @]
             /\ invocation' = [invocation EXCEPT ![c].pc = "send", ![c].w = w]
    BY <1>6, <1>7
  <2>2. w \in Workers /\ w \in bucket[k].available /\ w \notin expired /\ ww[w] = worker[w]
    BY <1>4, <1>6 DEF BucketRecord
  <2>3. /\ worker[w].key = k /\ worker[w].state \in {"idle", "exited"} /\ Unused(w) /\ (\A j \in WorkerKeys \ {k} : w \notin bucket[j].available)
        /\ \A d \in Invokers : ~Holds(d, w)
    BY <1>0, <2>2 DEF WorkerRight
  <2>4. PICK b \in BucketRecord : b = [b0 EXCEPT !.available = @ \ {w}] /\ b.available = b0.available \ {w} /\ b.total = b0.total /\ b.exists = TRUE
    <3>1. /\ [b0 EXCEPT !.available = @ \ {w}] \in BucketRecord /\ [b0 EXCEPT !.available = @ \ {w}].available = b0.available \ {w}
          /\ [b0 EXCEPT !.available = @ \ {w}].total = b0.total /\ [b0 EXCEPT !.available = @ \ {w}].exists = TRUE
      BY <1>4 DEF BucketRecord
    <3> QED BY <3>1
  <2>5. PICK r \in CallRecord : r = [q EXCEPT !.pc = "send", !.w = w] /\ r.pc = "send" /\ r.w = w /\ r.key = k /\ r.reply = 0
    <3>1. /\ [q EXCEPT !.pc = "send", !.w = w] \in CallRecord /\ [q EXCEPT !.pc = "send", !.w = w].pc = "send"
          /\ [q EXCEPT !.pc = "send", !.w = w].w = w /\ [q EXCEPT !.pc = "send", !.w = w].key = k
          /\ [q EXCEPT !.pc = "send", !.w = w].reply = 0
      BY <1>1, <2>2 DEF CallRecord, CallPcs
    <3> QED BY <3>1
  <2>6. /\ invocation' = [invocation EXCEPT ![c] = r] /\ invocation'[c] = r /\ (\A d \in Invokers \ {c} : invocation'[d] = invocation[d])
        /\ bucket' = [bucket EXCEPT ![k] = b] /\ bucket'[k] = b /\ \A j \in WorkerKeys \ {k} : bucket'[j] = bucket[j]
    BY <1>0, <1>1, <2>1, <2>4, <2>5
  <2>7. /\ worker' \in [Workers -> WorkerRecord] /\ (\A v \in Workers \ {w} : worker'[v] = ww[v])
        /\ worker'[w].state \in {"held", "exited"} /\ worker'[w].key = k
        /\ worker'[w].pending = worker[w].pending /\ worker'[w].out = worker[w].out
    <3>1. PICK st \in {"held", "exited"} : st = IF ww[w].state = "idle" THEN "held" ELSE ww[w].state
      BY <2>2, <2>3
    <3>2. worker' = [ww EXCEPT ![w] = [worker[w] EXCEPT !.state = st]] /\ worker[w] \in WorkerRecord
      BY <1>0, <2>1, <2>2, <3>1
    <3> QED BY <2>2, <2>3, <3>1, <3>2 DEF WorkerRecord
  <2>8. \A v \in Workers : worker'[v].pending = worker[v].pending /\ worker'[v].out = worker[v].out
    BY <1>6, <2>7
  <2>9. WorkerRight(w)'
    <3>1. \A d \in Invokers : Holds(d, w)' <=> d = c
      BY <2>3, <2>5, <2>6 DEF Holds
    <3>2. \A j \in WorkerKeys : w \notin bucket'[j].available
      BY <2>3, <2>4, <2>6
    <3> QED BY <2>5, <2>6, <2>7, <3>1, <3>2 DEF WorkerRight
  <2>10. \A v \in expired : WorkerRight(v)'
    <3>1. (\A v \in expired : worker'[v].state = "dead") /\ b.available \cap expired = {} /\ invocation'[c].w \notin expired
      <4>1. \A v \in expired : v \in Workers \ {w} /\ ww[v].state = "dead"
        BY <1>5, <1>6, <2>2
      <4>2. b.available \cap expired = {}
        BY <1>4, <2>4
      <4> QED BY <2>2, <2>5, <2>6, <2>7, <4>1, <4>2
    <3> QED BY <2>6, <3>1, ReapedRight
  <2>11. CallRight(c)'
    BY <2>2, <2>3, <2>5, <2>6, <2>7 DEF Unused, CallRight
  <2>12. BookRight(k)'
    <3>1. c \in ChargedCalls(k)'
      BY <2>5, <2>6 DEF ChargedCalls
    <3>2. Cardinality(ChargedCalls(k)') = m + 1
      BY <1>0, <1>2, <1>5, <2>6, <3>1, ChargedMoves
    <3>3. Cardinality((bucket[k].available \ expired) \ {w}) = (n - e) - 1
      <4>1. w \in bucket[k].available \ expired
        BY <2>2
      <4>2. Cardinality((bucket[k].available \ expired) \ {w}) = Cardinality(bucket[k].available \ expired) - 1
        BY <1>4, <4>1, FS_RemoveElement
      <4> QED BY <1>4, <4>2
    <3>4. Cardinality(bucket'[k].available) = (n - e) - 1
      BY <1>4, <2>4, <2>6, <3>3, Zenon
    <3>5. bucket'[k].total = (n - e) + m /\ bucket'[k].exists /\ retiring'[k] = "no"
      BY <1>1, <1>4, <1>5, <2>4, <2>6, Zenon
    <3> QED BY <1>4, <3>2, <3>4, <3>5 DEF BookRight
  <2>13. PICK touched \in SUBSET Workers : touched = expired \cup {w}
    BY <1>5, <2>2
  <2>14. \A v \in touched : WorkerRight(v)'
    BY <2>9, <2>10, <2>13
  <2>15. \A v \in Workers \ touched : /\ worker'[v] = worker[v] /\ (v \in b.available <=> v \in bucket[k].available)
                                      /\ Holds(c, v)' <=> Holds(c, v)
    BY <1>4, <1>5, <1>6, <2>4, <2>5, <2>6, <2>7, <2>13 DEF Holds
  <2> QED BY <1>1, <1>5, <2>5, <2>6, <2>7, <2>8, <2>11, <2>12, <2>14, <2>15, PoolMoves
<1>8. ASSUME NEW r \in CallRecord, NEW b \in BucketRecord, r.pc \in {"idle", "spawn"}, r.pc = "spawn" => r.key = k, r.reply = 0,
             invocation' = [invocation EXCEPT ![c] = r], bucket' = [bucket EXCEPT ![k] = b], worker' = ww,
             b.available = b0.available, b.exists = TRUE, b.total = IF r.pc = "spawn" THEN b0.total + 1 ELSE b0.total
      PROVE  WorkersInv'
  <2>1. /\ invocation'[c] = r /\ (\A d \in Invokers \ {c} : invocation'[d] = invocation[d]) /\ bucket'[k] = b
    BY <1>0, <1>8
  <2>2. \A v \in Workers : ~Holds(c, v)'
    BY <1>8, <2>1 DEF Holds
  <2>3. \A v \in expired : WorkerRight(v)'
    BY <1>4, <1>5, <1>6, <1>8, <2>1, <2>2, ReapedRight
  <2>4. CallRight(c)'
    BY <1>8, <2>1 DEF CallRight
  <2>5. BookRight(k)'
    <3>1. Cardinality(ChargedCalls(k)') = IF r.pc = "spawn" THEN m + 1 ELSE m
      BY <1>0, <1>2, <1>5, <1>8, <2>1, ChargedMoves DEF ChargedCalls
    <3>2. Cardinality(bucket'[k].available) = n - e
      BY <1>4, <1>8, <2>1, Zenon
    <3>3. bucket'[k].total = (IF r.pc = "spawn" THEN b0.total + 1 ELSE b0.total) /\ bucket'[k].exists /\ retiring'[k] = "no"
      BY <1>1, <1>5, <1>8, <2>1, Zenon
    <3> QED BY <1>4, <3>1, <3>2, <3>3 DEF BookRight
  <2>6. \A v \in Workers \ expired : /\ worker'[v] = worker[v] /\ (v \in b.available <=> v \in bucket[k].available)
                                     /\ Holds(c, v)' <=> Holds(c, v)
    BY <1>4, <1>5, <1>6, <1>8, <2>2
  <2>7. expired \in SUBSET Workers /\ worker' \in [Workers -> WorkerRecord] /\ (r.key = k \/ r.pc = "idle")
        /\ \A v \in Workers : worker'[v].pending = worker[v].pending /\ worker'[v].out = worker[v].out
    BY <1>5, <1>6, <1>8
  <2>8. /\ k = invocation[c].key /\ invocation[c].pc # "prepare" /\ requests' \in Nat /\ UNCHANGED <<cells, retiring, retiredKeys>>
    BY <1>1, <1>5
  <2> QED BY <1>8, <2>3, <2>4, <2>5, <2>6, <2>7, <2>8, PoolMoves
<1>9. CASE bucket' = [bucket EXCEPT ![k] = b0] /\ worker' = Dead(expired) /\ Return(c)
  BY <1>0, <1>4, <1>6, <1>8, <1>9 DEF Return
<1>10. CASE bucket' = [bucket EXCEPT ![k] = [b0 EXCEPT !.total = @ + 1]] /\ worker' = Dead(expired) /\ CallAt(c, "spawn")
  <2>1. PICK r \in CallRecord : r = [q EXCEPT !.pc = "spawn"] /\ r.pc = "spawn" /\ r.key = k /\ r.reply = 0
    <3>1. /\ [q EXCEPT !.pc = "spawn"] \in CallRecord /\ [q EXCEPT !.pc = "spawn"].pc = "spawn"
          /\ [q EXCEPT !.pc = "spawn"].key = k /\ [q EXCEPT !.pc = "spawn"].reply = 0
      BY <1>1 DEF CallRecord, CallPcs
    <3> QED BY <3>1
  <2>2. invocation' = [invocation EXCEPT ![c] = r]
    BY <1>0, <1>1, <1>10, <2>1 DEF CallAt
  <2>3. PICK b \in BucketRecord : b = [b0 EXCEPT !.total = @ + 1] /\ b.available = b0.available /\ b.total = b0.total + 1 /\ b.exists = TRUE
    <3>1. /\ [b0 EXCEPT !.total = @ + 1] \in BucketRecord /\ [b0 EXCEPT !.total = @ + 1].available = b0.available
          /\ [b0 EXCEPT !.total = @ + 1].total = b0.total + 1 /\ [b0 EXCEPT !.total = @ + 1].exists = TRUE
      BY <1>4 DEF BucketRecord
    <3> QED BY <3>1
  <2>4. /\ b.total = (IF r.pc = "spawn" THEN b0.total + 1 ELSE b0.total) /\ r.pc \in {"idle", "spawn"} /\ worker' = ww
        /\ bucket' = [bucket EXCEPT ![k] = b]
    BY <1>6, <1>10, <2>1, <2>3
  <2> QED BY <1>8, <2>1, <2>2, <2>3, <2>4
<1> QED BY <1>3, <1>7, <1>9, <1>10


\* What release does to the bucket and the workers.
Releasing(k, w, expired) ==
  /\ bucket' = [bucket EXCEPT ![k] = Reaped([bucket[k] EXCEPT !.available = @ \cup {w}], expired)]
  /\ worker' = [Dead(expired) EXCEPT ![w].state = IF @ = "held" THEN "idle" ELSE @]

\* The worker that served its call goes back to the bucket of an active owner.
LEMMA ReleaseMoves ==
  ASSUME WorkersInv, NEW c \in Invokers, ReleaseWorker(c), ~invocation[c].discard, ensure_owner_active(invocation[c].key)
  PROVE  WorkersInv'
<1>0. /\ PoolTyped /\ (\A j \in WorkerKeys : BookRight(j)) /\ (\A v \in Workers : WorkerRight(v)) /\ CallRight(c) /\ requests \in Nat
      /\ bucket \in [WorkerKeys -> BucketRecord] /\ worker \in [Workers -> WorkerRecord] /\ invocation \in [Invokers -> CallRecord]
      /\ IdleCall \in CallRecord /\ IdleCall.pc = "idle" /\ IdleCall.reply = 0
  BY DEF WorkersInv, PoolTyped, IdleCall, CallRecord, CallPcs
<1>1. PICK k \in WorkerKeys, w \in Workers : /\ k = invocation[c].key /\ w = invocation[c].w /\ invocation[c].pc = "finish"
                                             /\ retiring[k] = "no" /\ Holds(c, w) /\ Unused(w)
  BY <1>0 DEF ReleaseWorker, CallRight, Holds, PoolTyped, ensure_owner_active
<1>2. /\ worker[w].key = k /\ worker[w].state \in {"held", "exited"} /\ (\A j \in WorkerKeys : w \notin bucket[j].available)
      /\ \A d \in Invokers \ {c} : ~Holds(d, w)
  BY <1>0, <1>1 DEF WorkerRight
<1>3. PICK n \in Nat, m \in Nat : /\ n = Cardinality(bucket[k].available) /\ m = Cardinality(ChargedCalls(k))
                                  /\ bucket[k].total = n + m /\ bucket[k].total >= Cardinality(bucket[k].available)
  BY <1>0, <1>1, PoolFinite DEF BookRight
<1>4. PICK expired \in SUBSET bucket[k].available : Releasing(k, w, expired)
  BY <1>1 DEF ReleaseWorker, Releasing
<1>5. PICK x \in BucketRecord : /\ x = [bucket[k] EXCEPT !.available = @ \cup {w}] /\ x.available = bucket[k].available \cup {w}
                                /\ x.total = bucket[k].total /\ x.exists = bucket[k].exists
  <2>1. bucket[k] \in BucketRecord
    BY <1>0
  <2>2. /\ [bucket[k] EXCEPT !.available = @ \cup {w}] \in BucketRecord
        /\ [bucket[k] EXCEPT !.available = @ \cup {w}].available = bucket[k].available \cup {w}
        /\ [bucket[k] EXCEPT !.available = @ \cup {w}].total = bucket[k].total
        /\ [bucket[k] EXCEPT !.available = @ \cup {w}].exists = bucket[k].exists
    BY <2>1 DEF BucketRecord
  <2> QED BY <2>2
<1>6. PICK b \in BucketRecord : b = Reaped(x, expired) /\ b.available = x.available \ expired /\ b.exists = x.exists
        /\ b.total = bucket[k].total - Cardinality(expired) /\ Cardinality(expired) \in Nat
        /\ Cardinality(bucket[k].available \ expired) = Cardinality(bucket[k].available) - Cardinality(expired)
        /\ Cardinality(bucket[k].available \ expired) \in Nat /\ IsFiniteSet(bucket[k].available \ expired)
  <2>1. /\ PoolTyped /\ k \in WorkerKeys /\ x \in BucketRecord /\ expired \in SUBSET bucket[k].available
        /\ bucket[k].total >= Cardinality(bucket[k].available) /\ x.total = bucket[k].total
    BY <1>0, <1>3, <1>4, <1>5
  <2>2. /\ Reaped(x, expired) \in BucketRecord /\ Reaped(x, expired).available = x.available \ expired
        /\ Reaped(x, expired).total = bucket[k].total - Cardinality(expired) /\ Reaped(x, expired).exists = x.exists
        /\ Cardinality(expired) \in Nat
        /\ Cardinality(bucket[k].available \ expired) = Cardinality(bucket[k].available) - Cardinality(expired)
        /\ Cardinality(bucket[k].available \ expired) \in Nat /\ IsFiniteSet(bucket[k].available \ expired)
    BY <2>1, ReapedBucket
  <2> QED BY <2>2
<1>7. PICK ww \in [Workers -> WorkerRecord] :
        /\ ww = Dead(expired) /\ (\A v \in Workers \ expired : ww[v] = worker[v]) /\ (\A v \in expired : ww[v].state = "dead")
        /\ \A v \in Workers : ww[v].pending = worker[v].pending /\ ww[v].out = worker[v].out
  BY <1>0, DeadWorkers DEF BucketRecord
<1>8. PICK r \in CallRecord : r = IdleCall
  BY <1>0
<1>9. /\ invocation' = [invocation EXCEPT ![c] = r] /\ invocation'[c] = r /\ r.pc = "idle" /\ r.reply = 0
      /\ (\A d \in Invokers \ {c} : invocation'[d] = invocation[d])
      /\ bucket' = [bucket EXCEPT ![k] = b] /\ bucket'[k] = b /\ (\A j \in WorkerKeys \ {k} : bucket'[j] = bucket[j])
      /\ UNCHANGED <<retiredKeys, cells, retiring, requests>>
  BY <1>0, <1>4, <1>5, <1>6, <1>8 DEF ReleaseWorker, Return, Releasing
<1>10. w \notin expired /\ ww[w] = worker[w] /\ expired \subseteq Workers /\ w \in b.available
  BY <1>0, <1>2, <1>5, <1>6, <1>7 DEF BucketRecord
<1>11. /\ worker' \in [Workers -> WorkerRecord] /\ (\A v \in Workers \ {w} : worker'[v] = ww[v])
       /\ worker'[w].state \in {"idle", "exited"} /\ worker'[w].key = k
       /\ worker'[w].pending = worker[w].pending /\ worker'[w].out = worker[w].out
  <2>1. PICK st \in {"idle", "exited"} : st = IF ww[w].state = "held" THEN "idle" ELSE ww[w].state
    BY <1>2, <1>10
  <2>2. worker' = [ww EXCEPT ![w] = [worker[w] EXCEPT !.state = st]] /\ worker[w] \in WorkerRecord
    BY <1>0, <1>4, <1>7, <1>10, <2>1 DEF Releasing
  <2> QED BY <1>2, <2>1, <2>2 DEF WorkerRecord
<1>12. \A v \in Workers : ~Holds(c, v)' /\ worker'[v].pending = worker[v].pending /\ worker'[v].out = worker[v].out
  BY <1>7, <1>9, <1>11 DEF Holds
<1>13. WorkerRight(w)'
  BY <1>1, <1>2, <1>9, <1>10, <1>11, <1>12 DEF Holds, Unused, WorkerRight
<1>14. \A v \in expired : WorkerRight(v)'
  <2>1. (\A v \in expired : worker'[v].state = "dead") /\ b.available \cap expired = {} /\ \A v \in expired : ~Holds(c, v)'
    BY <1>6, <1>7, <1>10, <1>11, <1>12
  <2> QED BY <1>9, <2>1, ReapedRight
<1>15. CallRight(c)'
  BY <1>9 DEF CallRight
<1>16. BookRight(k)'
  <2>1. Cardinality(ChargedCalls(k)') = m - 1
    BY <1>0, <1>1, <1>3, <1>9, ChargedMoves DEF ChargedCalls
  <2>2. PICK e \in Nat : e = Cardinality(expired)
    BY <1>6
  <2>3. Cardinality((bucket[k].available \ expired) \cup {w}) = Cardinality(bucket[k].available \ expired) + 1
    BY <1>2, <1>6, FS_AddElement
  <2>4. b.available = (bucket[k].available \ expired) \cup {w}
    BY <1>5, <1>6, <1>10
  <2>5. Cardinality(bucket'[k].available) = Cardinality((bucket[k].available \ expired) \cup {w})
    BY <1>9, <2>4, Zenon
  <2>6. Cardinality(bucket[k].available \ expired) = n - e /\ b.total = (n + m) - e
    BY <1>3, <1>6, <2>2
  <2>7. bucket'[k].total = b.total /\ bucket'[k].exists = bucket[k].exists /\ retiring'[k] = "no"
    BY <1>1, <1>5, <1>6, <1>9, Zenon
  <2>8. bucket[k].exists
    <3>1. m # 0
      BY <1>0, <1>1, <1>3, PoolFinite, FS_EmptySet DEF ChargedCalls
    <3>2. bucket[k].total # 0
      BY <1>3, <3>1
    <3> QED BY <1>0, <3>2 DEF BookRight, NoBucket
  <2> QED BY <1>3, <1>6, <2>1, <2>2, <2>3, <2>5, <2>6, <2>7, <2>8 DEF BookRight
<1>17. PICK touched \in SUBSET Workers : touched = expired \cup {w}
  BY <1>10
<1>18. \A v \in touched : WorkerRight(v)'
  BY <1>13, <1>14, <1>17
<1>19. \A v \in Workers \ touched : /\ worker'[v] = worker[v] /\ (v \in b.available <=> v \in bucket[k].available)
                                    /\ Holds(c, v)' <=> Holds(c, v)
  <2>1. \A v \in Workers \ touched : ~Holds(c, v)
    BY <1>1, <1>17 DEF Holds
  <2> QED BY <1>5, <1>6, <1>7, <1>11, <1>12, <1>17, <2>1
<1>20. k = invocation[c].key /\ invocation[c].pc # "prepare" /\ requests' \in Nat
  BY <1>0, <1>1, <1>9
<1> QED BY <1>9, <1>11, <1>12, <1>15, <1>16, <1>18, <1>19, <1>20, PoolMoves

LEMMA WorkersStep ==
  ASSUME WorkersInv, WorkersNext
  PROVE  WorkersInv'
BY SnapshotMoves, ReserveMoves, GiveUpMoves, SendMoves, ReleaseMoves, SpawnMoves, OutcomeMoves, ProcessMoves,
   RetireMoves DEF CallStep, WorkersNext

LEMMA WorkersStutter ==
  ASSUME WorkersInv, UNCHANGED workersVars
  PROVE  WorkersInv'
<1>1. UNCHANGED <<retiredKeys, bucket, worker, cells, invocation, retiring, requests>>
  BY DEF workersVars
<1>2. PoolTyped'
  BY <1>1, Zenon DEF WorkersInv, PoolTyped
<1>3. (\A k \in WorkerKeys : BookRight(k)') /\ \A k \in WorkerKeys : CellRight(k)'
  BY <1>1 DEF WorkersInv, BookRight, ChargedCalls, CellRight
<1>4. \A w \in Workers : WorkerRight(w)'
  BY <1>1, WorkerKept DEF WorkersInv, Holds
<1>5. \A c \in Invokers : CallRight(c)'
  BY <1>1, Zenon DEF WorkersInv, CallRight, Unused, Awaiting
<1> QED BY <1>2, <1>3, <1>4, <1>5 DEF WorkersInv

LEMMA WorkersStart ==
  ASSUME WorkersInit
  PROVE  WorkersInv
<1>1. /\ retiredKeys = {} /\ bucket = [k \in WorkerKeys |-> NoBucket] /\ worker = [w \in Workers |-> NoWorker]
      /\ cells = [k \in WorkerKeys |-> 0] /\ invocation = [c \in Invokers |-> IdleCall]
      /\ retiring = [k \in WorkerKeys |-> "no"] /\ requests = 0
  BY DEF WorkersInit
<1>2. /\ NoBucket \in BucketRecord /\ NoBucket.available = {} /\ NoBucket.total = 0
      /\ IdleCall \in CallRecord /\ IdleCall.pc = "idle" /\ IdleCall.reply = 0
      /\ NoWorker.state = "none" /\ NoWorker.pending = 0 /\ NoWorker.out = <<>>
  BY DEF NoBucket, BucketRecord, IdleCall, CallRecord, CallPcs, NoWorker
<1>3. NoWorker \in WorkerRecord
  BY DEF NoWorker, WorkerRecord
<1>4. PoolTyped
  BY <1>1, <1>2, <1>3 DEF PoolTyped
<1>5. ASSUME NEW k \in WorkerKeys PROVE BookRight(k) /\ CellRight(k)
  <2>1. ChargedCalls(k) = {} /\ bucket[k].available = {} /\ bucket[k].total = 0 /\ bucket[k] = NoBucket
    BY <1>1, <1>2 DEF ChargedCalls
  <2>2. Cardinality(ChargedCalls(k)) = 0 /\ Cardinality(bucket[k].available) = 0
    BY <2>1, FS_EmptySet
  <2> QED BY <1>1, <2>1, <2>2 DEF BookRight, CellRight
<1>6. \A w \in Workers : WorkerRight(w)
  BY <1>1, <1>2 DEF WorkerRight, Unused, Holds
<1>7. \A c \in Invokers : CallRight(c)
  BY <1>1, <1>2 DEF CallRight
<1> QED BY <1>4, <1>5, <1>6, <1>7 DEF WorkersInv

LEMMA WorkersInvSound ==
  ASSUME WorkersInv
  PROVE  WorkersAccounted /\ ReplyMatches
<1>0. /\ PoolTyped /\ (\A j \in WorkerKeys : BookRight(j) /\ CellRight(j)) /\ (\A v \in Workers : WorkerRight(v))
      /\ \A c \in Invokers : CallRight(c)
  BY DEF WorkersInv
<1>1. \A k \in WorkerKeys \ retiredKeys : bucket[k].total = Cardinality(bucket[k].available) + Cardinality(ChargedCalls(k))
  BY <1>0 DEF PoolTyped, BookRight
<1>2. ASSUME NEW w \in Workers, worker[w].state \in {"held", "idle", "exited"}
      PROVE  Cardinality({k \in WorkerKeys : w \in bucket[k].available /\ worker[w].key = k})
               + Cardinality({c \in Invokers : Holds(c, w)}) = 1
  <2>1. CASE \E k \in WorkerKeys : w \in bucket[k].available
    <3>1. PICK k \in WorkerKeys : w \in bucket[k].available
      BY <2>1
    <3>2. {j \in WorkerKeys : w \in bucket[j].available /\ worker[w].key = j} = {k} /\ {c \in Invokers : Holds(c, w)} = {}
      BY <1>0, <3>1 DEF WorkerRight
    <3>3. Cardinality({k}) = 1 /\ Cardinality({}) = 0
      BY FS_Singleton, FS_EmptySet
    <3>4. /\ Cardinality({j \in WorkerKeys : w \in bucket[j].available /\ worker[w].key = j}) = 1
          /\ Cardinality({c \in Invokers : Holds(c, w)}) = 0
      BY <3>2, <3>3, Zenon
    <3> QED BY <3>4
  <2>2. CASE \E c \in Invokers : Holds(c, w)
    <3>1. PICK c \in Invokers : Holds(c, w)
      BY <2>2
    <3>2. {j \in WorkerKeys : w \in bucket[j].available /\ worker[w].key = j} = {} /\ {d \in Invokers : Holds(d, w)} = {c}
      BY <1>0, <3>1 DEF WorkerRight
    <3>3. Cardinality({c}) = 1 /\ Cardinality({}) = 0
      BY FS_Singleton, FS_EmptySet
    <3>4. /\ Cardinality({j \in WorkerKeys : w \in bucket[j].available /\ worker[w].key = j}) = 0
          /\ Cardinality({d \in Invokers : Holds(d, w)}) = 1
      BY <3>2, <3>3, Zenon
    <3> QED BY <3>4
  <2> QED BY <1>0, <1>2, <2>1, <2>2 DEF WorkerRight
<1>3. \A k \in WorkerKeys : retiring[k] = "done" =>
        /\ bucket[k] = NoBucket
        /\ cells[k] # 0 => \E c \in Invokers : invocation[c].key = k /\ invocation[c].pc = "prepare"
  BY <1>0 DEF BookRight, CellRight
<1>4. ReplyMatches
  BY <1>0 DEF CallRight, ReplyMatches
<1> QED BY <1>1, <1>2, <1>3, <1>4 DEF WorkersAccounted


\* The invariants of the leases and of the workers in the engine instance.
LeasesWorkersInv ==
  /\ part = "lease" => LeaseInv
  /\ part = "workers" => WorkersInv

\* RuntimeSessionManager and ManagedRuntimeWorkerService, for any number of
\* threads, session ids, leases, keys and workers and any limits: the index,
\* the generations and the owner queue of the leases agree through every race
\* of insert, close, expiry and eval; the books of the worker pool are exact
\* until the owner retires, a live process has one place, nothing of a retired
\* owner outlives the calls under way, and a call that returns a value returns
\* the answer to its own request.
THEOREM EngineAlwaysSound == EngineSpec => []EngineSound
<1>1. EngineInit => LeasesWorkersInv
  BY LeaseStart, WorkersStart DEF EngineInit, LeasesWorkersInv
<1>2. LeasesWorkersInv /\ [EngineNext]_engineHostVars => LeasesWorkersInv'
  BY LeaseStep, LeaseStutter, WorkersStep, WorkersStutter DEF LeasesWorkersInv, EngineNext, engineHostVars
<1>3. LeasesWorkersInv => EngineSound
  BY LeaseInvSound, WorkersInvSound DEF LeasesWorkersInv, EngineSound
<1> QED BY <1>1, <1>2, <1>3, PTL DEF EngineSpec
=============================================================================
