------------------------- MODULE ModulePool_proofs -------------------------
(***************************************************************************)
(* Proofs about the pools of embedded modules for any number of pools,     *)
(* groups, capacities, leases and VMs: their types, the parent's budget,   *)
(* one owner of every token and registration, and that a VM handed out is  *)
(* usable and a manager reported closed is empty.                          *)
(***************************************************************************)
EXTENDS ModulePool, QueueFacts

Charged(v) == alloc[v] # NoAllocation

\* A lease keeps its pool alive and has a VM whenever it is not at rest.
LeaseShape(l) ==
  LET x == leases[l] IN
  /\ x.pc = "none" => x.pool = NoPool /\ x.vm = NoVm
  /\ x.pc # "none" => x.pool \in Pools /\ pools[x.pool] # NoPool /\ pools[x.pool].held
  /\ x.pc \notin {"none", "open"} => x.vm # NoVm

\* The VM of a lease is charged and executes exactly while the lease is inside Lua; the
\* phase its permit puts back is Idle once the module can be reused.
LeaseVm(l) ==
  LET x == leases[l]
      v == x.vm
  IN v # NoVm =>
       /\ Charged(v) /\ vms[v].pool = x.pool
       /\ vms[v].alive => vms[v].receipt = "Live"
       /\ ~vms[v].alive => vms[v].receipt = "none" /\ ~vms[v].reusable
       /\ x.pc = "allocating" => ~vms[v].alive
       /\ x.pc \in {"installed", "initializing", "invoking", "finalizing"} => vms[v].alive
       /\ alloc[v].phase # "Retiring"
       /\ alloc[v].phase = "Running" <=> x.pc \in Executing
       /\ vms[v].reusable /\ x.pc \in Executing => x.previous = "Idle"
       /\ vms[v].reusable /\ x.pc \notin Executing => alloc[v].phase = "Idle"

\* The VMs that are at rest with nobody, in somebody's hands, queued, or being destroyed.
IdleVm(p, v) ==
  /\ Charged(v) /\ ~pools[p].closed /\ vms[v].pool = p
  /\ vms[v].alive /\ vms[v].reusable /\ ~vms[v].finalized /\ BelowUses(p, v)
  /\ alloc[v].phase = "Idle" /\ vms[v].receipt = "Live"
TakenVm(v) ==
  Charged(v) /\ vms[v].alive /\ vms[v].receipt = "Live" /\ alloc[v].phase # "Running"
QueuedVm(v) ==
  /\ Charged(v) /\ vms[v].alive /\ vms[v].receipt \in {"Queued", "Retrying"}
  /\ alloc[v].phase # "Running"
CleanerVm ==
  LET v == cleaner.vm IN
  /\ cleaner.pc \in {"waiting", "exited"} => v = NoVm
  /\ cleaner.pc \in {"closing", "destroyed", "released"} => v \in Vms /\ vms[v].receipt = "Running"
  /\ cleaner.pc \in {"closing", "destroyed"} => Charged(v) /\ alloc[v].phase # "Running"
  /\ cleaner.pc = "closing" => vms[v].alive
  /\ cleaner.pc \in {"destroyed", "released"} => ~vms[v].alive
  /\ cleaner.pc = "released" => ~Charged(v)

\* Without a token nothing is left of a VM, but for a receipt not yet published.
FreeVm(v) ==
  ~Charged(v) =>
    /\ ~vms[v].alive
    /\ vms[v].receipt \in {"none", "Completed"} \/ (cleaner.pc = "released" /\ cleaner.vm = v)

\* Somebody owns every token ...
Placed(v) ==
  \/ \E l \in Leases : leases[l].vm = v
  \/ \E p \in Pools : Exists(p) /\ v \in ToSet(pools[p].idle)
  \/ v \in taken
  \/ v \in ToSet(pending)
  \/ cleaner.pc \in {"closing", "destroyed"} /\ cleaner.vm = v

\* ... and nobody owns it twice; receipts tell the other owners apart.
OwnedOnce ==
  /\ \A l, k \in Leases : leases[l].vm # NoVm /\ leases[l].vm = leases[k].vm => l = k
  /\ \A p \in Pools : Exists(p) => Injective(pools[p].idle)
  /\ Injective(pending)
  /\ \A l \in Leases : leases[l].vm \notin taken
  /\ \A p \in Pools : Exists(p) => \A v \in ToSet(pools[p].idle) :
       v \notin taken /\ \A l \in Leases : leases[l].vm # v

Owners ==
  /\ \A l \in Leases : LeaseShape(l) /\ LeaseVm(l)
  /\ \A p \in Pools : Exists(p) => \A v \in ToSet(pools[p].idle) : IdleVm(p, v)
  /\ \A v \in taken : TakenVm(v)
  /\ \A v \in ToSet(pending) : QueuedVm(v)
  /\ CleanerVm
  /\ \A v \in Vms : FreeVm(v) /\ (Charged(v) => Placed(v))

\* A registration is retired only after admission ended.
PoolShape(p) ==
  LET x == pools[p] IN
  /\ x.owner <=> ~x.released
  /\ x.released => x.retiring
  /\ x.retiring => x.closed \/ ~x.held
  /\ x.draining => x.closed
  /\ ~x.released => groups[x.group] # NoGroup

Registrations ==
  /\ \A p \in Pools : Exists(p) => PoolShape(p)
  /\ \A p, q \in Pools :
       Exists(p) /\ Exists(q) /\ ~pools[p].released /\ ~pools[q].released
         /\ pools[p].group = pools[q].group => p = q
  /\ \A v \in Vms : Charged(v) =>
       /\ vms[v].pool \in Pools /\ Exists(vms[v].pool) /\ ~pools[vms[v].pool].released
       /\ alloc[v].group = pools[vms[v].pool].group
  /\ \A p \in toClose : Exists(p) /\ pools[p].held

Budgets ==
  /\ commitment(Nobody) <= MaxResident
  /\ Cardinality(RunningOf(alloc, Resident(alloc))) <= MaxRunning

PoolInv == PoolTypeOK /\ Owners /\ OwnedOnce /\ Registrations /\ Budgets

\* A manager that is closing has closed its pools or still has to ...
Admitting(p) == Exists(p) /\ pools[p].held /\ ~pools[p].closed
ClosingShape ==
  /\ closing => \A p \in Pools : Admitting(p) => p \in toClose
  /\ poll.closed => cleaner.pc = "exited"
  /\ cleaner.pc = "exited" => cleaner.closing
\* ... and once it saw no token, none comes back.
QuietAfterPoll ==
  poll.drained \/ cleaner.closing =>
    /\ closing /\ toClose = {}
    /\ \A v \in Vms : ~Charged(v)

CloseInv == PoolInv /\ ClosingShape /\ QuietAfterPoll

-----------------------------------------------------------------------------
(* The governor *)

\* Sets of VMs can be counted.
LEMMA VmsCounted ==
  ASSUME NEW S \in SUBSET Vms
  PROVE  IsFiniteSet(S) /\ Cardinality(S) \in Nat
  BY GovernorAssumption, FS_Subset, FS_CardinalityType

LEMMA VmsCompared ==
  ASSUME NEW S \in SUBSET Vms, NEW T \in SUBSET S
  PROVE  Cardinality(T) <= Cardinality(S)
  BY VmsCounted, FS_Subset

LEMMA VmsAdded ==
  ASSUME NEW S \in SUBSET Vms, NEW v \in Vms \ S
  PROVE  Cardinality(S \cup {v}) = Cardinality(S) + 1
  BY VmsCounted, FS_AddElement

\* What the governor counts is made of VMs, and charges are natural numbers.
LEMMA ChargesTyped ==
  ASSUME GovernorTypeOK
  PROVE  /\ \A g \in Groups : GroupVms(alloc, g) \in SUBSET Vms
         /\ \A c \in Capacities : CapacityVms(alloc, c) \in SUBSET Vms
         /\ \A r : /\ GroupCharges(r) \in [Groups -> Nat]
                   /\ CapacityCharges(r) \in [Capacities -> Nat]
BY VmsCounted, GovernorAssumption DEF GroupVms, CapacityVms, GovernorTypeOK, Independent, Group, Limits, GroupCharges,
   Charge, Larger, CapacityCharges

LEMMA ChargesTypedNext ==
  ASSUME GovernorTypeOK'
  PROVE  /\ \A g \in Groups : GroupVms(alloc', g) \in SUBSET Vms
         /\ \A c \in Capacities : CapacityVms(alloc, c)' \in SUBSET Vms
         /\ \A r : /\ GroupCharges(r)' \in [Groups -> Nat]
                   /\ CapacityCharges(r)' \in [Capacities -> Nat]
BY VmsCounted, GovernorAssumption DEF GroupVms, CapacityVms, GovernorTypeOK, Independent, Group, Limits, GroupCharges,
   Charge, Larger, CapacityCharges

\* A step that gives tokens back, and unregisters groups that have none left.
Shrinks ==
  /\ capacities' = capacities
  /\ groups' \in [Groups -> Group \cup {NoGroup}]
  /\ alloc' \in [Vms -> Allocation \cup {NoAllocation}]
  /\ \A v \in Vms : alloc'[v] # NoAllocation
       => alloc[v] # NoAllocation /\ alloc'[v].group = alloc[v].group
  /\ \A g \in Groups : groups'[g] = groups[g]
                         \/ (groups'[g] = NoGroup /\ GroupVms(alloc', g) = {})

\* Such a step commits no more than before.
LEMMA ShrinkingCommits ==
  ASSUME GovernorTypeOK, Shrinks
  PROVE  /\ GovernorTypeOK'
         /\ commitment(Nobody) <= MaxResident => commitment(Nobody)' <= MaxResident
<1>1. GovernorTypeOK'
  BY DEF GovernorTypeOK, Shrinks, Independent
<1>2. \A g \in Groups : GroupVms(alloc', g) \subseteq GroupVms(alloc, g)
  BY DEF Shrinks, GroupVms
<1>3. ASSUME NEW c \in Capacities PROVE CapacityVms(alloc, c)' \subseteq CapacityVms(alloc, c)
  BY <1>2 DEF Members, Shrinks, CapacityVms
<1>4. ASSUME NEW g \in Groups PROVE GroupCharges(Nobody)'[g] <= GroupCharges(Nobody)[g]
  BY <1>1, <1>2, ChargesTyped, VmsCompared, VmsCounted, GovernorAssumption DEF Shrinks, Independent, GroupCharges,
     GovernorTypeOK, Group, Limits, Nobody, Charge, Larger
<1>5. ASSUME NEW c \in Capacities PROVE CapacityCharges(Nobody)'[c] <= CapacityCharges(Nobody)[c]
  <2>1. PICK A, B : A = CapacityVms(alloc, c)' /\ B = CapacityVms(alloc, c)
    OBVIOUS
  <2>2. Cardinality(A) <= Cardinality(B) /\ Cardinality(A) \in Nat /\ Cardinality(B) \in Nat
    BY <1>3, <2>1, ChargesTyped, VmsCompared, VmsCounted
  <2>3. CapacityCharges(Nobody)[c] \in Nat /\ capacities' = capacities
    BY ChargesTyped DEF Shrinks
  <2>4. CASE capacities[c] = NoCapacity
    BY <2>3, <2>4 DEF CapacityCharges
  <2>5. CASE capacities[c] # NoCapacity
    BY <2>1, <2>2, <2>3, <2>5, GovernorAssumption DEF GovernorTypeOK, Limits, CapacityCharges, Charge, Larger
  <2> QED BY <2>4, <2>5
<1>6. PICK f, fn, h, hn :
        /\ f = GroupCharges(Nobody) /\ fn = GroupCharges(Nobody)'
        /\ h = CapacityCharges(Nobody) /\ hn = CapacityCharges(Nobody)'
  OBVIOUS
<1>7. /\ f \in [Groups -> Nat] /\ fn \in [Groups -> Nat]
      /\ h \in [Capacities -> Nat] /\ hn \in [Capacities -> Nat]
  BY <1>1, <1>6, ChargesTyped, ChargesTypedNext
<1>8. /\ Total(fn) \in Nat /\ Total(f) \in Nat /\ Total(fn) <= Total(f)
      /\ Total(hn) \in Nat /\ Total(h) \in Nat /\ Total(hn) <= Total(h)
  BY <1>4, <1>5, <1>6, <1>7, GovernorAssumption, TotalMonotone
<1>9. commitment(Nobody) = Total(f) + Total(h) /\ commitment(Nobody)' = Total(fn) + Total(hn)
  BY <1>6 DEF commitment
<1> QED BY <1>1, <1>8, <1>9, GovernorAssumption

\* reserve keeps the commitment within the parent: the one that asks uses its own floor first,
\* so one more token fits wherever the commitment without that floor leaves room.
LEMMA ReservingCommits ==
  ASSUME GovernorTypeOK, NEW g \in Groups, NEW v \in Vms, reserve(g, v),
         groups' = groups, capacities' = capacities, commitment(Nobody) <= MaxResident
  PROVE  GovernorTypeOK' /\ commitment(Nobody)' <= MaxResident
<1>1. /\ alloc' = [alloc EXCEPT ![v] = [group |-> g, phase |-> "Creating"]]
      /\ alloc[v] = NoAllocation /\ groups[g] # NoGroup
      /\ commitment(g) < MaxResident
      /\ alloc \in [Vms -> Allocation \cup {NoAllocation}]
      /\ g # Nobody
  BY GovernorAssumption DEF reserve, GovernorTypeOK, Nobody
<1>2. /\ alloc' \in [Vms -> Allocation \cup {NoAllocation}]
      /\ alloc'[v].group = g /\ alloc'[v] # NoAllocation
      /\ \A w \in Vms \ {v} : alloc'[w] = alloc[w]
  BY <1>1, AbsentAssumption DEF Allocation, VmAllocationState
<1>3. GovernorTypeOK'
  BY <1>2 DEF GovernorTypeOK, Independent
<1>4. /\ \A x \in Groups \ {g} : GroupVms(alloc', x) = GroupVms(alloc, x)
      /\ GroupVms(alloc', g) = GroupVms(alloc, g) \cup {v} /\ v \notin GroupVms(alloc, g)
  BY <1>1, <1>2 DEF GroupVms
<1>5. \A x \in Groups : Independent(x)' <=> Independent(x)
  BY DEF Independent
<1>6. \A c \in Capacities : Members(c)' = Members(c)
  BY DEF Members
<1>7. PICK f, fa, fn, h, ha, hn :
        /\ f = GroupCharges(Nobody) /\ fa = GroupCharges(g) /\ fn = GroupCharges(Nobody)'
        /\ h = CapacityCharges(Nobody) /\ ha = CapacityCharges(g) /\ hn = CapacityCharges(Nobody)'
  OBVIOUS
<1>8. /\ f \in [Groups -> Nat] /\ fa \in [Groups -> Nat] /\ fn \in [Groups -> Nat]
      /\ h \in [Capacities -> Nat] /\ ha \in [Capacities -> Nat] /\ hn \in [Capacities -> Nat]
  BY <1>3, <1>7, ChargesTyped, ChargesTypedNext
<1>9. /\ commitment(Nobody) = Total(f) + Total(h) /\ commitment(g) = Total(fa) + Total(ha)
      /\ commitment(Nobody)' = Total(fn) + Total(hn)
  BY <1>7 DEF commitment
<1>10. /\ Total(f) \in Nat /\ Total(fa) \in Nat /\ Total(fn) \in Nat
       /\ Total(h) \in Nat /\ Total(ha) \in Nat /\ Total(hn) \in Nat /\ MaxResident \in Nat
  BY <1>8, TotalMonotone, GovernorAssumption
<1>11. CASE Independent(g)
  <2>1. \A c \in Capacities : CapacityVms(alloc, c)' = CapacityVms(alloc, c)
    BY <1>4, <1>6, <1>11, GovernorAssumption DEF Members, Independent, CapacityVms
  <2>2. h = hn /\ h = ha
    BY <1>1, <1>7, <1>11, <2>1 DEF CapacityCharges, Independent
  <2>3. /\ groups[g].policy.min \in Nat
        /\ \A x \in Groups \ {g} : f[x] = fa[x] /\ f[x] = fn[x]
    BY <1>4, <1>5, <1>7, <1>11, GovernorAssumption DEF GovernorTypeOK, Independent, Group, Limits, GroupCharges,
       Charge, Nobody
  <2>4. PICK use, floor : use = Cardinality(GroupVms(alloc, g)) /\ floor = groups[g].policy.min
    OBVIOUS
  <2>5. use \in Nat /\ floor \in Nat /\ Cardinality(GroupVms(alloc', g)) = use + 1
    BY <1>4, <2>3, <2>4, ChargesTyped, VmsCounted, VmsAdded
  <2>6. f[g] = Larger(use, floor) /\ fa[g] = use /\ fn[g] = Larger(use + 1, floor)
    BY <1>1, <1>5, <1>7, <1>11, <2>4, <2>5 DEF GroupCharges, Charge
  <2>7. Total(fa) + Total(h) < MaxResident /\ Total(f) + Total(h) <= MaxResident
    BY <1>1, <1>9, <2>2
  <2>8. Total(fn) + Total(h) <= MaxResident
    BY <1>8, <1>10, <2>3, <2>5, <2>6, <2>7, GovernorAssumption, TotalReplaced DEF Larger
  <2> QED BY <1>3, <1>9, <2>2, <2>8
<1>12. CASE ~Independent(g)
  <2>1. PICK c \in Capacities : c = groups[g].capacity /\ capacities[c] # NoCapacity
    BY <1>1, <1>12 DEF GovernorTypeOK, Independent, Group
  <2>2. f = fn /\ f = fa
    BY <1>4, <1>5, <1>7, <1>12, GovernorAssumption DEF GroupCharges, Charge, Nobody
  <2>3. /\ CapacityVms(alloc, c)' = CapacityVms(alloc, c) \cup {v}
        /\ v \notin CapacityVms(alloc, c)
    BY <1>1, <1>4, <1>6, <2>1 DEF Members, GroupVms, CapacityVms
  <2>4. \A d \in Capacities \ {c} : CapacityVms(alloc, d)' = CapacityVms(alloc, d)
    BY <1>4, <1>6, <2>1 DEF Members, CapacityVms
  <2>5. /\ capacities[c].min \in Nat
        /\ \A d \in Capacities \ {c} : h[d] = ha[d] /\ h[d] = hn[d]
    <3>1. capacities[c].min \in Nat
      BY <2>1, GovernorAssumption DEF GovernorTypeOK, Limits
    <3>2. ASSUME NEW d \in Capacities \ {c} PROVE h[d] = ha[d] /\ h[d] = hn[d]
      BY <1>1, <1>7, <2>1, <2>4, GovernorAssumption DEF CapacityCharges, Charge
    <3> QED BY <3>1, <3>2
  <2>6. PICK use, floor : use = Cardinality(CapacityVms(alloc, c)) /\ floor = capacities[c].min
    OBVIOUS
  <2>7. use \in Nat /\ floor \in Nat /\ Cardinality(CapacityVms(alloc, c)') = use + 1
    BY <2>3, <2>5, <2>6, ChargesTyped, VmsCounted, VmsAdded
  <2>8. h[c] = Larger(use, floor) /\ ha[c] = use /\ hn[c] = Larger(use + 1, floor)
    BY <1>1, <1>7, <2>1, <2>6, <2>7, GovernorAssumption DEF CapacityCharges, Charge
  <2>9. Total(ha) + Total(f) < MaxResident /\ Total(h) + Total(f) <= MaxResident
    BY <1>1, <1>9, <1>10, <2>2
  <2>10. Total(hn) + Total(f) <= MaxResident
    BY <1>8, <1>10, <2>5, <2>7, <2>8, <2>9, GovernorAssumption, TotalReplaced DEF Larger
  <2> QED BY <1>3, <1>9, <1>10, <2>2, <2>10
<1> QED BY <1>11, <1>12

\* A registration is refused when its floor is no longer free.
LEMMA RegisteringCommits ==
  ASSUME GovernorTypeOK, NEW g \in Groups, NEW policy \in Limits,
         NEW c \in Capacities \cup {NoCapacity}, register_group(g, policy, c),
         capacities' = capacities, alloc' = alloc, GroupVms(alloc, g) = {},
         commitment(Nobody) <= MaxResident
  PROVE  GovernorTypeOK' /\ commitment(Nobody)' <= MaxResident
<1>1. /\ groups' = [groups EXCEPT ![g] = [policy |-> policy, capacity |-> c]]
      /\ groups[g] = NoGroup /\ groups \in [Groups -> Group \cup {NoGroup}]
      /\ c = NoCapacity => policy.min <= Free
      /\ c # NoCapacity => capacities[c] # NoCapacity
      /\ policy.min \in Nat
  BY GovernorAssumption DEF register_group, GroupAdmitted, GovernorTypeOK, Limits
<1>2. /\ groups' \in [Groups -> Group \cup {NoGroup}]
      /\ groups'[g] # NoGroup /\ groups'[g].policy = policy /\ groups'[g].capacity = c
      /\ \A x \in Groups \ {g} : groups'[x] = groups[x]
  BY <1>1, AbsentAssumption DEF Group
<1>3. GovernorTypeOK'
  BY <1>1, <1>2 DEF GovernorTypeOK, Independent
<1>4. \A x \in Groups \ {g} : Independent(x)' <=> Independent(x)
  BY <1>2 DEF Independent
<1>5. \A d \in Capacities : CapacityVms(alloc, d)' = CapacityVms(alloc, d)
  BY <1>1, <1>2 DEF Members, CapacityVms
<1>6. PICK f, fn, h, hn :
        /\ f = GroupCharges(Nobody) /\ fn = GroupCharges(Nobody)'
        /\ h = CapacityCharges(Nobody) /\ hn = CapacityCharges(Nobody)'
  OBVIOUS
<1>7. /\ f \in [Groups -> Nat] /\ fn \in [Groups -> Nat]
      /\ h \in [Capacities -> Nat] /\ hn \in [Capacities -> Nat]
  BY <1>3, <1>6, ChargesTyped, ChargesTypedNext
<1>8. h = hn
  BY <1>5, <1>6 DEF CapacityCharges
<1>9. \A x \in Groups \ {g} : f[x] = fn[x]
  BY <1>2, <1>4, <1>6 DEF GroupCharges
<1>10. f[g] = 0 /\ fn[g] = (IF c = NoCapacity THEN policy.min ELSE 0)
  <2>1. f[g] = 0
    BY <1>1, <1>6 DEF GroupCharges, Independent
  <2>2. Independent(g)' <=> c = NoCapacity
    BY <1>2 DEF Independent
  <2>3. c # NoCapacity => fn[g] = 0
    BY <1>6, <2>2 DEF GroupCharges
  <2>4. Cardinality({}) = 0 /\ GroupVms(alloc', g) = {} /\ g # Nobody
    BY FS_EmptySet, GovernorAssumption DEF Nobody
  <2>5. Cardinality(GroupVms(alloc', g)) = 0
    BY <2>4, Zenon
  <2>6. c = NoCapacity => fn[g] = Larger(0, policy.min)
    BY <1>2, <1>6, <2>2, <2>4, <2>5 DEF GroupCharges, Charge
  <2> QED BY <1>1, <2>1, <2>3, <2>6 DEF Larger
<1>11. Total(f) \in Nat /\ Total(fn) = Total(f) - f[g] + fn[g]
  BY <1>7, <1>9, GovernorAssumption, TotalReplaced
<1>12. Total(h) \in Nat
  BY <1>7, GovernorAssumption, TotalMonotone
<1>13. commitment(Nobody) = Total(f) + Total(h) /\ commitment(Nobody)' = Total(fn) + Total(hn)
  BY <1>6 DEF commitment
<1> QED BY <1>1, <1>3, <1>8, <1>10, <1>11, <1>12, <1>13, GovernorAssumption DEF Free

\* So is a capacity, and a revision that would promise more than is left.
LEMMA CapacityCommits ==
  ASSUME GovernorTypeOK, commitment(Nobody) <= MaxResident, NEW c \in Capacities,
         \/ \E limits \in Limits : register_capacity(c, limits) \/ revise_capacity(c, limits)
         \/ unregister_capacity(c)
  PROVE  /\ GovernorTypeOK' /\ commitment(Nobody)' <= MaxResident
         /\ groups' = groups /\ alloc' = alloc
<1>1. /\ groups' = groups /\ alloc' = alloc
      /\ capacities' \in [Capacities -> Limits \cup {NoCapacity}]
      /\ \A d \in Capacities \ {c} : capacities'[d] = capacities[d]
      /\ capacities'[c] = NoCapacity => Members(c) = {}
  BY AbsentAssumption
  DEF register_capacity, revise_capacity, unregister_capacity, GovernorTypeOK
<1>2. GovernorTypeOK'
  BY <1>1 DEF GovernorTypeOK, Independent, Members, Group
<1>3. \A d \in Capacities : CapacityVms(alloc, d)' = CapacityVms(alloc, d)
  BY <1>1 DEF CapacityVms, Members
<1>4. PICK f, h, hn :
        /\ f = GroupCharges(Nobody) /\ f = GroupCharges(Nobody)'
        /\ h = CapacityCharges(Nobody) /\ hn = CapacityCharges(Nobody)'
  BY <1>1 DEF GroupCharges, Independent
<1>5. /\ f \in [Groups -> Nat] /\ h \in [Capacities -> Nat] /\ hn \in [Capacities -> Nat]
  BY <1>2, <1>4, ChargesTyped, ChargesTypedNext
<1>6. \A d \in Capacities \ {c} : h[d] = hn[d]
  BY <1>1, <1>3, <1>4 DEF CapacityCharges
<1>7. /\ Total(h) \in Nat /\ Total(hn) = Total(h) - h[c] + hn[c] /\ h[c] <= Total(h)
      /\ h[c] \in Nat /\ hn[c] \in Nat
  BY <1>5, <1>6, GovernorAssumption, TotalReplaced
<1>8. Total(f) \in Nat
  BY <1>5, GovernorAssumption, TotalMonotone
<1>9. commitment(Nobody) = Total(f) + Total(h) /\ commitment(Nobody)' = Total(f) + Total(hn)
  BY <1>4 DEF commitment
<1>10. PICK use : use = Cardinality(CapacityVms(alloc, c)) /\ use \in Nat
  BY ChargesTyped, VmsCounted
<1>11. /\ h[c] = IF capacities[c] # NoCapacity THEN Larger(use, capacities[c].min) ELSE 0
       /\ hn[c] = IF capacities'[c] # NoCapacity THEN Larger(use, capacities'[c].min) ELSE 0
  BY <1>3, <1>4, <1>10, GovernorAssumption DEF CapacityCharges, Charge
<1>12. commitment(Nobody)' <= MaxResident
  <2>1. CASE unregister_capacity(c)
    BY <1>7, <1>8, <1>9, <1>11, <2>1, GovernorAssumption DEF unregister_capacity, GovernorTypeOK
  <2>2. ASSUME NEW limits \in Limits, register_capacity(c, limits)
        PROVE  commitment(Nobody)' <= MaxResident
    <3>1. /\ capacities[c] = NoCapacity /\ capacities'[c] = limits /\ limits # NoCapacity
          /\ limits.min <= Free /\ limits.min \in Nat
      BY <2>2, AbsentAssumption, GovernorAssumption
      DEF register_capacity, GovernorTypeOK, Limits
    <3>2. Members(c) = {}
      BY <3>1, GovernorAssumption DEF Members, GovernorTypeOK, Independent
    <3>3. CapacityVms(alloc, c) = {} /\ Cardinality({}) = 0
      BY <3>2, FS_EmptySet DEF CapacityVms
    <3>4. use = 0
      BY <1>10, <3>3, Zenon
    <3>5. h[c] = 0 /\ hn[c] = limits.min
      BY <1>11, <3>1, <3>4 DEF Larger
    <3> QED BY <1>7, <1>8, <1>9, <3>1, <3>5, GovernorAssumption DEF Free
  <2>3. ASSUME NEW limits \in Limits, revise_capacity(c, limits)
        PROVE  commitment(Nobody)' <= MaxResident
    BY <1>7, <1>8, <1>9, <1>10, <1>11, <2>3, AbsentAssumption, GovernorAssumption DEF revise_capacity, GovernorTypeOK
  <2> QED BY <2>1, <2>2, <2>3
<1> QED BY <1>1, <1>2, <1>12

\* The permits that are granted.
Executed == RunningOf(alloc, Resident(alloc))

LEMMA FewerExecuted ==
  ASSUME NEW v \in Vms,
         \A u \in Vms \ {v} : Charged(u)' /\ alloc'[u].phase = "Running"
                                => Charged(u) /\ alloc[u].phase = "Running",
         \/ Charged(v)' /\ alloc'[v].phase = "Running"
              => Charged(v) /\ alloc[v].phase = "Running"
         \/ Cardinality(Executed) < MaxRunning
  PROVE  Cardinality(Executed) <= MaxRunning => Cardinality(Executed') <= MaxRunning
<1>1. PICK A, B : A = Executed /\ B = Executed'
  OBVIOUS
<1>2. A \in SUBSET Vms /\ B \in SUBSET Vms /\ B \subseteq A \cup {v}
  BY <1>1 DEF Executed, RunningOf, Resident, Charged
<1>3. /\ Cardinality(A) \in Nat /\ Cardinality(B) \in Nat
      /\ A \cup {v} \in SUBSET Vms /\ Cardinality(A \cup {v}) \in Nat
      /\ Cardinality(B) <= Cardinality(A \cup {v})
  BY <1>2, VmsCounted, VmsCompared
<1>4. CASE B \subseteq A
  BY <1>1, <1>2, <1>3, <1>4, VmsCompared, GovernorAssumption
<1>5. CASE ~(B \subseteq A)
  BY <1>1, <1>2, <1>3, <1>5, VmsAdded, GovernorAssumption DEF Executed, RunningOf, Resident, Charged
<1> QED BY <1>4, <1>5

-----------------------------------------------------------------------------
(* Owners *)

\* What owns a VM owns it alone.
LEMMA OwnersApart ==
  ASSUME PoolInv
  PROVE  /\ \A l \in Leases : leases[l].vm # NoVm =>
              /\ leases[l].vm \in Vms /\ leases[l].vm \notin taken
              /\ leases[l].vm \notin ToSet(pending) /\ leases[l].vm # cleaner.vm
              /\ \A p \in Pools : Exists(p) => leases[l].vm \notin ToSet(pools[p].idle)
              /\ \A k \in Leases \ {l} : leases[k].vm # leases[l].vm
         /\ \A p \in Pools : Exists(p) => \A v \in ToSet(pools[p].idle) :
              /\ v \in Vms /\ v \notin taken /\ v \notin ToSet(pending) /\ v # cleaner.vm
              /\ \A q \in Pools \ {p} : Exists(q) => v \notin ToSet(pools[q].idle)
              /\ \A l \in Leases : leases[l].vm # v
         /\ \A v \in taken :
              /\ v \in Vms /\ v \notin ToSet(pending) /\ v # cleaner.vm
              /\ \A p \in Pools : Exists(p) => v \notin ToSet(pools[p].idle)
              /\ \A l \in Leases : leases[l].vm # v
         /\ \A v \in ToSet(pending) :
              /\ v \in Vms /\ v \notin taken /\ v # cleaner.vm
              /\ \A p \in Pools : Exists(p) => v \notin ToSet(pools[p].idle)
              /\ \A l \in Leases : leases[l].vm # v
<1>1. /\ leases \in [Leases -> Lease] /\ vms \in [Vms -> Vm]
      /\ pools \in [Pools -> Pool \cup {NoPool}]
      /\ taken \subseteq Vms /\ pending \in Seq(Vms) /\ NoVm \notin Vms
      /\ cleaner.pc \in {"waiting", "closing", "destroyed", "released", "exited"}
  BY PoolAssumption DEF PoolInv, PoolTypeOK
<1>2. \A v \in ToSet(pending) : v \in Vms
  BY <1>1 DEF ToSet
<1>3. \A p \in Pools : Exists(p) => \A v \in ToSet(pools[p].idle) : v \in Vms
  BY <1>1 DEF ToSet, Exists, Pool
<1>4. \A l \in Leases : leases[l].vm \in Vms \cup {NoVm}
  BY <1>1 DEF Lease
<1>5. \A v \in Vms : v = cleaner.vm => vms[v].receipt = "Running"
  BY <1>1 DEF PoolInv, Owners, CleanerVm
<1>6. \A v \in ToSet(pending) : vms[v].receipt \in {"Queued", "Retrying"}
  BY DEF PoolInv, Owners, QueuedVm
<1>7. \A v \in taken : vms[v].receipt = "Live"
  BY DEF PoolInv, Owners, TakenVm
<1>8. \A p \in Pools : Exists(p) => \A v \in ToSet(pools[p].idle) : vms[v].receipt = "Live" /\ vms[v].pool = p
  BY DEF PoolInv, Owners, IdleVm
<1>9. \A l \in Leases : leases[l].vm # NoVm => vms[leases[l].vm].receipt \in {"Live", "none"}
  BY DEF PoolInv, Owners, LeaseVm
<1>10. OwnedOnce
  BY DEF PoolInv
<1>11. ASSUME NEW l \in Leases, leases[l].vm # NoVm
       PROVE  /\ leases[l].vm \in Vms /\ leases[l].vm \notin taken
              /\ leases[l].vm \notin ToSet(pending) /\ leases[l].vm # cleaner.vm
              /\ \A p \in Pools : Exists(p) => leases[l].vm \notin ToSet(pools[p].idle)
              /\ \A k \in Leases \ {l} : leases[k].vm # leases[l].vm
  BY <1>4, <1>5, <1>6, <1>9, <1>10, <1>11 DEF OwnedOnce
<1>12. ASSUME NEW p \in Pools, Exists(p), NEW v \in ToSet(pools[p].idle)
       PROVE  /\ v \in Vms /\ v \notin taken /\ v \notin ToSet(pending) /\ v # cleaner.vm
              /\ \A q \in Pools \ {p} : Exists(q) => v \notin ToSet(pools[q].idle)
              /\ \A l \in Leases : leases[l].vm # v
  BY <1>3, <1>5, <1>6, <1>8, <1>10, <1>12 DEF OwnedOnce
<1>13. ASSUME NEW v \in taken
       PROVE  /\ v \in Vms /\ v \notin ToSet(pending) /\ v # cleaner.vm
              /\ \A p \in Pools : Exists(p) => v \notin ToSet(pools[p].idle)
              /\ \A l \in Leases : leases[l].vm # v
  BY <1>1, <1>5, <1>6, <1>7, <1>10, <1>13 DEF OwnedOnce
<1>14. ASSUME NEW v \in ToSet(pending)
       PROVE  /\ v \in Vms /\ v \notin taken /\ v # cleaner.vm
              /\ \A p \in Pools : Exists(p) => v \notin ToSet(pools[p].idle)
              /\ \A l \in Leases : leases[l].vm # v
  BY <1>1, <1>2, <1>5, <1>6, <1>7, <1>8, <1>9, <1>14
<1> HIDE DEF Exists
<1> QED BY <1>11, <1>12, <1>13, <1>14, Zenon

\* A VM that a step leaves alone stays what it was.
LEMMA OthersStay ==
  ASSUME NEW V, \A u \in Vms \ V : alloc'[u] = alloc[u] /\ vms'[u] = vms[u]
  PROVE  /\ \A u \in Vms \ V :
              /\ Charged(u)' <=> Charged(u)
              /\ TakenVm(u) => TakenVm(u)'
              /\ QueuedVm(u) => QueuedVm(u)'
              /\ \A p \in Pools :
                   IdleVm(p, u) /\ pools'[p].closed = pools[p].closed
                     /\ pools'[p].max_uses = pools[p].max_uses => IdleVm(p, u)'
         /\ \A k \in Leases :
              leases'[k] = leases[k] /\ leases[k].vm \in (Vms \ V) \cup {NoVm} /\ LeaseVm(k)
                => LeaseVm(k)'
BY DEF Charged, TakenVm, QueuedVm, IdleVm, BelowUses, LeaseVm

\* Steps that leave the idle lists and the admission of the pools alone.
PoolsStill ==
  \A p \in Pools :
    /\ Exists(p)' <=> Exists(p)
    /\ Exists(p) =>
         /\ pools'[p].held = pools[p].held /\ pools'[p].closed = pools[p].closed
         /\ pools'[p].idle = pools[p].idle /\ pools'[p].max_uses = pools[p].max_uses

\* A lease goes on with the VM it has, gives its token back, or hands it to retirement.
GoesOn(l, v) == leases'[l].vm = v /\ LeaseVm(l)' /\ pending' = pending
GivesBack(l, v) ==
  /\ leases'[l].vm = NoVm /\ pending' = pending
  /\ v \in Vms => ~Charged(v)' /\ ~vms'[v].alive /\ vms'[v].receipt = "none"
Retires(l, v) ==
  v \in Vms /\ leases'[l].vm = NoVm /\ pending' = Append(pending, v) /\ QueuedVm(v)'

LEMMA LeaseMoves ==
  ASSUME PoolInv, PoolsStill, NEW l \in Leases, NEW v, leases[l].vm = v,
         leases' \in [Leases -> Lease], \A k \in Leases \ {l} : leases'[k] = leases[k],
         \A u \in Vms \ {v} : alloc'[u] = alloc[u] /\ vms'[u] = vms[u],
         UNCHANGED <<taken, cleaner>>, LeaseShape(l)',
         GoesOn(l, v) \/ GivesBack(l, v) \/ Retires(l, v)
  PROVE  Owners' /\ OwnedOnce'
<1>1. /\ v \in Vms \cup {NoVm} /\ v \notin taken /\ v \notin ToSet(pending)
      /\ v \in Vms => v # cleaner.vm /\ v # NoVm
      /\ \A p \in Pools : Exists(p) => v \notin ToSet(pools[p].idle)
      /\ \A k \in Leases \ {l} : leases[k].vm \in (Vms \ {v}) \cup {NoVm}
  BY OwnersApart, PoolAssumption DEF PoolInv, PoolTypeOK, Lease
<1>2. /\ leases \in [Leases -> Lease] /\ taken \subseteq Vms
      /\ \A k \in Leases : leases[k].vm \in Vms \cup {NoVm}
      /\ cleaner.vm \in Vms \cup {NoVm} /\ NoVm \notin Vms
      /\ cleaner.pc \in {"waiting", "closing", "destroyed", "released", "exited"}
  BY PoolAssumption DEF PoolInv, PoolTypeOK, Lease
<1>3. /\ \A u \in ToSet(pending) : u \in Vms
      /\ \A p \in Pools : Exists(p) => \A u \in ToSet(pools[p].idle) : u \in Vms
  BY OwnersApart
<1>4. /\ \A u \in Vms \ {v} :
              /\ Charged(u)' <=> Charged(u)
              /\ TakenVm(u) => TakenVm(u)'
              /\ QueuedVm(u) => QueuedVm(u)'
              /\ \A p \in Pools :
                   IdleVm(p, u) /\ pools'[p].closed = pools[p].closed
                     /\ pools'[p].max_uses = pools[p].max_uses => IdleVm(p, u)'
      /\ \A k \in Leases :
              leases'[k] = leases[k] /\ leases[k].vm \in (Vms \ {v}) \cup {NoVm} /\ LeaseVm(k)
                => LeaseVm(k)'
  BY OthersStay
<1>5. \A k \in Leases : LeaseShape(k)' /\ LeaseVm(k)'
  <2>1. ASSUME NEW k \in Leases \ {l} PROVE LeaseShape(k)' /\ LeaseVm(k)'
    BY <1>1, <1>2, <1>4 DEF PoolInv, Owners, LeaseShape, PoolsStill, Exists
  <2>2. LeaseVm(l)'
    BY DEF LeaseVm, GoesOn, GivesBack, Retires
  <2> QED BY <2>1, <2>2
<1>6. \A p \in Pools : Exists(p)' => \A u \in ToSet(pools'[p].idle) : IdleVm(p, u)'
  BY <1>1, <1>3, <1>4 DEF PoolsStill, PoolInv, Owners
<1>7. \A u \in taken' : TakenVm(u)'
  BY <1>1, <1>2, <1>4 DEF PoolInv, Owners
<1>8. /\ ToSet(pending') = ToSet(pending) \cup (IF Retires(l, v) THEN {v} ELSE {})
      /\ Injective(pending')
  <2>1. pending \in Seq(Vms) /\ Injective(pending) /\ v \notin ToSet(pending)
    BY <1>1 DEF PoolInv, PoolTypeOK, OwnedOnce
  <2>2. CASE Retires(l, v)
    BY <2>1, <2>2, AppendOwns DEF Retires, ToSet, Owned
  <2>3. CASE ~Retires(l, v)
    BY <2>1, <2>3 DEF GoesOn, GivesBack
  <2> QED BY <2>2, <2>3
<1>13. \A u \in ToSet(pending') : QueuedVm(u)'
  BY <1>1, <1>3, <1>4, <1>8 DEF PoolInv, Owners, Retires
<1>9. CleanerVm'
  BY <1>1, <1>2 DEF PoolInv, Owners, CleanerVm, Charged
<1>10. ASSUME NEW u \in Vms PROVE FreeVm(u)' /\ (Charged(u)' => Placed(u)')
  <2>1. CASE u = v
    BY <1>1, <1>8, <2>1 DEF LeaseVm, GoesOn, FreeVm, Placed, GivesBack, Retires, QueuedVm
  <2>2. CASE u # v
    BY <1>8, <2>2 DEF PoolInv, Owners, FreeVm, Charged, PoolsStill, Placed
  <2> QED BY <2>1, <2>2
<1>11. Owners'
  BY <1>5, <1>6, <1>7, <1>9, <1>10, <1>13 DEF Owners
<1>12. OwnedOnce'
  BY <1>2, <1>3, <1>8 DEF PoolInv, GoesOn, GivesBack, Retires, PoolsStill, OwnedOnce
<1> QED BY <1>11, <1>12

\* Only pool p changes, and it stays what its VMs were made for.
OnlyPool(p) ==
  /\ Exists(p) /\ Exists(p)' /\ pools'[p].max_uses = pools[p].max_uses
  /\ \A q \in Pools \ {p} : pools'[q] = pools[q]

\* Where nothing is executed, queued or destroyed, VMs only change hands.
HandsOnly == UNCHANGED <<alloc, vms, pending, cleaner>>

LEMMA HandsChange ==
  ASSUME PoolInv, HandsOnly
  PROVE  /\ \A u \in ToSet(pending') : QueuedVm(u)'
         /\ CleanerVm' /\ Injective(pending')
         /\ \A u \in Vms : /\ FreeVm(u)' /\ (Charged(u)' <=> Charged(u))
                           /\ TakenVm(u)' <=> TakenVm(u)
         /\ \A k \in Leases : leases'[k] = leases[k] /\ LeaseVm(k) => LeaseVm(k)'
         /\ \A p \in Pools, u \in Vms :
              IdleVm(p, u) /\ pools'[p].closed = pools[p].closed
                /\ pools'[p].max_uses = pools[p].max_uses => IdleVm(p, u)'
BY DEF PoolInv, Owners, OwnedOnce, HandsOnly, QueuedVm, CleanerVm, Charged, FreeVm, TakenVm, LeaseVm, IdleVm,
   BelowUses

\* close, close_next and retire_expired take VMs out of an idle list.
LEMMA IdleTaken ==
  ASSUME PoolInv, NEW p \in Pools, OnlyPool(p), HandsOnly, leases' = leases,
         NEW S \in SUBSET ToSet(pools[p].idle), taken' = taken \cup S,
         ToSet(pools'[p].idle) = ToSet(pools[p].idle) \ S, Injective(pools'[p].idle),
         pools'[p].held = pools[p].held,
         pools'[p].closed = pools[p].closed \/ ToSet(pools'[p].idle) = {}
  PROVE  Owners' /\ OwnedOnce'
<1>1. /\ \A u \in ToSet(pending') : QueuedVm(u)'
      /\ CleanerVm' /\ Injective(pending')
      /\ \A u \in Vms : /\ FreeVm(u)' /\ (Charged(u)' <=> Charged(u))
                        /\ TakenVm(u)' <=> TakenVm(u)
      /\ \A k \in Leases : leases'[k] = leases[k] /\ LeaseVm(k) => LeaseVm(k)'
      /\ \A q \in Pools, u \in Vms :
           IdleVm(q, u) /\ pools'[q].closed = pools[q].closed
             /\ pools'[q].max_uses = pools[q].max_uses => IdleVm(q, u)'
  BY HandsChange
<1>2. \A q \in Pools : Exists(q) => \A v \in ToSet(pools[q].idle) :
              /\ v \in Vms /\ v \notin taken
              /\ \A r \in Pools \ {q} : Exists(r) => v \notin ToSet(pools[r].idle)
              /\ \A l \in Leases : leases[l].vm # v
  BY OwnersApart
<1>3. /\ Exists(p) /\ Exists(p)' /\ pools'[p].max_uses = pools[p].max_uses
      /\ \A q \in Pools \ {p} : pools'[q] = pools[q] /\ (Exists(q)' <=> Exists(q))
      /\ taken \subseteq Vms
  BY DEF OnlyPool, PoolInv, PoolTypeOK, Exists
<1>4. \A k \in Leases : LeaseShape(k)' /\ LeaseVm(k)'
  BY <1>1, <1>3 DEF PoolInv, Owners, LeaseShape, Exists
<1>5. ASSUME NEW q \in Pools, Exists(q)', NEW u \in ToSet(pools'[q].idle) PROVE IdleVm(q, u)'
  BY <1>1, <1>2, <1>3, <1>5 DEF PoolInv, Owners
<1>6. \A u \in taken' : TakenVm(u)'
  BY <1>1, <1>2, <1>3 DEF PoolInv, Owners, IdleVm, TakenVm
<1>7. ASSUME NEW u \in Vms, Charged(u)' PROVE Placed(u)'
  BY <1>1, <1>3, <1>7 DEF PoolInv, Owners, Placed, HandsOnly
<1>8. Owners'
  BY <1>1, <1>4, <1>5, <1>6, <1>7 DEF Owners
<1>9. OwnedOnce'
  BY <1>1, <1>2, <1>3 DEF PoolInv, OwnedOnce
<1> QED BY <1>8, <1>9

\* prepare_with_budget takes an idle VM.
LEMMA IdleLeased ==
  ASSUME PoolInv, NEW p \in Pools, OnlyPool(p), HandsOnly, taken' = taken,
         NEW l \in Leases, leases[l].vm = NoVm, \A k \in Leases \ {l} : leases'[k] = leases[k],
         NEW v \in ToSet(pools[p].idle),
         leases'[l].vm = v, leases'[l].pc = "open", leases'[l].pool = p,
         ToSet(pools'[p].idle) = ToSet(pools[p].idle) \ {v}, Injective(pools'[p].idle),
         pools'[p].held = pools[p].held, pools[p].held, pools'[p].closed = pools[p].closed
  PROVE  Owners' /\ OwnedOnce'
<1>1. /\ \A u \in ToSet(pending') : QueuedVm(u)'
      /\ CleanerVm' /\ Injective(pending')
      /\ \A u \in Vms : /\ FreeVm(u)' /\ (Charged(u)' <=> Charged(u))
                        /\ TakenVm(u)' <=> TakenVm(u)
      /\ \A k \in Leases : leases'[k] = leases[k] /\ LeaseVm(k) => LeaseVm(k)'
      /\ \A q \in Pools, u \in Vms :
           IdleVm(q, u) /\ pools'[q].closed = pools[q].closed
             /\ pools'[q].max_uses = pools[q].max_uses => IdleVm(q, u)'
  BY HandsChange
<1>2. \A q \in Pools : Exists(q) => \A u \in ToSet(pools[q].idle) :
              /\ u \in Vms /\ u \notin taken
              /\ \A r \in Pools \ {q} : Exists(r) => u \notin ToSet(pools[r].idle)
              /\ \A k \in Leases : leases[k].vm # u
  BY OwnersApart
<1>3. /\ Exists(p) /\ Exists(p)' /\ pools'[p].max_uses = pools[p].max_uses
      /\ \A q \in Pools \ {p} : pools'[q] = pools[q] /\ (Exists(q)' <=> Exists(q))
      /\ taken \subseteq Vms /\ NoVm \notin Vms
  BY PoolAssumption DEF OnlyPool, PoolInv, PoolTypeOK, Exists
<1>4. \A k \in Leases : LeaseShape(k)' /\ LeaseVm(k)'
  <2>1. ASSUME NEW k \in Leases \ {l} PROVE LeaseShape(k)' /\ LeaseVm(k)'
    <3>1. LeaseShape(k) /\ LeaseVm(k)
      BY DEF PoolInv, Owners
    <3>2. LeaseShape(k)'
      <4>1. \A q \in Pools : Exists(q) => Exists(q)' /\ pools'[q].held = pools[q].held
        BY <1>3
      <4> QED BY <4>1, <3>1 DEF LeaseShape, Exists
    <3> QED BY <1>1, <3>1, <3>2
  <2>2. LeaseShape(l)'
    BY <1>2, <1>3 DEF LeaseShape, Exists
  <2>3. LeaseVm(l)'
    BY <1>1, <1>2, <1>3 DEF PoolInv, Owners, LeaseVm, IdleVm, HandsOnly, Executing, Charged
  <2> QED BY <2>1, <2>2, <2>3
<1>5. ASSUME NEW q \in Pools, Exists(q)', NEW u \in ToSet(pools'[q].idle) PROVE IdleVm(q, u)'
  BY <1>1, <1>2, <1>3, <1>5 DEF PoolInv, Owners
<1>6. \A u \in taken' : TakenVm(u)'
  BY <1>1, <1>3 DEF PoolInv, Owners
<1>7. ASSUME NEW u \in Vms, Charged(u)' PROVE Placed(u)'
  BY <1>1, <1>3, <1>7 DEF PoolInv, Owners, Placed, HandsOnly
<1>8. Owners'
  BY <1>1, <1>4, <1>5, <1>6, <1>7 DEF Owners
<1>9. OwnedOnce'
  BY <1>1, <1>2, <1>3 DEF PoolInv, OwnedOnce
<1> QED BY <1>8, <1>9

\* A lease that ends returns its VM to an open pool.
LEMMA IdleReturned ==
  ASSUME PoolInv, NEW p \in Pools, OnlyPool(p), HandsOnly, taken' = taken,
         NEW l \in Leases, \A k \in Leases \ {l} : leases'[k] = leases[k],
         NEW v \in Vms, leases[l].vm = v, leases'[l].vm = NoVm, LeaseShape(l)',
         ToSet(pools'[p].idle) = ToSet(pools[p].idle) \cup {v}, Injective(pools'[p].idle),
         pools'[p].held = pools[p].held, pools'[p].closed = pools[p].closed, IdleVm(p, v)
  PROVE  Owners' /\ OwnedOnce'
<1>1. /\ \A u \in ToSet(pending') : QueuedVm(u)'
      /\ CleanerVm' /\ Injective(pending')
      /\ \A u \in Vms : /\ FreeVm(u)' /\ (Charged(u)' <=> Charged(u))
                        /\ TakenVm(u)' <=> TakenVm(u)
      /\ \A k \in Leases : leases'[k] = leases[k] /\ LeaseVm(k) => LeaseVm(k)'
      /\ \A q \in Pools, u \in Vms :
           IdleVm(q, u) /\ pools'[q].closed = pools[q].closed
             /\ pools'[q].max_uses = pools[q].max_uses => IdleVm(q, u)'
  BY HandsChange
<1>2. \A q \in Pools : Exists(q) => \A u \in ToSet(pools[q].idle) :
              /\ u \in Vms /\ u \notin taken
              /\ \A r \in Pools \ {q} : Exists(r) => u \notin ToSet(pools[r].idle)
              /\ \A k \in Leases : leases[k].vm # u
  BY OwnersApart
<1>3. /\ Exists(p) /\ Exists(p)' /\ pools'[p].max_uses = pools[p].max_uses
      /\ \A q \in Pools \ {p} : pools'[q] = pools[q] /\ (Exists(q)' <=> Exists(q))
      /\ taken \subseteq Vms /\ NoVm \notin Vms
  BY PoolAssumption DEF OnlyPool, PoolInv, PoolTypeOK, Exists
<1>10. /\ v \notin taken /\ \A k \in Leases \ {l} : leases[k].vm # v
       /\ \A q \in Pools : Exists(q) => v \notin ToSet(pools[q].idle)
  BY <1>3, OwnersApart
<1>4. \A k \in Leases : LeaseShape(k)' /\ LeaseVm(k)'
  BY <1>1, <1>3 DEF PoolInv, Owners, LeaseShape, Exists, LeaseVm
<1>5. ASSUME NEW q \in Pools, Exists(q)', NEW u \in ToSet(pools'[q].idle) PROVE IdleVm(q, u)'
  BY <1>1, <1>2, <1>3, <1>5 DEF PoolInv, Owners
<1>6. \A u \in taken' : TakenVm(u)'
  BY <1>1, <1>3 DEF PoolInv, Owners
<1>7. ASSUME NEW u \in Vms, Charged(u)' PROVE Placed(u)'
  BY <1>1, <1>3, <1>7 DEF PoolInv, Owners, Placed, HandsOnly
<1>8. Owners'
  BY <1>1, <1>4, <1>5, <1>6, <1>7 DEF Owners
<1>9. OwnedOnce'
  BY <1>1, <1>2, <1>3, <1>10 DEF PoolInv, OwnedOnce
<1> QED BY <1>8, <1>9

\* prepare_with_budget reserves a token nobody owns.
LEMMA TokenReserved ==
  ASSUME PoolInv, NEW l \in Leases, leases[l].vm = NoVm, NEW v \in Vms, v # cleaner.vm,
         ~Charged(v), \A k \in Leases \ {l} : leases'[k] = leases[k], leases'[l].vm = v,
         \A u \in Vms \ {v} : alloc'[u] = alloc[u] /\ vms'[u] = vms[u],
         UNCHANGED <<pools, taken, pending, cleaner>>, LeaseShape(l)', LeaseVm(l)'
  PROVE  Owners' /\ OwnedOnce'
<1>1. /\ v \notin taken /\ v \notin ToSet(pending) /\ v # cleaner.vm
      /\ \A p \in Pools : Exists(p) => v \notin ToSet(pools[p].idle)
      /\ \A k \in Leases : leases[k].vm # v
  BY PoolAssumption DEF PoolInv, Owners, LeaseVm, TakenVm, QueuedVm, IdleVm
<1>2. /\ leases \in [Leases -> Lease] /\ taken \subseteq Vms
      /\ \A k \in Leases : leases[k].vm \in Vms \cup {NoVm}
      /\ cleaner.vm \in Vms \cup {NoVm} /\ NoVm \notin Vms
      /\ cleaner.pc \in {"waiting", "closing", "destroyed", "released", "exited"}
      /\ pending \in Seq(Vms) /\ OwnedOnce
      /\ \A u \in ToSet(pending) : u \in Vms
      /\ \A q \in Pools : Exists(q) => \A u \in ToSet(pools[q].idle) : u \in Vms
  BY PoolAssumption, OwnersApart DEF PoolInv, PoolTypeOK, Lease
<1>3. /\ \A u \in Vms \ {v} :
              /\ Charged(u)' <=> Charged(u)
              /\ TakenVm(u) => TakenVm(u)'
              /\ QueuedVm(u) => QueuedVm(u)'
              /\ \A q \in Pools :
                   IdleVm(q, u) /\ pools'[q].closed = pools[q].closed
                     /\ pools'[q].max_uses = pools[q].max_uses => IdleVm(q, u)'
      /\ \A k \in Leases :
              leases'[k] = leases[k] /\ leases[k].vm \in (Vms \ {v}) \cup {NoVm} /\ LeaseVm(k)
                => LeaseVm(k)'
  BY OthersStay
<1>4. \A k \in Leases : LeaseShape(k)' /\ LeaseVm(k)'
  BY <1>1, <1>2, <1>3 DEF PoolInv, Owners, LeaseShape
<1>5. ASSUME NEW p \in Pools, Exists(p)', NEW u \in ToSet(pools'[p].idle) PROVE IdleVm(p, u)'
  BY <1>1, <1>2, <1>3, <1>5 DEF PoolInv, Owners, Exists
<1>6. \A u \in taken' : TakenVm(u)'
  BY <1>1, <1>2, <1>3 DEF PoolInv, Owners
<1>7. \A u \in ToSet(pending') : QueuedVm(u)'
  BY <1>1, <1>2, <1>3 DEF PoolInv, Owners
<1>8. CleanerVm'
  BY <1>1, <1>2 DEF PoolInv, Owners, CleanerVm, Charged
<1>9. ASSUME NEW u \in Vms PROVE FreeVm(u)' /\ (Charged(u)' => Placed(u)')
  BY <1>2 DEF LeaseVm, FreeVm, Placed, PoolInv, Owners, Charged, Exists
<1>10. Owners'
  BY <1>4, <1>5, <1>6, <1>7, <1>8, <1>9 DEF Owners
<1>11. OwnedOnce'
  BY <1>1, <1>2 DEF OwnedOnce, Exists
<1> QED BY <1>10, <1>11

\* enqueue: a VM in somebody's hands reaches the worker's queue.
LEMMA TakenQueued ==
  ASSUME PoolInv, NEW v \in taken, taken' = taken \ {v}, pending' = Append(pending, v),
         \A u \in Vms \ {v} : alloc'[u] = alloc[u] /\ vms'[u] = vms[u],
         UNCHANGED <<pools, leases, cleaner>>, QueuedVm(v)'
  PROVE  Owners' /\ OwnedOnce'
<1>1. /\ v \in Vms /\ v \notin ToSet(pending) /\ v # cleaner.vm
      /\ \A p \in Pools : Exists(p) => v \notin ToSet(pools[p].idle)
      /\ \A k \in Leases : leases[k].vm # v
  BY OwnersApart
<1>2. /\ leases \in [Leases -> Lease] /\ taken \subseteq Vms
      /\ \A k \in Leases : leases[k].vm \in Vms \cup {NoVm}
      /\ cleaner.vm \in Vms \cup {NoVm} /\ NoVm \notin Vms
      /\ cleaner.pc \in {"waiting", "closing", "destroyed", "released", "exited"}
      /\ pending \in Seq(Vms) /\ OwnedOnce
      /\ \A u \in ToSet(pending) : u \in Vms
      /\ \A q \in Pools : Exists(q) => \A u \in ToSet(pools[q].idle) : u \in Vms
  BY PoolAssumption, OwnersApart DEF PoolInv, PoolTypeOK, Lease
<1>3. /\ \A u \in Vms \ {v} :
              /\ Charged(u)' <=> Charged(u)
              /\ TakenVm(u) => TakenVm(u)'
              /\ QueuedVm(u) => QueuedVm(u)'
              /\ \A q \in Pools :
                   IdleVm(q, u) /\ pools'[q].closed = pools[q].closed
                     /\ pools'[q].max_uses = pools[q].max_uses => IdleVm(q, u)'
      /\ \A k \in Leases :
              leases'[k] = leases[k] /\ leases[k].vm \in (Vms \ {v}) \cup {NoVm} /\ LeaseVm(k)
                => LeaseVm(k)'
  BY OthersStay
<1>4. \A k \in Leases : LeaseShape(k)' /\ LeaseVm(k)'
  BY <1>1, <1>2, <1>3 DEF PoolInv, Owners, LeaseShape
<1>5. ASSUME NEW p \in Pools, Exists(p)', NEW u \in ToSet(pools'[p].idle) PROVE IdleVm(p, u)'
  BY <1>1, <1>2, <1>3, <1>5 DEF PoolInv, Owners, Exists
<1>6. \A u \in taken' : TakenVm(u)'
  BY <1>1, <1>2, <1>3 DEF PoolInv, Owners
<1>7. ToSet(pending') = ToSet(pending) \cup {v} /\ Injective(pending')
  BY <1>1, <1>2, AppendOwns DEF ToSet, Owned, OwnedOnce
<1>12. \A u \in ToSet(pending') : QueuedVm(u)'
  BY <1>1, <1>2, <1>3, <1>7 DEF PoolInv, Owners
<1>8. CleanerVm'
  BY <1>1, <1>2 DEF PoolInv, Owners, CleanerVm, Charged
<1>9. ASSUME NEW u \in Vms PROVE FreeVm(u)' /\ (Charged(u)' => Placed(u)')
  BY <1>7 DEF FreeVm, Placed, QueuedVm, PoolInv, Owners, Charged, Exists
<1>10. Owners'
  BY <1>4, <1>5, <1>6, <1>8, <1>9, <1>12 DEF Owners
<1>11. OwnedOnce'
  BY <1>2, <1>7 DEF OwnedOnce, Exists
<1> QED BY <1>10, <1>11

\* The worker moves the VM at the head of its queue, or the one it has.
LEMMA CleanerMoves ==
  ASSUME PoolInv, PoolsStill, NEW v \in Vms, v \in ToSet(pending) \/ v = cleaner.vm,
         cleaner.vm \in {v, NoVm},
         \A u \in Vms \ {v} : alloc'[u] = alloc[u] /\ vms'[u] = vms[u],
         UNCHANGED <<leases, taken>>, CleanerVm', cleaner'.vm \in {v, NoVm},
         ToSet(pending') \ {v} = ToSet(pending) \ {v}, Injective(pending'),
         v \in ToSet(pending') => QueuedVm(v)',
         FreeVm(v)', Charged(v)' => v \in ToSet(pending') \/ cleaner'.pc \in {"closing", "destroyed"},
         Charged(v)' /\ cleaner'.pc \in {"closing", "destroyed"} => cleaner'.vm = v
  PROVE  Owners' /\ OwnedOnce'
<1>1. /\ v \notin taken
      /\ \A p \in Pools : Exists(p) => v \notin ToSet(pools[p].idle)
      /\ \A k \in Leases : leases[k].vm # v
  BY PoolAssumption, OwnersApart
<1>2. /\ leases \in [Leases -> Lease] /\ taken \subseteq Vms
      /\ \A k \in Leases : leases[k].vm \in Vms \cup {NoVm}
      /\ cleaner.vm \in Vms \cup {NoVm} /\ NoVm \notin Vms
      /\ cleaner.pc \in {"waiting", "closing", "destroyed", "released", "exited"}
      /\ pending \in Seq(Vms) /\ OwnedOnce
      /\ \A u \in ToSet(pending) : u \in Vms
      /\ \A q \in Pools : Exists(q) => \A u \in ToSet(pools[q].idle) : u \in Vms
  BY PoolAssumption, OwnersApart DEF PoolInv, PoolTypeOK, Lease
<1>3. /\ \A u \in Vms \ {v} :
              /\ Charged(u)' <=> Charged(u)
              /\ TakenVm(u) => TakenVm(u)'
              /\ QueuedVm(u) => QueuedVm(u)'
              /\ \A q \in Pools :
                   IdleVm(q, u) /\ pools'[q].closed = pools[q].closed
                     /\ pools'[q].max_uses = pools[q].max_uses => IdleVm(q, u)'
      /\ \A k \in Leases :
              leases'[k] = leases[k] /\ leases[k].vm \in (Vms \ {v}) \cup {NoVm} /\ LeaseVm(k)
                => LeaseVm(k)'
  BY OthersStay
<1>4. \A k \in Leases : LeaseShape(k)' /\ LeaseVm(k)'
  BY <1>1, <1>2, <1>3 DEF PoolInv, Owners, LeaseShape, PoolsStill, Exists
<1>5. ASSUME NEW p \in Pools, Exists(p)', NEW u \in ToSet(pools'[p].idle) PROVE IdleVm(p, u)'
  <2>1. /\ Exists(p) /\ u \in ToSet(pools[p].idle)
        /\ pools'[p].closed = pools[p].closed /\ pools'[p].max_uses = pools[p].max_uses
    BY <1>5 DEF PoolsStill
  <2>2. IdleVm(p, u) /\ u \in Vms \ {v}
    BY <1>1, <1>2, <2>1 DEF PoolInv, Owners
  <2> QED BY <1>3, <2>1, <2>2
<1>6. \A u \in taken' : TakenVm(u)'
  BY <1>1, <1>2, <1>3 DEF PoolInv, Owners
<1>7. \A u \in ToSet(pending') : QueuedVm(u)'
  BY <1>1, <1>2, <1>3 DEF PoolInv, Owners
<1>9. ASSUME NEW u \in Vms PROVE FreeVm(u)' /\ (Charged(u)' => Placed(u)')
  BY <1>2 DEF Placed, PoolInv, Owners, FreeVm, Charged, PoolsStill
<1>10. Owners'
  BY <1>4, <1>5, <1>6, <1>7, <1>9 DEF Owners
<1>11. OwnedOnce'
  BY <1>2 DEF PoolsStill, OwnedOnce
<1> QED BY <1>10, <1>11

\* The last owner of a pool hands its idle VMs to retirement.
LEMMA IdleQueued ==
  ASSUME PoolInv, NEW p \in Pools, OnlyPool(p), NEW V, V = ToSet(pools[p].idle),
         ToSet(pools'[p].idle) = {}, Injective(pools'[p].idle),
         \A l \in Leases : leases[l].pool # p, UNCHANGED <<leases, taken, cleaner>>,
         pending' = pending \o pools[p].idle, \A v \in V : QueuedVm(v)',
         \A u \in Vms \ V : alloc'[u] = alloc[u] /\ vms'[u] = vms[u]
  PROVE  Owners' /\ OwnedOnce'
<1>1. \A v \in V :
        /\ v \in Vms /\ v \notin taken /\ v \notin ToSet(pending) /\ v # cleaner.vm
        /\ \A q \in Pools \ {p} : Exists(q) => v \notin ToSet(pools[q].idle)
        /\ \A k \in Leases : leases[k].vm # v
  BY OwnersApart DEF OnlyPool
<1>2. /\ leases \in [Leases -> Lease] /\ taken \subseteq Vms
      /\ \A k \in Leases : leases[k].vm \in Vms \cup {NoVm}
      /\ cleaner.vm \in Vms \cup {NoVm} /\ NoVm \notin Vms
      /\ cleaner.pc \in {"waiting", "closing", "destroyed", "released", "exited"}
      /\ pending \in Seq(Vms) /\ OwnedOnce
      /\ \A u \in ToSet(pending) : u \in Vms
      /\ \A q \in Pools : Exists(q) => \A u \in ToSet(pools[q].idle) : u \in Vms
  BY PoolAssumption, OwnersApart DEF PoolInv, PoolTypeOK, Lease
<1>3. /\ \A u \in Vms \ V :
              /\ Charged(u)' <=> Charged(u)
              /\ TakenVm(u) => TakenVm(u)'
              /\ QueuedVm(u) => QueuedVm(u)'
              /\ \A q \in Pools :
                   IdleVm(q, u) /\ pools'[q].closed = pools[q].closed
                     /\ pools'[q].max_uses = pools[q].max_uses => IdleVm(q, u)'
      /\ \A k \in Leases :
              leases'[k] = leases[k] /\ leases[k].vm \in (Vms \ V) \cup {NoVm} /\ LeaseVm(k)
                => LeaseVm(k)'
  BY OthersStay
<1>0. /\ Exists(p) /\ Exists(p)'
      /\ \A q \in Pools \ {p} : pools'[q] = pools[q] /\ (Exists(q)' <=> Exists(q))
      /\ pools[p].idle \in Seq(Vms)
  BY DEF OnlyPool, Exists, PoolInv, PoolTypeOK, Pool
<1>4. \A k \in Leases : LeaseShape(k)' /\ LeaseVm(k)'
  BY <1>0, <1>1, <1>2, <1>3 DEF PoolInv, Owners, LeaseShape
<1>5. ASSUME NEW q \in Pools, Exists(q)', NEW u \in ToSet(pools'[q].idle) PROVE IdleVm(q, u)'
  BY <1>0, <1>1, <1>2, <1>3, <1>5 DEF PoolInv, Owners
<1>6. \A u \in taken' : TakenVm(u)'
  BY <1>1, <1>2, <1>3 DEF PoolInv, Owners
<1>7. ToSet(pending') = ToSet(pending) \cup V /\ Injective(pending')
  <2>1. PICK idle \in Seq(Vms) : idle = pools[p].idle
    BY <1>0
  <2>2. /\ Owned(pending \o idle) = Owned(pending) \cup Owned(idle)
        /\ Injective(pending) /\ Injective(idle) /\ Owned(pending) \cap Owned(idle) = {}
             => Injective(pending \o idle)
    BY <1>2, ConcatOwns
  <2>3. /\ Owned(idle) = V /\ Owned(pending) = ToSet(pending)
        /\ Injective(idle) /\ Injective(pending)
    BY <1>0, <1>2, <2>1 DEF Owned, ToSet, OwnedOnce
  <2>4. Owned(pending) \cap Owned(idle) = {}
    BY <1>1, <2>3
  <2>5. Owned(pending') = ToSet(pending')
    BY DEF Owned, ToSet
  <2> QED BY <2>1, <2>2, <2>3, <2>4, <2>5
<1>12. \A u \in ToSet(pending') : QueuedVm(u)'
  BY <1>1, <1>2, <1>3, <1>7 DEF PoolInv, Owners
<1>8. CleanerVm'
  BY <1>1, <1>2 DEF PoolInv, Owners, CleanerVm, Charged
<1>9. ASSUME NEW u \in Vms PROVE FreeVm(u)' /\ (Charged(u)' => Placed(u)')
  BY <1>0, <1>7 DEF FreeVm, Placed, QueuedVm, PoolInv, Owners, Charged
<1>10. Owners'
  BY <1>4, <1>5, <1>6, <1>8, <1>9, <1>12 DEF Owners
<1>11. OwnedOnce'
  BY <1>0, <1>2, <1>7 DEF OwnedOnce
<1> QED BY <1>10, <1>11

\* A step that moves no VM; a pool it creates has none.
LEMMA NobodyMoves ==
  ASSUME PoolInv, UNCHANGED <<alloc, vms, leases, taken, pending>>,
         cleaner'.pc = cleaner.pc \/ (cleaner.pc = "waiting" /\ cleaner'.pc = "exited"),
         cleaner'.vm = cleaner.vm,
         \A p \in Pools : Exists(p) =>
           /\ Exists(p)'
           /\ pools'[p].held = pools[p].held /\ pools'[p].closed = pools[p].closed
           /\ pools'[p].idle = pools[p].idle /\ pools'[p].max_uses = pools[p].max_uses,
         \A p \in Pools : ~Exists(p) /\ Exists(p)' => pools'[p].idle = <<>>
  PROVE  Owners' /\ OwnedOnce'
BY EmptyOwns DEF ToSet, PoolInv, Owners, LeaseShape, Exists, LeaseVm, Charged, IdleVm, BelowUses, TakenVm, QueuedVm,
   CleanerVm, FreeVm, Placed, OwnedOnce

-----------------------------------------------------------------------------
(* Registrations *)

\* Tokens that are left were there before, in the same group and the same pool.
TokensKept ==
  \A v \in Vms : Charged(v)' =>
    Charged(v) /\ alloc'[v].group = alloc[v].group /\ vms'[v].pool = vms[v].pool

\* A step that touches no registration.
LEMMA RegistrationsStay ==
  ASSUME PoolInv, groups' = groups, TokensKept, toClose' \subseteq toClose,
         \A p \in Pools : Exists(p)' <=> Exists(p),
         \A p \in Pools : Exists(p) =>
           /\ pools'[p].held = pools[p].held /\ pools'[p].group = pools[p].group
           /\ pools'[p].retiring = pools[p].retiring /\ pools'[p].released = pools[p].released
           /\ pools'[p].owner = pools[p].owner /\ (pools[p].closed => pools'[p].closed)
           /\ pools'[p].draining => pools'[p].closed
  PROVE  Registrations'
BY DEF PoolInv, Registrations, PoolShape, TokensKept, Exists, PoolTypeOK

\* release_if_drained gives up a registration only when no token of it is left, and only
\* its own.
LEMMA ReleaseSound ==
  ASSUME PoolInv, NEW p \in Pools, Exists(p), NEW pool \in Pool, NEW retiring \in BOOLEAN,
         pool.group = pools[p].group, pool.released = pools[p].released,
         pool.owner = pools[p].owner, pools[p].retiring => retiring,
         retiring => pool.closed \/ ~pool.held, pool.draining => pool.closed,
         release_if_drained(p, pool, retiring, alloc'),
         alloc' \in [Vms -> Allocation \cup {NoAllocation}], capacities' = capacities,
         TokensKept, toClose' = toClose, p \in toClose => pool.held
  PROVE  /\ Registrations' /\ Shrinks
         /\ pools' \in [Pools -> Pool \cup {NoPool}]
         /\ \A q \in Pools \ {p} : pools'[q] = pools[q]
         /\ pools'[p] # NoPool
         /\ pools'[p].held = pool.held /\ pools'[p].closed = pool.closed
         /\ pools'[p].idle = pool.idle /\ pools'[p].max_uses = pool.max_uses
         /\ pools'[p].draining = pool.draining
<1>1. PICK drained : drained = (retiring /\ ~pool.released /\ GroupDrained(alloc', pool.group))
  OBVIOUS
<1>2. /\ groups' = IF drained THEN [groups EXCEPT ![pool.group] = NoGroup] ELSE groups
      /\ pools' = [pools EXCEPT ![p] =
           [pool EXCEPT !.retiring = retiring, !.released = @ \/ drained, !.owner = @ /\ ~drained]]
  BY <1>1, Zenon DEF release_if_drained
<1>3. pools \in [Pools -> Pool \cup {NoPool}] /\ groups \in [Groups -> Group \cup {NoGroup}]
  BY DEF PoolInv, PoolTypeOK, GovernorTypeOK
<1>4. drained \in BOOLEAN /\ pool.released \in BOOLEAN /\ pool.owner \in BOOLEAN
  BY <1>1 DEF Pool
<1>5. pool.group \in Groups
  BY DEF Pool
<1>6. PICK y : y = [pool EXCEPT !.retiring = retiring, !.released = @ \/ drained, !.owner = @ /\ ~drained]
  OBVIOUS
<1>7. /\ y.held = pool.held /\ y.closed = pool.closed /\ y.idle = pool.idle
      /\ y.max_uses = pool.max_uses /\ y.draining = pool.draining /\ y.group = pool.group
      /\ y.retiring = retiring
  BY <1>6 DEF Pool
<1>8. y.released = (pool.released \/ drained) /\ y.owner = (pool.owner /\ ~drained)
  BY <1>6 DEF Pool
<1>9. y \in Pool
  BY <1>4, <1>6 DEF Pool
<1>10. /\ pools'[p] = y /\ y # NoPool /\ \A q \in Pools \ {p} : pools'[q] = pools[q]
       /\ pools' \in [Pools -> Pool \cup {NoPool}]
  BY <1>2, <1>3, <1>6, <1>9, NoPoolAssumption
<1>11. /\ groups' \in [Groups -> Group \cup {NoGroup}]
       /\ \A g \in Groups \ {pool.group} : groups'[g] = groups[g]
       /\ drained => groups'[pool.group] = NoGroup
       /\ ~drained => groups' = groups
  BY <1>2, <1>3, <1>4, <1>5
<1>12. Shrinks
  BY <1>1, <1>4, <1>5, <1>11 DEF GroupDrained, Shrinks, TokensKept, Charged
<1>13. Registrations
  BY DEF PoolInv
<1>14. /\ \A q \in Pools : Exists(q)' <=> Exists(q)
       /\ \A q \in Pools : Exists(q) => pools'[q].group = pools[q].group
       /\ \A q \in Pools : Exists(q) /\ ~pools'[q].released => ~pools[q].released
  BY <1>4, <1>7, <1>8, <1>10 DEF Exists
<1>15. PoolShape(p)'
  BY <1>1, <1>4, <1>7, <1>8, <1>10, <1>11, <1>13 DEF Registrations, PoolShape
<1>16. ASSUME NEW q \in Pools \ {p}, Exists(q)' PROVE PoolShape(q)'
  BY <1>1, <1>3, <1>4, <1>10, <1>11, <1>13, <1>14, <1>16 DEF Registrations, Exists, Pool, PoolShape
<1>17. ASSUME NEW v \in Vms, Charged(v)'
       PROVE  /\ vms'[v].pool \in Pools /\ pools'[vms'[v].pool] # NoPool /\ ~pools'[vms'[v].pool].released
              /\ alloc'[v].group = pools'[vms'[v].pool].group
  BY <1>1, <1>4, <1>8, <1>10, <1>13, <1>14, <1>17 DEF Registrations, TokensKept, GroupDrained, GroupVms, Charged,
     Exists
<1>18. \A q, r \in Pools :
         Exists(q)' /\ Exists(r)' /\ ~pools'[q].released /\ ~pools'[r].released
           /\ pools'[q].group = pools'[r].group => q = r
  BY <1>13, <1>14 DEF Registrations
<1>19. \A q \in toClose' : Exists(q)' /\ pools'[q].held
  BY <1>7, <1>10, <1>13, <1>14 DEF PoolInv, PoolTypeOK, Registrations
<1>20. ASSUME NEW v \in Vms PROVE (Charged(v) =>
         /\ vms[v].pool \in Pools /\ Exists(vms[v].pool) /\ ~pools[vms[v].pool].released
         /\ alloc[v].group = pools[vms[v].pool].group)'
  BY <1>17 DEF Exists
<1>21. Registrations'
  BY <1>15, <1>16, <1>18, <1>19, <1>20 DEF Registrations
<1> QED BY <1>7, <1>10, <1>12, <1>21

-----------------------------------------------------------------------------
(* Steps of a lease *)

\* What a step of lease l with its VM v leaves alone.
LeaseLocal(l, v) ==
  /\ leases' \in [Leases -> Lease] /\ vms' \in [Vms -> Vm]
  /\ \A k \in Leases \ {l} : leases'[k] = leases[k]
  /\ \A u \in Vms \ {v} : alloc'[u] = alloc[u] /\ vms'[u] = vms[u]
  /\ UNCHANGED <<taken, cleaner, closing, toClose, poll>>

\* A new permit is within the parent's limit.
PermitFits(v) ==
  v \in Vms /\ Charged(v)' /\ alloc'[v].phase = "Running" =>
    Charged(v) /\ (alloc[v].phase = "Running" \/ Cardinality(Executed) < MaxRunning)

\* The invariant after a lease goes on, gives its token back or retires its VM.
LEMMA LeaseSteps ==
  ASSUME PoolInv, NEW l \in Leases, NEW v, leases[l].vm = v, LeaseLocal(l, v),
         PoolsStill, Registrations', Shrinks, pools' \in [Pools -> Pool \cup {NoPool}],
         LeaseShape(l)', GoesOn(l, v) \/ GivesBack(l, v) \/ Retires(l, v), PermitFits(v)
  PROVE  PoolInv'
<1>1. Owners' /\ OwnedOnce'
  BY LeaseMoves DEF LeaseLocal
<1>2. PoolTypeOK /\ GovernorTypeOK /\ Budgets /\ v \in Vms \cup {NoVm}
  BY DEF PoolInv, PoolTypeOK, Lease
<1>3. GovernorTypeOK' /\ commitment(Nobody)' <= MaxResident
  BY <1>2, ShrinkingCommits DEF Budgets
<1>4. pending' \in Seq(Vms)
  <2>1. pending \in Seq(Vms)
    BY <1>2 DEF PoolTypeOK
  <2>2. v \in Vms => Append(pending, v) \in Seq(Vms)
    BY <2>1, AppendOwns
  <2> QED BY <2>1, <2>2 DEF GoesOn, GivesBack, Retires
<1>5. PoolTypeOK'
  BY <1>2, <1>3, <1>4 DEF PoolTypeOK, LeaseLocal
<1>6. Cardinality(Executed') <= MaxRunning
  BY <1>2, FewerExecuted DEF Budgets, Executed, LeaseLocal, Charged, PermitFits, RunningOf, Resident
<1>7. Budgets'
  BY <1>3, <1>6 DEF Budgets, Executed
<1> QED BY <1>1, <1>5, <1>7 DEF PoolInv

\* The same, when the pools and their registrations are left alone.
LEMMA LeaseStepsAlone ==
  ASSUME PoolInv, NEW l \in Leases, NEW v, leases[l].vm = v, LeaseLocal(l, v),
         UNCHANGED <<groups, capacities, pools>>,
         v \in Vms => /\ vms'[v].pool = vms[v].pool
                      /\ alloc'[v] = NoAllocation
                           \/ (alloc'[v] \in Allocation /\ alloc'[v].group = alloc[v].group),
         alloc' \in [Vms -> Allocation \cup {NoAllocation}],
         LeaseShape(l)', GoesOn(l, v) \/ GivesBack(l, v) \/ Retires(l, v), PermitFits(v)
  PROVE  PoolInv'
<1>1. PoolsStill
  BY DEF PoolsStill, Exists
<1>2. v \in Vms => Charged(v) /\ v # NoVm
  BY PoolAssumption DEF PoolInv, Owners, LeaseVm
<1>3. TokensKept
  BY <1>2 DEF Charged, LeaseLocal, TokensKept
<1>4. Shrinks
  BY <1>3 DEF Shrinks, TokensKept, Charged, PoolInv, PoolTypeOK, GovernorTypeOK
<1>5. Registrations'
  BY <1>3, RegistrationsStay DEF PoolInv, Registrations, PoolShape, LeaseLocal, Exists
<1>6. pools' \in [Pools -> Pool \cup {NoPool}]
  BY DEF PoolInv, PoolTypeOK
<1> QED BY <1>1, <1>4, <1>5, <1>6, LeaseSteps

\* What is known of a lease and its VM.
LEMMA LeaseKnown ==
  ASSUME PoolInv, NEW l \in Leases
  PROVE  /\ leases \in [Leases -> Lease] /\ vms \in [Vms -> Vm] /\ NoVm \notin Vms
         /\ alloc \in [Vms -> Allocation \cup {NoAllocation}]
         /\ leases[l] \in Lease /\ leases[l].vm \in Vms \cup {NoVm}
         /\ LeaseShape(l) /\ LeaseVm(l)
         /\ leases[l].pc \notin {"none", "open"} => leases[l].vm # NoVm
         /\ leases[l].pc # "none" =>
              /\ leases[l].pool \in Pools /\ pools[leases[l].pool] \in Pool
              /\ Exists(leases[l].pool)
         /\ leases[l].vm # NoVm =>
              /\ leases[l].vm \in Vms /\ leases[l].pc # "none"
              /\ alloc[leases[l].vm] \in Allocation /\ vms[leases[l].vm] \in Vm
BY PoolAssumption DEF PoolInv, PoolTypeOK, GovernorTypeOK, Owners, Lease, LeaseShape, Exists, LeaseVm, Charged

\* LeaseVm of the values a step gives a lease, its VM and the phase of its token.
Fits(y, w, phase) ==
  /\ w.pool = y.pool
  /\ w.alive => w.receipt = "Live"
  /\ ~w.alive => w.receipt = "none" /\ ~w.reusable
  /\ y.pc = "allocating" => ~w.alive
  /\ y.pc \in {"installed", "initializing", "invoking", "finalizing"} => w.alive
  /\ phase # "Retiring"
  /\ phase = "Running" <=> y.pc \in Executing
  /\ w.reusable /\ y.pc \in Executing => y.previous = "Idle"
  /\ w.reusable /\ y.pc \notin Executing => phase = "Idle"

LEMMA LeaseFits ==
  ASSUME PoolInv, NEW l \in Leases, leases[l].vm # NoVm
  PROVE  Fits(leases[l], vms[leases[l].vm], alloc[leases[l].vm].phase)
  BY LeaseKnown DEF LeaseVm, Fits

\* A lease starts or ends a stretch of Lua.
LEMMA LeaseRuns ==
  ASSUME PoolInv, NEW l \in Leases, NEW v \in Vms, leases[l].vm = v,
         NEW y \in Lease, leases' = [leases EXCEPT ![l] = y],
         y.vm = v, y.pool = leases[l].pool, y.pc # "none",
         NEW w \in Vm, vms' = [vms EXCEPT ![v] = w],
         NEW phase \in VmAllocationState, alloc' = InPhase(v, phase), Fits(y, w, phase),
         phase = "Running" => Cardinality(Executed) < MaxRunning, LeaseUnchanged
  PROVE  PoolInv'
BY LeaseKnown, AbsentAssumption, LeaseStepsAlone DEF InPhase, Allocation, LeaseLocal, LeaseUnchanged, LeaseShape,
   Charged, LeaseVm, Fits, GoesOn, PermitFits

\* begin_execution.
LEMMA PermitRuns ==
  ASSUME PoolInv, NEW l \in Leases, NEW x \in Lease, NEW pc \in Executing,
         leases[l].vm # NoVm, leases[l].pc \notin Executing,
         x.vm = leases[l].vm, x.pool = leases[l].pool,
         pc = "allocating" <=> ~vms[leases[l].vm].alive,
         Permit(l, x, pc), UNCHANGED vms, LeaseUnchanged
  PROVE  PoolInv'
<1>1. PICK v \in Vms : v = leases[l].vm
  BY LeaseKnown
<1>2. /\ vms[v] \in Vm /\ alloc[v] \in Allocation /\ leases[l].pc # "none" /\ vms \in [Vms -> Vm]
      /\ Fits(leases[l], vms[v], alloc[v].phase)
  BY <1>1, LeaseKnown, LeaseFits
<1>3. /\ alloc[v].phase \in {"Creating", "Idle"} /\ Cardinality(Executed) < MaxRunning
      /\ alloc' = InPhase(v, "Running")
      /\ leases' = [leases EXCEPT ![l] = [x EXCEPT !.pc = pc, !.previous = alloc[v].phase]]
  BY <1>1 DEF Permit, Executable, Executed
<1>4. PICK y : y = [x EXCEPT !.pc = pc, !.previous = alloc[v].phase]
  OBVIOUS
<1>5. /\ y \in Lease /\ y.vm = v /\ y.pool = leases[l].pool /\ y.pc = pc
      /\ y.previous = alloc[v].phase
  BY <1>1, <1>3, <1>4 DEF Lease, Executing, LeasePc
<1>6. vms' = [vms EXCEPT ![v] = vms[v]]
  BY <1>2
<1>7. Fits(y, vms[v], "Running")
  BY <1>1, <1>2, <1>3, <1>5 DEF Fits, Executing
<1>8. pc # "none" /\ "Running" \in VmAllocationState
  BY DEF Executing, VmAllocationState
<1> QED BY <1>1, <1>2, <1>3, <1>4, <1>5, <1>6, <1>7, <1>8, LeaseRuns

\* A pending reservation is dropped.
LEMMA ReservationDropped ==
  ASSUME PoolInv, NEW l \in Leases, NEW v \in Vms, leases[l].vm = v, ~vms[v].alive,
         NEW y \in Lease, leases' = [leases EXCEPT ![l] = y],
         y.vm = NoVm, y.pool = leases[l].pool, y.pc = "open",
         alloc' = Freed(v), UNCHANGED <<vms, pending>>,
         UNCHANGED <<groups, capacities, pools, taken, cleaner, closing, toClose, poll>>
  PROVE  PoolInv'
BY LeaseKnown, LeaseStepsAlone DEF Freed, LeaseLocal, LeaseShape, GivesBack, Charged, LeaseVm, PermitFits

\* initialize asks for the first permit, or gives the token back.
LEMMA InitializeKeeps ==
  ASSUME PoolInv, NEW l \in Leases, initialize(l)
  PROVE  PoolInv'
<1>1. /\ leases[l].pc = "open" /\ leases[l].vm # NoVm /\ ~vms[leases[l].vm].alive
      /\ UNCHANGED vms /\ LeaseUnchanged
  BY DEF initialize, Alive
<1>2. leases[l] \in Lease /\ leases[l].vm \in Vms /\ leases \in [Leases -> Lease]
  BY <1>1, LeaseKnown
<1>3. CASE Permit(l, leases[l], "allocating")
  BY <1>1, <1>2, <1>3, PermitRuns DEF Executing
<1>4. CASE alloc' = Freed(leases[l].vm) /\ leases' = [leases EXCEPT ![l].vm = NoVm]
  <2>1. PICK y : y = [leases[l] EXCEPT !.vm = NoVm]
    OBVIOUS
  <2>2. /\ y \in Lease /\ y.vm = NoVm /\ y.pool = leases[l].pool /\ y.pc = "open"
        /\ leases' = [leases EXCEPT ![l] = y]
    BY <1>1, <1>2, <1>4, <2>1 DEF Lease
  <2>3. PICK v \in Vms : v = leases[l].vm
    BY <1>2
  <2> QED BY <1>1, <1>4, <2>2, <2>3, ReservationDropped DEF LeaseUnchanged
<1> QED BY <1>3, <1>4 DEF initialize

\* finish_allocation installs the VM, or gives the token back.
LEMMA FinishAllocationKeeps ==
  ASSUME PoolInv, NEW l \in Leases, finish_allocation(l)
  PROVE  PoolInv'
<1>1. leases[l].pc = "allocating" /\ LeaseUnchanged
  BY DEF finish_allocation
<1>2. PICK v \in Vms : v = leases[l].vm
  BY <1>1, LeaseKnown
<1>3. /\ leases[l] \in Lease /\ leases \in [Leases -> Lease] /\ vms[v] \in Vm /\ vms \in [Vms -> Vm]
      /\ Fits(leases[l], vms[v], alloc[v].phase) /\ ~vms[v].alive /\ ~vms[v].reusable
  BY <1>1, <1>2, LeaseKnown, LeaseFits DEF Fits
<1>4. /\ Returned(l) \in Lease /\ Returned(l).pc = "open" /\ Returned(l).pool = leases[l].pool
      /\ Returned(l).vm = v /\ leases[l].previous \in {"Creating", "Idle"}
  BY <1>2, <1>3 DEF Returned, Lease, LeasePc
<1>5. CASE /\ alloc' = InPhase(v, leases[l].previous)
           /\ vms' = [vms EXCEPT ![v].alive = TRUE, ![v].receipt = "Live"]
           /\ leases' = [leases EXCEPT ![l] = [Returned(l) EXCEPT !.pc = "installed"]]
  <2>1. PICK y, w, phase : /\ y = [Returned(l) EXCEPT !.pc = "installed"]
                           /\ w = [vms[v] EXCEPT !.alive = TRUE, !.receipt = "Live"]
                           /\ phase = leases[l].previous
    OBVIOUS
  <2>2. y \in Lease /\ y.vm = v /\ y.pool = leases[l].pool /\ y.pc = "installed"
    BY <1>4, <2>1 DEF Lease, LeasePc
  <2>3. w \in Vm /\ w.pool = vms[v].pool /\ w.alive = TRUE /\ w.receipt = "Live"
    BY <1>3, <2>1 DEF Vm
  <2>4. w.reusable = vms[v].reusable
    BY <1>3, <2>1 DEF Vm
  <2>5. vms' = [vms EXCEPT ![v] = w]
    BY <1>3, <1>5, <2>1
  <2>6. phase \in VmAllocationState /\ phase # "Running" /\ phase # "Retiring"
    BY <1>4, <2>1 DEF VmAllocationState
  <2>7. Fits(y, w, phase)
    BY <1>3, <2>2, <2>3, <2>4, <2>6 DEF Fits, Executing
  <2>8. leases' = [leases EXCEPT ![l] = y] /\ alloc' = InPhase(v, phase) /\ y.pc # "none"
    BY <1>5, <2>1, <2>2
  <2> QED BY <1>1, <1>2, <2>2, <2>3, <2>5, <2>6, <2>7, <2>8, LeaseRuns
<1>6. CASE /\ alloc' = Freed(v) /\ UNCHANGED vms
           /\ leases' = [leases EXCEPT ![l] = [Returned(l) EXCEPT !.vm = NoVm]]
  <2>1. PICK y : y = [Returned(l) EXCEPT !.vm = NoVm]
    OBVIOUS
  <2>2. /\ y \in Lease /\ y.vm = NoVm /\ y.pool = leases[l].pool /\ y.pc = "open"
        /\ leases' = [leases EXCEPT ![l] = y]
    BY <1>4, <1>6, <2>1 DEF Lease
  <2> QED BY <1>1, <1>2, <1>3, <1>6, <2>2, ReservationDropped DEF LeaseUnchanged
<1> QED BY <1>2, <1>5, <1>6 DEF finish_allocation

\* A refused second permit leaves the lease open.
LEMMA BeginInitializationKeeps ==
  ASSUME PoolInv, NEW l \in Leases, begin_initialization(l)
  PROVE  PoolInv'
<1>1. leases[l].pc = "installed" /\ UNCHANGED vms /\ LeaseUnchanged
  BY DEF begin_initialization
<1>2. PICK v \in Vms : v = leases[l].vm
  BY <1>1, LeaseKnown
<1>3. /\ leases[l] \in Lease /\ leases \in [Leases -> Lease] /\ vms[v] \in Vm /\ vms \in [Vms -> Vm]
      /\ alloc[v] \in Allocation /\ alloc \in [Vms -> Allocation \cup {NoAllocation}]
      /\ Fits(leases[l], vms[v], alloc[v].phase) /\ vms[v].alive /\ v # NoVm
  BY <1>1, <1>2, LeaseKnown, LeaseFits DEF Fits
<1>4. CASE Permit(l, leases[l], "initializing")
  BY <1>1, <1>2, <1>3, <1>4, PermitRuns DEF Executing
<1>5. CASE leases' = [leases EXCEPT ![l].pc = "open"] /\ UNCHANGED alloc
  <2>1. PICK y, phase : y = [leases[l] EXCEPT !.pc = "open"] /\ phase = alloc[v].phase
    OBVIOUS
  <2>2. /\ y \in Lease /\ y.vm = v /\ y.pool = leases[l].pool /\ y.pc = "open"
        /\ leases' = [leases EXCEPT ![l] = y]
    BY <1>2, <1>3, <1>5, <2>1 DEF Lease, LeasePc
  <2>3. phase \in VmAllocationState /\ alloc' = InPhase(v, phase)
    BY <1>3, <1>5, <2>1 DEF InPhase, Allocation
  <2>4. Fits(y, vms[v], phase) /\ phase # "Running"
    BY <1>1, <1>3, <2>1, <2>2 DEF Fits, Executing
  <2>5. vms' = [vms EXCEPT ![v] = vms[v]] /\ y.pc # "none"
    BY <1>1, <1>3, <2>2
  <2> QED BY <1>1, <1>2, <1>3, <2>2, <2>3, <2>4, <2>5, LeaseRuns
<1> QED BY <1>4, <1>5 DEF begin_initialization

\* A module is reusable only after its initialization or call succeeded.
LEMMA FinishInitializationKeeps ==
  ASSUME PoolInv, NEW l \in Leases, NEW ok \in BOOLEAN, finish_initialization(l, ok)
  PROVE  PoolInv'
<1>1. leases[l].pc = "initializing" /\ LeaseUnchanged
  BY DEF finish_initialization
<1>2. PICK v \in Vms : v = leases[l].vm
  BY <1>1, LeaseKnown
<1>3. /\ leases[l] \in Lease /\ vms[v] \in Vm /\ vms \in [Vms -> Vm]
      /\ Fits(leases[l], vms[v], alloc[v].phase) /\ vms[v].alive
      /\ leases[l].pool \in Pools /\ pools[leases[l].pool] \in Pool
      /\ leases[l].previous \in {"Creating", "Idle"}
  BY <1>1, <1>2, LeaseKnown, LeaseFits DEF Fits, Lease
<1>4. PICK y, w, phase :
        /\ y = [Returned(l) EXCEPT !.ready = ok /\ ~pools[leases[l].pool].closed]
        /\ w = [vms[v] EXCEPT !.reusable = ok, !.exports = ok]
        /\ phase = IF ok THEN "Idle" ELSE leases[l].previous
  OBVIOUS
<1>5. y \in Lease /\ y.vm = v /\ y.pool = leases[l].pool /\ y.pc = "open"
  BY <1>2, <1>3, <1>4 DEF Returned, Lease, LeasePc, Pool
<1>6. w \in Vm /\ w.pool = vms[v].pool /\ w.receipt = vms[v].receipt
  BY <1>3, <1>4 DEF Vm
<1>7. w.alive = vms[v].alive /\ w.reusable = ok
  BY <1>3, <1>4 DEF Vm
<1>8. phase \in VmAllocationState /\ phase # "Running" /\ phase # "Retiring" /\ (ok => phase = "Idle")
  BY <1>3, <1>4 DEF VmAllocationState
<1>9. Fits(y, w, phase)
  BY <1>3, <1>5, <1>6, <1>7, <1>8 DEF Fits, Executing
<1>10. /\ vms' = [vms EXCEPT ![v] = w] /\ alloc' = InPhase(v, phase)
       /\ leases' = [leases EXCEPT ![l] = y]
  BY <1>2, <1>3, <1>4 DEF finish_initialization
<1> QED BY <1>1, <1>2, <1>5, <1>6, <1>8, <1>9, <1>10, LeaseRuns

LEMMA InvokeKeeps ==
  ASSUME PoolInv, NEW l \in Leases, invoke(l)
  PROVE  PoolInv'
BY LeaseKnown, PermitRuns DEF invoke, Alive, Lease, Executing

LEMMA FinishInvokeKeeps ==
  ASSUME PoolInv, NEW l \in Leases, NEW outcome, finish_invoke(l, outcome)
  PROVE  PoolInv'
<1>1. leases[l].pc = "invoking" /\ LeaseUnchanged
  BY DEF finish_invoke
<1>2. PICK v \in Vms : v = leases[l].vm
  BY <1>1, LeaseKnown
<1>3. /\ leases[l] \in Lease /\ vms[v] \in Vm /\ vms \in [Vms -> Vm]
      /\ Fits(leases[l], vms[v], alloc[v].phase) /\ vms[v].alive
      /\ leases[l].previous \in {"Creating", "Idle"}
  BY <1>1, <1>2, LeaseKnown, LeaseFits DEF Fits, Lease
<1>4. PICK y, w, phase :
        /\ y = Returned(l)
        /\ w = [vms[v] EXCEPT !.reusable = @ /\ outcome # "failed",
                              !.uses = IF outcome = "ok" /\ pools[leases[l].pool].max_uses # 0
                                       THEN @ + 1 ELSE @]
        /\ phase = leases[l].previous
  OBVIOUS
<1>5. y \in Lease /\ y.vm = v /\ y.pool = leases[l].pool /\ y.pc = "open"
  BY <1>2, <1>3, <1>4 DEF Returned, Lease, LeasePc
<1>6. w.pool = vms[v].pool /\ w.receipt = vms[v].receipt
  BY <1>3, <1>4 DEF Vm
<1>7. w.alive = vms[v].alive /\ (w.reusable => vms[v].reusable)
  BY <1>3, <1>4 DEF Vm
<1>8. w \in Vm
  <2>1. vms[v].uses \in Nat /\ vms[v].reusable \in BOOLEAN
    BY <1>3 DEF Vm
  <2>2. PICK b, n : /\ b = (vms[v].reusable /\ outcome # "failed")
                    /\ n = IF outcome = "ok" /\ pools[leases[l].pool].max_uses # 0
                           THEN vms[v].uses + 1 ELSE vms[v].uses
    OBVIOUS
  <2>3. b \in BOOLEAN
    BY <2>1, <2>2
  <2>4. n \in Nat
    BY <2>1, <2>2
  <2>5. w = [vms[v] EXCEPT !.reusable = b, !.uses = n]
    BY <1>4, <2>2
  <2> QED BY <1>3, <2>3, <2>4, <2>5 DEF Vm
<1>9. phase \in VmAllocationState /\ phase # "Running" /\ phase # "Retiring"
  BY <1>3, <1>4 DEF VmAllocationState
<1>10. Fits(y, w, phase)
  BY <1>1, <1>3, <1>4, <1>5, <1>6, <1>7, <1>9 DEF Fits, Executing
<1>11. /\ vms' = [vms EXCEPT ![v] = w] /\ alloc' = InPhase(v, phase)
       /\ leases' = [leases EXCEPT ![l] = y]
  BY <1>2, <1>3, <1>4 DEF finish_invoke
<1> QED BY <1>1, <1>2, <1>5, <1>8, <1>9, <1>10, <1>11, LeaseRuns

LEMMA FinalizeKeeps ==
  ASSUME PoolInv, NEW l \in Leases, finalize(l)
  PROVE  PoolInv'
BY LeaseKnown, PermitRuns DEF finalize, Alive, Lease, Executing

LEMMA FinishFinalizeKeeps ==
  ASSUME PoolInv, NEW l \in Leases, finish_finalize(l)
  PROVE  PoolInv'
<1>1. leases[l].pc = "finalizing" /\ LeaseUnchanged
  BY DEF finish_finalize
<1>2. PICK v \in Vms : v = leases[l].vm
  BY <1>1, LeaseKnown
<1>3. /\ leases[l] \in Lease /\ vms[v] \in Vm /\ vms \in [Vms -> Vm]
      /\ Fits(leases[l], vms[v], alloc[v].phase) /\ vms[v].alive
      /\ leases[l].previous \in {"Creating", "Idle"}
  BY <1>1, <1>2, LeaseKnown, LeaseFits DEF Fits, Lease
<1>4. PICK y, w, phase, started :
        /\ y = Returned(l) /\ phase = leases[l].previous
        /\ started = (vms[v].exports /\ ~vms[v].finalized)
        /\ w = [vms[v] EXCEPT !.reusable = @ /\ ~started, !.finalized = @ \/ started]
  OBVIOUS
<1>5. y \in Lease /\ y.vm = v /\ y.pool = leases[l].pool /\ y.pc = "open"
  BY <1>2, <1>3, <1>4 DEF Returned, Lease, LeasePc
<1>6. w.pool = vms[v].pool /\ w.receipt = vms[v].receipt
  BY <1>3, <1>4 DEF Vm
<1>7. w.alive = vms[v].alive /\ (w.reusable => vms[v].reusable)
  BY <1>3, <1>4 DEF Vm
<1>8. w \in Vm
  BY <1>3, <1>4 DEF Vm
<1>9. phase \in VmAllocationState /\ phase # "Running" /\ phase # "Retiring"
  BY <1>3, <1>4 DEF VmAllocationState
<1>10. Fits(y, w, phase)
  BY <1>1, <1>3, <1>4, <1>5, <1>6, <1>7, <1>9 DEF Fits, Executing
<1>11. /\ vms' = [vms EXCEPT ![v] = w] /\ alloc' = InPhase(v, phase)
       /\ leases' = [leases EXCEPT ![l] = y]
  BY <1>2, <1>3, <1>4 DEF finish_finalize
<1> QED BY <1>1, <1>2, <1>5, <1>8, <1>9, <1>10, <1>11, LeaseRuns

\* mark_retiring, for a VM that is not executing.
LEMMA TokenRetires ==
  ASSUME NEW al \in [Vms -> Allocation \cup {NoAllocation}], NEW v \in Vms,
         al[v] \in Allocation, al[v].phase # "Running"
  PROVE  /\ Retired(al, v) \in [Vms -> Allocation \cup {NoAllocation}]
         /\ Retired(al, v)[v] \in Allocation /\ Retired(al, v)[v].group = al[v].group
         /\ Retired(al, v)[v].phase = "Retiring"
         /\ \A u \in Vms \ {v} : Retired(al, v)[u] = al[u]
BY DEF Allocation, VmAllocationState, Retired

\* The receipts of enqueued modules.
LEMMA ReceiptsQueued ==
  ASSUME NEW m \in [Vms -> Vm], NEW S
  PROVE  /\ Queued(m, S) \in [Vms -> Vm] /\ \A u \in Vms \ S : Queued(m, S)[u] = m[u]
         /\ \A v \in Vms \cap S : /\ Queued(m, S)[v].receipt = "Queued"
                                  /\ Queued(m, S)[v].pool = m[v].pool
                                  /\ m[v].alive => Queued(m, S)[v].alive
BY DEF Queued, Vm

\* A lease at rest hands its VM to retirement.
LEMMA LeaseRetires ==
  ASSUME PoolInv, NEW l \in Leases, NEW v \in Vms, leases[l].vm = v, leases[l].pc = "open",
         vms[v].alive, alloc' = Retired(alloc, v), vms' = Queued(vms, {v}),
         pending' = Append(pending, v), leases'[l].vm = NoVm
  PROVE  /\ alloc' \in [Vms -> Allocation \cup {NoAllocation}] /\ vms' \in [Vms -> Vm]
         /\ \A u \in Vms \ {v} : alloc'[u] = alloc[u] /\ vms'[u] = vms[u]
         /\ alloc'[v] \in Allocation /\ alloc'[v].group = alloc[v].group
         /\ vms'[v].pool = vms[v].pool
         /\ Retires(l, v) /\ PermitFits(v)
BY LeaseKnown, TokenRetires, ReceiptsQueued, AbsentAssumption DEF LeaseVm, Executing, QueuedVm, Charged, Retires,
   PermitFits

\* ModuleLease::close.
LEMMA CloseLeaseKeeps ==
  ASSUME PoolInv, NEW l \in Leases, close_lease(l)
  PROVE  PoolInv'
<1>1. /\ leases[l].pc = "open" /\ leases[l].vm # NoVm
      /\ leases' = [leases EXCEPT ![l].ready = FALSE, ![l].vm = NoVm]
      /\ UNCHANGED <<groups, capacities, pools, taken, cleaner, closing, toClose, poll>>
  BY DEF close_lease
<1>2. PICK v \in Vms : v = leases[l].vm
  BY <1>1, LeaseKnown
<1>3. leases[l] \in Lease /\ leases \in [Leases -> Lease] /\ LeaseShape(l)
  BY LeaseKnown
<1>4. PICK y : y = [leases[l] EXCEPT !.ready = FALSE, !.vm = NoVm]
  OBVIOUS
<1>5. y \in Lease /\ y.vm = NoVm /\ y.pool = leases[l].pool /\ y.pc = "open"
  BY <1>1, <1>3, <1>4 DEF Lease
<1>6. leases' = [leases EXCEPT ![l] = y]
  BY <1>1, <1>3, <1>4
<1>7. CASE vms[v].alive
  <2>1. alloc' = Retired(alloc, v) /\ vms' = Queued(vms, {v}) /\ pending' = Append(pending, v)
    BY <1>1, <1>2, <1>7 DEF close_lease, Alive
  <2>2. /\ leases'[l] = y /\ leases' \in [Leases -> Lease]
        /\ \A k \in Leases \ {l} : leases'[k] = leases[k]
    BY <1>3, <1>5, <1>6
  <2>3. /\ alloc' \in [Vms -> Allocation \cup {NoAllocation}] /\ vms' \in [Vms -> Vm]
        /\ \A u \in Vms \ {v} : alloc'[u] = alloc[u] /\ vms'[u] = vms[u]
        /\ alloc'[v] \in Allocation /\ alloc'[v].group = alloc[v].group
        /\ vms'[v].pool = vms[v].pool
        /\ Retires(l, v) /\ PermitFits(v)
    <3>1. leases'[l].vm = NoVm
      BY <1>5, <2>2
    <3> QED BY <1>1, <1>2, <1>7, <2>1, <3>1, LeaseRetires
  <2>4. LeaseLocal(l, v)
    BY <1>1, <2>2, <2>3 DEF LeaseLocal
  <2>5. LeaseShape(l)'
    BY <1>1, <1>3, <1>5, <2>2 DEF LeaseShape
  <2>6. UNCHANGED <<groups, capacities, pools>>
    BY <1>1
  <2>7. leases[l].vm = v
    BY <1>2
  <2> QED BY <2>3, <2>4, <2>5, <2>6, <2>7, LeaseStepsAlone
<1>8. CASE ~vms[v].alive
  BY <1>1, <1>2, <1>5, <1>6, <1>8, ReservationDropped DEF close_lease, Alive
<1> QED BY <1>7, <1>8

\* A lease ends without returning a VM; its pool's registration may go with it.
LEMMA LeaseEnds ==
  ASSUME PoolInv, NEW l \in Leases, leases[l].pc = "open", NEW v, leases[l].vm = v,
         NEW p, leases[l].pool = p,
         leases' = [leases EXCEPT ![l] = NoLease], vms' \in [Vms -> Vm],
         alloc' \in [Vms -> Allocation \cup {NoAllocation}],
         \A u \in Vms \ {v} : alloc'[u] = alloc[u] /\ vms'[u] = vms[u],
         v \in Vms => /\ vms'[v].pool = vms[v].pool
                      /\ alloc'[v] = NoAllocation
                           \/ (alloc'[v] \in Allocation /\ alloc'[v].group = alloc[v].group),
         GivesBack(l, v) \/ Retires(l, v), PermitFits(v),
         release_if_drained(p, pools[p], pools[p].retiring, alloc'),
         UNCHANGED <<capacities, taken, cleaner, closing, toClose, poll>>
  PROVE  PoolInv'
<1>1. /\ leases \in [Leases -> Lease] /\ LeaseShape(l) /\ p \in Pools /\ pools[p] \in Pool
      /\ Exists(p)
  BY LeaseKnown
<1>2. NoLease \in Lease /\ NoLease.pc = "none" /\ NoLease.pool = NoPool /\ NoLease.vm = NoVm
  BY DEF NoLease, Lease, LeasePc
<1>3. /\ leases' \in [Leases -> Lease] /\ leases'[l] = NoLease
      /\ \A k \in Leases \ {l} : leases'[k] = leases[k]
  BY <1>1, <1>2
<1>4. LeaseLocal(l, v)
  BY <1>3 DEF LeaseLocal
<1>5. LeaseShape(l)'
  BY <1>2, <1>3 DEF LeaseShape
<1>6. v \in Vms => Charged(v) /\ v # NoVm
  BY PoolAssumption DEF PoolInv, Owners, LeaseVm
<1>7. TokensKept
  BY <1>6 DEF Charged, TokensKept
<1>8. PICK pool, retiring : pool = pools[p] /\ retiring = pools[p].retiring
  OBVIOUS
<1>9. PoolShape(p) /\ (p \in toClose => pools[p].held)
  BY <1>1 DEF PoolInv, Registrations
<1>10. /\ pool \in Pool /\ retiring \in BOOLEAN /\ pool.group = pools[p].group
       /\ pools[p].retiring => retiring
       /\ retiring => pool.closed \/ ~pool.held
       /\ pool.draining => pool.closed
       /\ p \in toClose => pool.held
  BY <1>1, <1>8, <1>9 DEF PoolShape, Pool
<1>11. pool.released = pools[p].released /\ pool.owner = pools[p].owner
  BY <1>8
<1>12. release_if_drained(p, pool, retiring, alloc') /\ toClose' = toClose /\ capacities' = capacities
  BY <1>8
<1>13. /\ Registrations' /\ Shrinks
       /\ pools' \in [Pools -> Pool \cup {NoPool}]
       /\ \A q \in Pools \ {p} : pools'[q] = pools[q]
       /\ pools'[p] # NoPool
       /\ pools'[p].held = pool.held /\ pools'[p].closed = pool.closed
       /\ pools'[p].idle = pool.idle /\ pools'[p].max_uses = pool.max_uses
  BY <1>1, <1>7, <1>10, <1>11, <1>12, ReleaseSound
<1>14. PoolsStill
  BY <1>1, <1>8, <1>13 DEF Exists, PoolsStill
<1> QED BY <1>4, <1>5, <1>13, <1>14, LeaseSteps

\* What is left to show of a step that starts no Lua.
Typed ==
  /\ pools \in [Pools -> Pool \cup {NoPool}]
  /\ leases \in [Leases -> Lease]
  /\ vms \in [Vms -> Vm]
  /\ taken \subseteq Vms /\ pending \in Seq(Vms)
  /\ cleaner \in [pc : {"waiting", "closing", "destroyed", "released", "exited"},
                  vm : Vms \cup {NoVm}, closing : BOOLEAN]
  /\ closing \in BOOLEAN /\ toClose \subseteq Pools
  /\ poll \in [drained : BOOLEAN, closed : BOOLEAN]

StartsNothing ==
  \A u \in Vms : Charged(u)' /\ alloc'[u].phase = "Running"
                   => Charged(u) /\ alloc[u].phase = "Running"

LEMMA Settles ==
  ASSUME PoolInv, Typed', Owners', OwnedOnce', Registrations', StartsNothing,
         GovernorTypeOK', commitment(Nobody)' <= MaxResident
  PROVE  PoolInv'
<1>1. PoolTypeOK'
  BY DEF PoolTypeOK, Typed
<1>2. Cardinality(Executed') <= MaxRunning
  BY VmsCompared, VmsCounted, GovernorAssumption DEF Executed, RunningOf, Resident, Charged, StartsNothing, PoolInv,
     Budgets
<1>3. Budgets'
  BY <1>2 DEF Budgets, Executed
<1> QED BY <1>1, <1>3 DEF PoolInv

\* The same, where tokens are only given back.
LEMMA SettlesShrinking ==
  ASSUME PoolInv, Typed', Owners', OwnedOnce', Registrations', StartsNothing, Shrinks
  PROVE  PoolInv'
BY ShrinkingCommits, Settles DEF PoolInv, PoolTypeOK, Budgets

\* What is known before any step.
LEMMA TypesKnown ==
  ASSUME PoolInv
  PROVE  /\ Typed /\ Owners /\ OwnedOnce /\ Registrations
         /\ GovernorTypeOK /\ alloc \in [Vms -> Allocation \cup {NoAllocation}]
         /\ groups \in [Groups -> Group \cup {NoGroup}]
         /\ \A p \in Pools : Exists(p) =>
              /\ pools[p] \in Pool /\ PoolShape(p) /\ pools[p].idle \in Seq(Vms)
              /\ pools[p].group \in Groups /\ Injective(pools[p].idle)
         /\ NoVm \notin Vms
BY PoolAssumption DEF PoolInv, PoolTypeOK, GovernorTypeOK, Typed, Exists, Pool, Registrations, OwnedOnce

\* finish and ModuleLease::drop.
LEMMA DropLeaseKeeps ==
  ASSUME PoolInv, NEW l \in Leases, drop_lease(l)
  PROVE  PoolInv'
<1>1. PICK v, p, x : v = leases[l].vm /\ p = leases[l].pool /\ x = pools[p]
  OBVIOUS
<1>2. /\ leases[l].pc = "open" /\ leases' = [leases EXCEPT ![l] = NoLease]
      /\ UNCHANGED <<capacities, taken, cleaner, closing, toClose, poll>>
  BY DEF drop_lease
<1>3. /\ leases \in [Leases -> Lease] /\ vms \in [Vms -> Vm] /\ NoVm \notin Vms
      /\ alloc \in [Vms -> Allocation \cup {NoAllocation}]
      /\ v \in Vms \cup {NoVm} /\ LeaseVm(l)
      /\ p \in Pools /\ x \in Pool /\ Exists(p)
      /\ leases[l].vm # NoVm => alloc[v] \in Allocation /\ vms[v] \in Vm
  BY <1>1, <1>2, LeaseKnown
<1>4. leases'[l].vm = NoVm /\ leases'[l] = NoLease
  BY <1>2, <1>3 DEF NoLease
<1>5. CASE v = NoVm
  BY <1>1, <1>2, <1>3, <1>4, <1>5, LeaseEnds DEF drop_lease, Alive, GivesBack, PermitFits
<1>6. CASE v # NoVm /\ ~vms[v].alive
  BY <1>1, <1>2, <1>3, <1>4, <1>6, LeaseEnds DEF drop_lease, Alive, Freed, GivesBack, LeaseVm, Charged, PermitFits
<1>7. CASE v # NoVm /\ vms[v].alive /\ ~Reusable(l)
  BY <1>1, <1>2, <1>3, <1>4, <1>7, LeaseRetires, LeaseEnds DEF drop_lease, Alive
<1>8. CASE v # NoVm /\ vms[v].alive /\ Reusable(l)
  <2>1. PICK pool, retiring : pool = [x EXCEPT !.idle = Append(@, v)] /\ retiring = pool.retiring
    OBVIOUS
  <2>2. alloc' = alloc /\ vms' = vms /\ pending' = pending
    BY <1>1, <1>8 DEF drop_lease, Alive
  <2>3. release_if_drained(p, pool, retiring, alloc')
    BY <1>1, <1>8, <2>1 DEF drop_lease, Alive
  <2>4. v \in Vms /\ x.idle \in Seq(Vms) /\ Injective(x.idle) /\ PoolShape(p)
    BY <1>1, <1>3, <1>8, TypesKnown
  <2>5. v \notin ToSet(x.idle) /\ v \notin taken
    BY <1>1, <1>3, <1>8, OwnersApart
  <2>6. /\ Append(x.idle, v) \in Seq(Vms) /\ Injective(Append(x.idle, v))
        /\ ToSet(Append(x.idle, v)) = ToSet(x.idle) \cup {v}
    <3>1. PICK idle : idle = x.idle
      OBVIOUS
    <3>2. /\ Append(idle, v) \in Seq(Vms)
          /\ Owned(Append(idle, v)) = Owned(idle) \cup {v}
          /\ Injective(idle) /\ v \notin Owned(idle) => Injective(Append(idle, v))
      BY <2>4, <3>1, AppendOwns
    <3>3. Owned(idle) = ToSet(idle) /\ Owned(Append(idle, v)) = ToSet(Append(idle, v))
      BY DEF Owned, ToSet
    <3> QED BY <2>4, <2>5, <3>1, <3>2, <3>3
  <2>7. /\ pool \in Pool /\ pool.group = x.group /\ pool.max_uses = x.max_uses
        /\ pool.idle = Append(x.idle, v)
    BY <1>3, <2>1, <2>6 DEF Pool
  <2>8. /\ pool.held = x.held /\ pool.closed = x.closed /\ pool.draining = x.draining
        /\ pool.released = x.released /\ pool.owner = x.owner /\ retiring = x.retiring
    BY <1>3, <2>1, <2>6 DEF Pool
  <2>9. /\ retiring \in BOOLEAN /\ (pools[p].retiring => retiring)
        /\ (retiring => pool.closed \/ ~pool.held) /\ (pool.draining => pool.closed)
    BY <1>1, <1>3, <2>4, <2>8 DEF PoolShape, Pool
  <2>10. p \in toClose => pool.held
    BY <1>1, <2>8 DEF PoolInv, Registrations
  <2>11. TokensKept /\ StartsNothing /\ alloc' \in [Vms -> Allocation \cup {NoAllocation}]
    BY <1>3, <2>2 DEF TokensKept, StartsNothing, Charged
  <2>12. toClose' = toClose /\ capacities' = capacities
    BY <1>2
  <2>13. /\ pool.group = pools[p].group /\ pool.released = pools[p].released
         /\ pool.owner = pools[p].owner
    BY <1>1, <2>7, <2>8
  <2>14. /\ Registrations' /\ Shrinks
         /\ pools' \in [Pools -> Pool \cup {NoPool}]
         /\ \A q \in Pools \ {p} : pools'[q] = pools[q]
         /\ pools'[p] # NoPool
         /\ pools'[p].held = pool.held /\ pools'[p].closed = pool.closed
         /\ pools'[p].idle = pool.idle /\ pools'[p].max_uses = pool.max_uses
    BY <1>3, <2>3, <2>7, <2>9, <2>10, <2>11, <2>12, <2>13, ReleaseSound
  <2>15. HandsOnly
    BY <1>2, <2>2 DEF HandsOnly
  <2>16. OnlyPool(p)
    BY <1>1, <1>3, <2>7, <2>14 DEF OnlyPool, Exists
  <2>17. LeaseShape(l)' /\ \A k \in Leases \ {l} : leases'[k] = leases[k]
    BY <1>2, <1>3, <1>4 DEF LeaseShape, NoLease
  <2>18. IdleVm(p, v)
    BY <1>1, <1>2, <1>3, <1>8 DEF Reusable, LeaseVm, Executing, IdleVm
  <2>19. /\ pools'[p].held = pools[p].held /\ pools'[p].closed = pools[p].closed
         /\ ToSet(pools'[p].idle) = ToSet(pools[p].idle) \cup {v} /\ Injective(pools'[p].idle)
    BY <1>1, <2>6, <2>7, <2>8, <2>14
  <2>20. Owners' /\ OwnedOnce'
    BY <1>1, <1>2, <1>3, <1>4, <2>4, <2>15, <2>16, <2>17, <2>18, <2>19, IdleReturned
  <2>21. Typed'
    BY <1>2, <1>3, <2>2, <2>14, TypesKnown DEF NoLease, Lease, LeasePc, Typed
  <2> QED BY <2>11, <2>14, <2>20, <2>21, SettlesShrinking
<1> QED BY <1>3, <1>5, <1>6, <1>7, <1>8

\* prepare_with_budget reuses the last idle VM, or reserves a token.
LEMMA PrepareKeeps ==
  ASSUME PoolInv, NEW l \in Leases, NEW p \in Pools, prepare_with_budget(l, p)
  PROVE  PoolInv'
<1>1. /\ leases[l].pc = "none" /\ Exists(p) /\ pools[p].held /\ ~pools[p].closed
      /\ UNCHANGED <<groups, capacities, taken, pending, cleaner, closing, toClose, poll>>
  BY DEF prepare_with_budget
<1>2. /\ leases \in [Leases -> Lease] /\ vms \in [Vms -> Vm] /\ NoVm \notin Vms
      /\ alloc \in [Vms -> Allocation \cup {NoAllocation}]
      /\ leases[l].vm = NoVm
  BY <1>1, LeaseKnown DEF LeaseShape
<1>3. /\ Typed /\ pools[p] \in Pool /\ PoolShape(p) /\ Registrations
      /\ pools[p].idle \in Seq(Vms) /\ Injective(pools[p].idle)
      /\ pools[p].group \in Groups /\ GovernorTypeOK
  BY <1>1, TypesKnown
<1>4. ASSUME NEW v \in Vms, NEW ready \in BOOLEAN, NEW y,
             y = [NoLease EXCEPT !.pc = "open", !.pool = p, !.vm = v, !.ready = ready]
      PROVE  y \in Lease /\ y.pc = "open" /\ y.pool = p /\ y.vm = v
  BY <1>4 DEF NoLease, Lease, LeasePc
<1>5. CASE /\ pools[p].idle # <<>>
           /\ leases' = [leases EXCEPT ![l] =
                [NoLease EXCEPT !.pc = "open", !.pool = p, !.vm = Last(pools[p].idle), !.ready = TRUE]]
           /\ pools' = [pools EXCEPT ![p].idle = Front(pools[p].idle)]
           /\ UNCHANGED <<alloc, vms>>
  <2>1. PICK idle, v, rest, y, x :
          /\ idle = pools[p].idle /\ v = idle[Len(idle)] /\ rest = SubSeq(idle, 1, Len(idle) - 1)
          /\ y = [NoLease EXCEPT !.pc = "open", !.pool = p, !.vm = v, !.ready = TRUE]
          /\ x = [pools[p] EXCEPT !.idle = rest]
    OBVIOUS
  <2>2. /\ rest \in Seq(Vms) /\ v \in Vms /\ v \in ToSet(idle)
        /\ Injective(rest) /\ ToSet(rest) = ToSet(idle) \ {v}
    <3>1. /\ rest \in Seq(Vms) /\ v \in Vms /\ v \in Owned(idle)
          /\ Injective(idle) => Injective(rest) /\ Owned(rest) = Owned(idle) \ {v}
      BY <1>3, <1>5, <2>1, LastOwns
    <3>2. Owned(idle) = ToSet(idle) /\ Owned(rest) = ToSet(rest)
      BY DEF Owned, ToSet
    <3> QED BY <1>3, <2>1, <3>1, <3>2
  <2>3. leases' = [leases EXCEPT ![l] = y] /\ pools' = [pools EXCEPT ![p] = x]
    BY <1>3, <1>5, <2>1 DEF Last, Front
  <2>4. y \in Lease /\ y.pc = "open" /\ y.pool = p /\ y.vm = v
    BY <1>4, <2>1, <2>2
  <2>5. x \in Pool /\ x.idle = rest /\ x.max_uses = pools[p].max_uses /\ x.group = pools[p].group
    BY <1>3, <2>1, <2>2 DEF Pool
  <2>6. /\ x.held = pools[p].held /\ x.closed = pools[p].closed /\ x.draining = pools[p].draining
        /\ x.retiring = pools[p].retiring /\ x.released = pools[p].released
        /\ x.owner = pools[p].owner
    BY <1>3, <2>1, <2>2 DEF Pool
  <2>7. /\ pools'[p] = x /\ \A q \in Pools \ {p} : pools'[q] = pools[q]
        /\ pools' \in [Pools -> Pool \cup {NoPool}] /\ pools'[p] # NoPool
        /\ leases'[l] = y /\ \A k \in Leases \ {l} : leases'[k] = leases[k]
        /\ leases' \in [Leases -> Lease]
    BY <1>2, <1>3, <2>3, <2>4, <2>5, NoPoolAssumption DEF Typed
  <2>8. HandsOnly /\ OnlyPool(p)
    BY <1>1, <1>5, <2>5, <2>7 DEF HandsOnly, OnlyPool, Exists
  <2>9. Owners' /\ OwnedOnce'
    <3>1. /\ v \in ToSet(pools[p].idle)
          /\ ToSet(pools'[p].idle) = ToSet(pools[p].idle) \ {v} /\ Injective(pools'[p].idle)
      BY <2>1, <2>2, <2>5, <2>7
    <3>2. /\ leases'[l].vm = v /\ leases'[l].pc = "open" /\ leases'[l].pool = p /\ taken' = taken
      BY <1>1, <2>4, <2>7
    <3>3. pools'[p].held = pools[p].held /\ pools'[p].closed = pools[p].closed
      BY <2>6, <2>7
    <3> QED BY <1>1, <1>2, <2>7, <2>8, <3>1, <3>2, <3>3, IdleLeased
  <2>10. TokensKept /\ StartsNothing
    BY <1>5 DEF TokensKept, StartsNothing, Charged
  <2>11. Registrations'
    BY <1>1, <2>5, <2>6, <2>7, <2>10, TypesKnown, RegistrationsStay DEF Exists, PoolShape
  <2>12. Shrinks
    BY <1>1, <1>5, <1>2, <1>3 DEF Shrinks, GovernorTypeOK
  <2>13. Typed'
    BY <1>1, <1>2, <1>3, <1>5, <2>7 DEF Typed
  <2> QED BY <2>9, <2>10, <2>11, <2>12, <2>13, SettlesShrinking
<1>6. CASE /\ UNCHANGED pools
           /\ \E v \in Vms \ {cleaner.vm} :
                /\ reserve(pools[p].group, v)
                /\ leases' = [leases EXCEPT ![l] =
                     [NoLease EXCEPT !.pc = "open", !.pool = p, !.vm = v, !.ready = FALSE]]
                /\ vms' = [vms EXCEPT ![v] = NewVm(p)]
  <2>1. PICK v \in Vms \ {cleaner.vm} :
                /\ reserve(pools[p].group, v)
                /\ leases' = [leases EXCEPT ![l] =
                     [NoLease EXCEPT !.pc = "open", !.pool = p, !.vm = v, !.ready = FALSE]]
                /\ vms' = [vms EXCEPT ![v] = NewVm(p)]
    BY <1>6
  <2>2. PICK y, w, g : /\ y = [NoLease EXCEPT !.pc = "open", !.pool = p, !.vm = v, !.ready = FALSE]
                       /\ w = NewVm(p) /\ g = pools[p].group
    OBVIOUS
  <2>3. y \in Lease /\ y.pc = "open" /\ y.pool = p /\ y.vm = v
    BY <1>4, <2>2
  <2>4. /\ w \in Vm /\ w.pool = p /\ w.receipt = "none"
    BY <2>2 DEF NewVm, Vm
  <2>5. ~w.alive /\ ~w.reusable
    BY <2>2 DEF NewVm
  <2>6. /\ leases'[l] = y /\ \A k \in Leases \ {l} : leases'[k] = leases[k]
        /\ leases' \in [Leases -> Lease]
    BY <1>2, <2>1, <2>2, <2>3
  <2>7. vms'[v] = w /\ vms' \in [Vms -> Vm] /\ \A u \in Vms \ {v} : vms'[u] = vms[u]
    BY <1>2, <2>1, <2>2, <2>4
  <2>8. g \in Groups /\ reserve(g, v)
    BY <1>3, <2>1, <2>2
  <2>9. /\ ~Charged(v) /\ alloc'[v] = [group |-> g, phase |-> "Creating"]
        /\ \A u \in Vms \ {v} : alloc'[u] = alloc[u]
    BY <1>2, <2>8 DEF reserve, Charged
  <2>10. alloc'[v].group = g /\ alloc'[v].phase = "Creating" /\ Charged(v)'
    BY <2>8, <2>9, AbsentAssumption DEF Charged, Allocation, VmAllocationState
  <2>11. GovernorTypeOK' /\ commitment(Nobody)' <= MaxResident
    BY <1>1, <1>3, <2>8, ReservingCommits DEF PoolInv, Budgets
  <2>12. LeaseShape(l)'
    BY <1>1, <1>6, <2>3, <2>6 DEF LeaseShape, Exists
  <2>13. LeaseVm(l)'
    BY <2>3, <2>4, <2>5, <2>6, <2>7, <2>10 DEF LeaseVm, Executing
  <2>14. Owners' /\ OwnedOnce'
    BY <1>1, <1>2, <1>6, <2>3, <2>6, <2>7, <2>9, <2>12, <2>13, TokenReserved
  <2>15. StartsNothing
    BY <2>9, <2>10 DEF StartsNothing, Charged
  <2>16. Registrations'
    BY <1>1, <1>3, <1>6, <2>2, <2>4, <2>7, <2>9, <2>10 DEF Exists, PoolShape, Registrations, Charged
  <2>17. Typed'
    BY <1>1, <1>3, <1>6, <2>6, <2>7 DEF Typed
  <2> QED BY <2>11, <2>14, <2>15, <2>16, <2>17, Settles
<1> QED BY <1>5, <1>6 DEF prepare_with_budget

-----------------------------------------------------------------------------
(* Steps of a pool *)

\* create_pool: the name it registers has no token left of an earlier pool.
LEMMA CreatePoolKeeps ==
  ASSUME PoolInv, NEW p \in Pools, create_pool(p)
  PROVE  PoolInv'
<1>1. PICK g \in GroupsOf[p], policy \in PoliciesOf[p], c \in PlacementsOf[p] :
        /\ register_group(g, policy.limits, c)
        /\ pools' = [pools EXCEPT ![p] =
            [held |-> TRUE, closed |-> FALSE, draining |-> FALSE, idle |-> <<>>,
             group |-> g, reuse |-> policy.reuse, max_uses |-> policy.max_uses,
             min |-> policy.limits.min,
             retiring |-> FALSE, released |-> FALSE, owner |-> TRUE]]
  BY DEF create_pool
<1>2. /\ ~Exists(p)
      /\ UNCHANGED <<capacities, alloc, leases, vms, taken, pending, cleaner, closing, toClose, poll>>
  BY DEF create_pool
<1>3. /\ g \in Groups /\ c \in Capacities \cup {NoCapacity}
      /\ policy \in [limits : Limits, reuse : InstanceReuse, max_uses : Nat]
  BY PoolAssumption
<1>4. PICK limits, x :
        /\ limits = policy.limits
        /\ x = [held |-> TRUE, closed |-> FALSE, draining |-> FALSE, idle |-> <<>>,
             group |-> g, reuse |-> policy.reuse, max_uses |-> policy.max_uses,
             min |-> limits.min, retiring |-> FALSE, released |-> FALSE, owner |-> TRUE]
  OBVIOUS
<1>5. /\ limits \in Limits /\ limits.min \in Nat /\ policy.max_uses \in Nat
      /\ policy.reuse \in InstanceReuse
  BY <1>3, <1>4, GovernorAssumption DEF Limits
<1>6. x \in Pool /\ x # NoPool
  <2>1. PICK idle, min, reuse, uses :
          idle = <<>> /\ min = limits.min /\ reuse = policy.reuse /\ uses = policy.max_uses
    OBVIOUS
  <2>2. idle \in Seq(Vms) /\ min \in Nat /\ reuse \in InstanceReuse /\ uses \in Nat
    BY <1>5, <2>1
  <2>3. x = [held |-> TRUE, closed |-> FALSE, draining |-> FALSE, idle |-> idle,
             group |-> g, reuse |-> reuse, max_uses |-> uses,
             min |-> min, retiring |-> FALSE, released |-> FALSE, owner |-> TRUE]
    BY <1>4, <2>1
  <2>4. x \in Pool
    BY <1>3, <2>2, <2>3 DEF Pool
  <2> QED BY <2>4, NoPoolAssumption
<1>7. x.group = g /\ x.idle = <<>>
  BY <1>4
<1>8. x.held /\ ~x.closed /\ ~x.draining /\ ~x.retiring /\ ~x.released /\ x.owner
  BY <1>4
<1>9. /\ Typed /\ Registrations /\ GovernorTypeOK
  BY TypesKnown
<1>10. /\ pools'[p] = x /\ \A q \in Pools \ {p} : pools'[q] = pools[q]
       /\ pools' \in [Pools -> Pool \cup {NoPool}]
  BY <1>1, <1>4, <1>6, <1>9 DEF Typed
<1>11. register_group(g, limits, c)
  BY <1>1, <1>4
<1>12. /\ groups[g] = NoGroup
       /\ groups' = [groups EXCEPT ![g] = [policy |-> limits, capacity |-> c]]
  BY <1>11 DEF register_group, GroupAdmitted
<1>13. /\ groups'[g] # NoGroup /\ \A h \in Groups \ {g} : groups'[h] = groups[h]
  BY <1>3, <1>5, <1>9, <1>12, AbsentAssumption DEF Group, GovernorTypeOK
<1>14. \A q \in Pools : Exists(q) /\ ~pools[q].released => pools[q].group \in Groups \ {g}
  BY <1>12, TypesKnown DEF PoolShape
<1>15. GroupVms(alloc, g) = {}
  BY <1>9, <1>14 DEF Registrations, GroupVms, Charged
<1>16. GovernorTypeOK' /\ commitment(Nobody)' <= MaxResident
  BY <1>2, <1>3, <1>5, <1>9, <1>11, <1>15, RegisteringCommits DEF PoolInv, Budgets
<1>17. \A q \in Pools \ {p} : Exists(q)' <=> Exists(q)
  BY <1>10 DEF Exists
<1>18. Owners' /\ OwnedOnce'
  BY <1>2, <1>7, <1>10, <1>17, NobodyMoves DEF Exists
<1>19. Registrations'
  BY <1>2, <1>7, <1>8, <1>9, <1>10, <1>13, <1>14, <1>17 DEF PoolShape, Registrations, Charged, Exists, Typed
<1>20. StartsNothing
  BY <1>2 DEF StartsNothing, Charged
<1>21. Typed'
  BY <1>2, <1>9, <1>10 DEF Typed
<1> QED BY <1>16, <1>18, <1>19, <1>20, <1>21, Settles

\* close and close_next.
LEMMA StopAdmissionKeeps ==
  ASSUME PoolInv, NEW p \in Pools, Exists(p), StopAdmission(p), toClose' \subseteq toClose,
         UNCHANGED <<governorVars, leases, vms, pending, cleaner, closing, poll>>
  PROVE  PoolInv'
<1>1. /\ Typed /\ pools[p] \in Pool /\ PoolShape(p) /\ Registrations /\ pools[p].idle \in Seq(Vms)
      /\ GovernorTypeOK
  BY TypesKnown
<1>2. PICK x : x = [pools[p] EXCEPT !.closed = TRUE, !.idle = <<>>, !.draining = TRUE]
  OBVIOUS
<1>3. x \in Pool /\ x.idle = <<>> /\ x.max_uses = pools[p].max_uses /\ x.group = pools[p].group
  <2>1. PICK idle : idle = <<>>
    OBVIOUS
  <2>2. idle \in Seq(Vms)
    BY <2>1
  <2>3. x = [pools[p] EXCEPT !.closed = TRUE, !.idle = idle, !.draining = TRUE]
    BY <1>2, <2>1
  <2>4. x \in Pool /\ x.idle = idle /\ x.max_uses = pools[p].max_uses /\ x.group = pools[p].group
    BY <1>1, <2>2, <2>3 DEF Pool
  <2> QED BY <2>1, <2>4
<1>4. x.held = pools[p].held /\ x.closed /\ x.draining
  BY <1>1, <1>2 DEF Pool
<1>5. /\ x.retiring = pools[p].retiring /\ x.released = pools[p].released
      /\ x.owner = pools[p].owner
  BY <1>1, <1>2 DEF Pool
<1>6. pools' = [pools EXCEPT ![p] = x]
  BY <1>1, <1>2 DEF StopAdmission
<1>7. /\ pools'[p] = x /\ \A q \in Pools \ {p} : pools'[q] = pools[q]
      /\ pools' \in [Pools -> Pool \cup {NoPool}] /\ x # NoPool
  BY <1>1, <1>3, <1>6, NoPoolAssumption DEF Typed
<1>8. /\ ToSet(<<>>) = {} /\ Injective(<<>>) /\ ToSet(pools[p].idle) \subseteq Vms
  BY EmptyOwns, OwnersApart DEF ToSet
<1>9. HandsOnly /\ OnlyPool(p) /\ leases' = leases
  BY <1>3, <1>7 DEF HandsOnly, OnlyPool, Exists, governorVars
<1>10. Owners' /\ OwnedOnce'
  <2>1. PICK S : S = ToSet(pools[p].idle)
    OBVIOUS
  <2>2. /\ S \in SUBSET ToSet(pools[p].idle) /\ taken' = taken \cup S
        /\ ToSet(pools'[p].idle) = ToSet(pools[p].idle) \ S
        /\ Injective(pools'[p].idle) /\ ToSet(pools'[p].idle) = {}
    BY <1>3, <1>7, <1>8, <2>1 DEF StopAdmission
  <2>3. pools'[p].held = pools[p].held
    BY <1>4, <1>7
  <2>4. pools'[p].closed = pools[p].closed \/ ToSet(pools'[p].idle) = {}
    BY <2>2
  <2> QED BY <1>9, <2>2, <2>3, <2>4, IdleTaken
<1>11. TokensKept /\ StartsNothing /\ groups' = groups
  BY DEF TokensKept, StartsNothing, Charged, governorVars
<1>12. Registrations'
  BY <1>3, <1>4, <1>5, <1>7, <1>11, TypesKnown, RegistrationsStay DEF Exists, PoolShape
<1>13. Shrinks
  BY <1>1 DEF Shrinks, GovernorTypeOK, governorVars
<1>14. Typed'
  BY <1>1, <1>7, <1>8 DEF Typed, StopAdmission
<1> QED BY <1>10, <1>11, <1>12, <1>13, <1>14, SettlesShrinking

LEMMA CloseKeeps ==
  ASSUME PoolInv, NEW p \in Pools, close(p) \/ close_next(p)
  PROVE  PoolInv'
BY StopAdmissionKeeps DEF close, close_next, PoolInv, Registrations

\* The last step of ModulePool::close.
LEMMA RequestRetirementKeeps ==
  ASSUME PoolInv, NEW p \in Pools, request_retirement(p)
  PROVE  PoolInv'
<1>1. /\ Exists(p) /\ pools[p].draining
      /\ release_if_drained(p, [pools[p] EXCEPT !.draining = FALSE], TRUE, alloc)
      /\ UNCHANGED <<capacities, alloc, leases, vms, taken, pending, cleaner, closing, toClose, poll>>
  BY DEF request_retirement
<1>2. /\ Typed /\ pools[p] \in Pool /\ PoolShape(p) /\ Registrations
      /\ alloc \in [Vms -> Allocation \cup {NoAllocation}]
  BY <1>1, TypesKnown
<1>3. PICK pool : pool = [pools[p] EXCEPT !.draining = FALSE]
  OBVIOUS
<1>4. /\ pool \in Pool /\ pool.idle = pools[p].idle /\ pool.max_uses = pools[p].max_uses
      /\ pool.group = pools[p].group
  BY <1>2, <1>3 DEF Pool
<1>5. /\ pool.held = pools[p].held /\ pool.closed = pools[p].closed /\ ~pool.draining
      /\ pool.released = pools[p].released /\ pool.owner = pools[p].owner
  BY <1>2, <1>3 DEF Pool
<1>6. pool.closed
  BY <1>1, <1>2, <1>5 DEF PoolShape
<1>7. TokensKept /\ StartsNothing /\ alloc' \in [Vms -> Allocation \cup {NoAllocation}]
  BY <1>1, <1>2 DEF TokensKept, StartsNothing, Charged
<1>8. p \in toClose => pool.held
  BY <1>2, <1>5 DEF Registrations
<1>9. release_if_drained(p, pool, TRUE, alloc') /\ toClose' = toClose /\ capacities' = capacities
  BY <1>1, <1>3
<1>10. /\ Registrations' /\ Shrinks
       /\ pools' \in [Pools -> Pool \cup {NoPool}]
       /\ \A q \in Pools \ {p} : pools'[q] = pools[q]
       /\ pools'[p] # NoPool
       /\ pools'[p].held = pool.held /\ pools'[p].closed = pool.closed
       /\ pools'[p].idle = pool.idle /\ pools'[p].max_uses = pool.max_uses
  BY <1>1, <1>4, <1>5, <1>6, <1>7, <1>8, <1>9, ReleaseSound
<1>11. \A q \in Pools :
         /\ Exists(q)' <=> Exists(q)
         /\ pools'[q].held = pools[q].held /\ pools'[q].closed = pools[q].closed
         /\ pools'[q].idle = pools[q].idle /\ pools'[q].max_uses = pools[q].max_uses
  BY <1>1, <1>4, <1>5, <1>10 DEF Exists
<1>12. Owners' /\ OwnedOnce'
  BY <1>1, <1>11, NobodyMoves
<1>13. Typed'
  BY <1>1, <1>2, <1>10 DEF Typed
<1> QED BY <1>7, <1>10, <1>12, <1>13, SettlesShrinking

\* retire_expired takes VMs out of the idle list and leaves the others.
LEMMA RetireExpiredKeeps ==
  ASSUME PoolInv, NEW p \in Pools, retire_expired(p)
  PROVE  PoolInv'
<1>0. PICK S \in SUBSET ToSet(pools[p].idle) :
        /\ \E rest \in SetToSeqs(ToSet(pools[p].idle) \ S) : pools' = [pools EXCEPT ![p].idle = rest]
        /\ taken' = taken \cup S
  BY DEF retire_expired
<1>1. PICK rest \in SetToSeqs(ToSet(pools[p].idle) \ S) : pools' = [pools EXCEPT ![p].idle = rest]
  BY <1>0
<1>2. Exists(p) /\ UNCHANGED <<governorVars, leases, vms, pending, cleaner, closing, toClose, poll>>
  BY DEF retire_expired
<1>3. /\ Typed /\ pools[p] \in Pool /\ PoolShape(p) /\ Registrations /\ GovernorTypeOK
      /\ ToSet(pools[p].idle) \subseteq Vms
  BY <1>2, TypesKnown, OwnersApart
<1>4. /\ rest \in Seq(Vms) /\ ToSet(rest) = ToSet(pools[p].idle) \ S /\ Injective(rest)
  <2>1. PICK T : T = ToSet(pools[p].idle) \ S
    OBVIOUS
  <2>2. T \in SUBSET Vms /\ IsFiniteSet(T)
    BY <1>3, <2>1, VmsCounted
  <2>3. rest \in SetToSeqs(T)
    BY <2>1
  <2>4. /\ rest \in [1 .. Cardinality(T) -> T]
        /\ \A i, j \in 1 .. Cardinality(T) : i # j => rest[i] # rest[j]
    BY <2>3 DEF SetToSeqs
  <2>5. Injective(rest)
    BY <2>4 DEF Injective
  <2>6. rest \in Seq(T) /\ Owned(rest) = T
    BY <2>2, <2>4, <2>5, EnumerationOwns
  <2>7. rest \in Seq(Vms)
    BY <2>2, <2>6
  <2>8. ToSet(rest) = Owned(rest)
    BY DEF ToSet, Owned
  <2> QED BY <2>1, <2>5, <2>6, <2>7, <2>8
<1>5. PICK x : x = [pools[p] EXCEPT !.idle = rest]
  OBVIOUS
<1>6. x \in Pool /\ x.idle = rest /\ x.max_uses = pools[p].max_uses /\ x.group = pools[p].group
  BY <1>3, <1>4, <1>5 DEF Pool
<1>7. /\ x.held = pools[p].held /\ x.closed = pools[p].closed /\ x.draining = pools[p].draining
      /\ x.retiring = pools[p].retiring /\ x.released = pools[p].released
      /\ x.owner = pools[p].owner
  BY <1>3, <1>5 DEF Pool
<1>8. pools' = [pools EXCEPT ![p] = x]
  BY <1>1, <1>3, <1>5
<1>9. /\ pools'[p] = x /\ \A q \in Pools \ {p} : pools'[q] = pools[q]
      /\ pools' \in [Pools -> Pool \cup {NoPool}] /\ x # NoPool
  BY <1>3, <1>6, <1>8, NoPoolAssumption DEF Typed
<1>10. HandsOnly /\ OnlyPool(p) /\ leases' = leases
  BY <1>2, <1>6, <1>9 DEF HandsOnly, OnlyPool, Exists, governorVars
<1>11. Owners' /\ OwnedOnce'
  BY <1>0, <1>4, <1>6, <1>7, <1>9, <1>10, IdleTaken
<1>12. TokensKept /\ StartsNothing /\ groups' = groups /\ toClose' = toClose
  BY <1>2 DEF TokensKept, StartsNothing, Charged, governorVars
<1>13. Registrations'
  BY <1>2, <1>6, <1>7, <1>9, <1>12, TypesKnown, RegistrationsStay DEF Exists, PoolShape
<1>14. Shrinks
  BY <1>2, <1>3 DEF Shrinks, GovernorTypeOK, governorVars
<1>15. Typed'
  BY <1>0, <1>2, <1>3, <1>9 DEF Typed
<1> QED BY <1>11, <1>12, <1>13, <1>14, <1>15, SettlesShrinking

\* Drop of the last Arc<ModulePool>.
LEMMA DropPoolKeeps ==
  ASSUME PoolInv, NEW p \in Pools, drop_pool(p)
  PROVE  PoolInv'
<1>1. /\ Exists(p) /\ pools[p].held /\ ~pools[p].draining /\ p \notin toClose
      /\ \A l \in Leases : leases[l].pool # p
      /\ UNCHANGED <<capacities, leases, taken, cleaner, closing, toClose, poll>>
  BY DEF drop_pool
<1>2. PICK V, idle, pool :
        /\ idle = pools[p].idle /\ V = ToSet(idle)
        /\ pool = [pools[p] EXCEPT !.held = FALSE, !.idle = <<>>]
  OBVIOUS
<1>3. /\ alloc' = [v \in Vms |-> IF v \in V THEN Retired(alloc, v)[v] ELSE alloc[v]]
      /\ vms' = Queued(vms, V) /\ pending' = pending \o idle
  BY <1>2 DEF drop_pool
<1>4. release_if_drained(p, pool, TRUE, alloc')
  BY <1>2 DEF drop_pool
<1>5. /\ Typed /\ pools[p] \in Pool /\ PoolShape(p) /\ Registrations
      /\ idle \in Seq(Vms) /\ Injective(idle) /\ V \subseteq Vms
      /\ alloc \in [Vms -> Allocation \cup {NoAllocation}] /\ vms \in [Vms -> Vm]
  BY <1>1, <1>2, TypesKnown, OwnersApart DEF Typed
<1>6. \A v \in V : IdleVm(p, v) /\ v \in Vms
  BY <1>1, <1>2, <1>5 DEF PoolInv, Owners
<1>7. ASSUME NEW v \in V
      PROVE  /\ alloc'[v] \in Allocation /\ alloc'[v].group = alloc[v].group
             /\ alloc'[v].phase = "Retiring"
  BY <1>3, <1>5, <1>6, TokenRetires DEF IdleVm, Charged
<1>8. \A u \in Vms \ V : alloc'[u] = alloc[u]
  BY <1>3
<1>9. alloc' \in [Vms -> Allocation \cup {NoAllocation}]
  BY <1>3, <1>5, <1>7, <1>8
<1>10. /\ vms' \in [Vms -> Vm] /\ \A u \in Vms \ V : vms'[u] = vms[u]
       /\ \A v \in V : vms'[v].receipt = "Queued" /\ vms'[v].pool = vms[v].pool
  BY <1>3, <1>5, ReceiptsQueued
<1>11. \A v \in V : QueuedVm(v)'
  <2>1. ASSUME NEW v \in V PROVE QueuedVm(v)'
    <3>1. vms[v].alive
      BY <1>6 DEF IdleVm
    <3>2. vms'[v].alive
      BY <1>3, <1>5, <3>1, ReceiptsQueued
    <3> QED BY <1>7, <1>10, <3>2, AbsentAssumption DEF QueuedVm, Charged
  <2> QED BY <2>1
<1>12. TokensKept /\ StartsNothing
  BY <1>6, <1>7, <1>8, <1>10 DEF IdleVm, Charged, TokensKept, StartsNothing
<1>13. PICK empty, retiring : empty = <<>> /\ retiring = TRUE
  OBVIOUS
<1>14. empty \in Seq(Vms) /\ ToSet(empty) = {} /\ Injective(empty)
  BY <1>13, EmptyOwns DEF ToSet
<1>15. pool = [pools[p] EXCEPT !.held = FALSE, !.idle = empty]
  BY <1>2, <1>13
<1>16. /\ pool \in Pool /\ pool.idle = empty /\ pool.max_uses = pools[p].max_uses
       /\ pool.group = pools[p].group
  BY <1>5, <1>14, <1>15 DEF Pool
<1>17. /\ ~pool.held /\ pool.closed = pools[p].closed /\ pool.draining = pools[p].draining
       /\ pool.released = pools[p].released /\ pool.owner = pools[p].owner
  BY <1>5, <1>15 DEF Pool
<1>18. /\ retiring \in BOOLEAN /\ (pools[p].retiring => retiring)
       /\ (retiring => pool.closed \/ ~pool.held) /\ (pool.draining => pool.closed)
       /\ (p \in toClose => pool.held)
  BY <1>1, <1>13, <1>17
<1>19. release_if_drained(p, pool, retiring, alloc') /\ toClose' = toClose /\ capacities' = capacities
  BY <1>1, <1>4, <1>13
<1>20. /\ Registrations' /\ Shrinks
       /\ pools' \in [Pools -> Pool \cup {NoPool}]
       /\ \A q \in Pools \ {p} : pools'[q] = pools[q]
       /\ pools'[p] # NoPool
       /\ pools'[p].idle = pool.idle /\ pools'[p].max_uses = pool.max_uses
  BY <1>1, <1>9, <1>12, <1>16, <1>17, <1>18, <1>19, ReleaseSound
<1>21. OnlyPool(p) /\ ToSet(pools'[p].idle) = {} /\ Injective(pools'[p].idle)
  BY <1>1, <1>14, <1>16, <1>20 DEF OnlyPool, Exists
<1>22. Owners' /\ OwnedOnce'
  BY <1>1, <1>2, <1>3, <1>8, <1>10, <1>11, <1>21, IdleQueued
<1>23. pending' \in Seq(Vms)
  BY <1>3, <1>5, ConcatOwns DEF Typed
<1>24. Typed'
  BY <1>1, <1>5, <1>10, <1>20, <1>23 DEF Typed
<1> QED BY <1>12, <1>20, <1>22, <1>24, SettlesShrinking

-----------------------------------------------------------------------------
(* Steps of the retirement worker and of the manager *)

\* A step that leaves pools and registrations alone.
LEMMA RegistrationsAlone ==
  ASSUME PoolInv, UNCHANGED <<groups, capacities, pools>>, TokensKept, toClose' \subseteq toClose,
         alloc' \in [Vms -> Allocation \cup {NoAllocation}]
  PROVE  PoolsStill /\ Registrations' /\ Shrinks
BY RegistrationsStay DEF PoolsStill, Exists, Shrinks, TokensKept, Charged, PoolInv, PoolTypeOK, GovernorTypeOK,
   Registrations, PoolShape

\* enqueue.
LEMMA EnqueueTakenKeeps ==
  ASSUME PoolInv, NEW v \in Vms, enqueue_taken(v)
  PROVE  PoolInv'
<1>1. /\ v \in taken /\ taken' = taken \ {v} /\ alloc' = Retired(alloc, v)
      /\ vms' = Queued(vms, {v}) /\ pending' = Append(pending, v)
      /\ UNCHANGED <<groups, capacities, pools, leases, cleaner, closing, toClose, poll>>
  BY DEF enqueue_taken
<1>2. /\ Typed /\ vms \in [Vms -> Vm] /\ alloc \in [Vms -> Allocation \cup {NoAllocation}]
      /\ pending \in Seq(Vms)
  BY TypesKnown DEF Typed
<1>3. TakenVm(v) /\ alloc[v] \in Allocation /\ alloc[v].phase # "Running"
  BY <1>1, <1>2 DEF PoolInv, Owners, TakenVm, Charged
<1>4. /\ alloc' \in [Vms -> Allocation \cup {NoAllocation}]
      /\ alloc'[v] \in Allocation /\ alloc'[v].group = alloc[v].group
      /\ alloc'[v].phase = "Retiring" /\ \A u \in Vms \ {v} : alloc'[u] = alloc[u]
  BY <1>1, <1>2, <1>3, TokenRetires
<1>5. /\ vms' \in [Vms -> Vm] /\ \A u \in Vms \ {v} : vms'[u] = vms[u]
      /\ vms'[v].receipt = "Queued" /\ vms'[v].pool = vms[v].pool
  BY <1>1, <1>2, ReceiptsQueued
<1>6. vms'[v].alive
  BY <1>1, <1>2, <1>3, ReceiptsQueued DEF TakenVm
<1>7. QueuedVm(v)'
  BY <1>4, <1>5, <1>6, AbsentAssumption DEF QueuedVm, Charged
<1>8. Owners' /\ OwnedOnce'
  BY <1>1, <1>4, <1>5, <1>7, TakenQueued
<1>9. TokensKept /\ StartsNothing
  BY <1>3, <1>4, <1>5 DEF TakenVm, Charged, TokensKept, StartsNothing
<1>10. Registrations' /\ Shrinks
  BY <1>1, <1>4, <1>9, RegistrationsAlone
<1>11. pending' \in Seq(Vms)
  BY <1>1, <1>2, AppendOwns
<1>12. Typed'
  BY <1>1, <1>2, <1>5, <1>11 DEF Typed
<1> QED BY <1>8, <1>9, <1>10, <1>12, SettlesShrinking

\* What is known of the worker and of the VM it destroys.
LEMMA CleanerKnown ==
  ASSUME PoolInv
  PROVE  /\ CleanerVm /\ Typed /\ vms \in [Vms -> Vm] /\ pending \in Seq(Vms) /\ Injective(pending)
         /\ alloc \in [Vms -> Allocation \cup {NoAllocation}]
         /\ cleaner \in [pc : {"waiting", "closing", "destroyed", "released", "exited"},
                         vm : Vms \cup {NoVm}, closing : BOOLEAN]
         /\ cleaner.vm \notin ToSet(pending)
BY TypesKnown, OwnersApart DEF Typed, Owners, OwnedOnce

LEMMA ReceiptPublished ==
  ASSUME NEW x \in Vm, NEW receipt \in {"Running", "Completed"}, NEW w,
         w = [x EXCEPT !.receipt = receipt]
  PROVE  w \in Vm /\ w.receipt = receipt /\ w.pool = x.pool /\ (w.alive <=> x.alive)
BY DEF Vm

\* run_retirement takes a module.
LEMMA TakeRetiredKeeps ==
  ASSUME PoolInv, take_retired
  PROVE  PoolInv'
<1>1. /\ cleaner.pc = "waiting" /\ pending # <<>>
      /\ cleaner' = [cleaner EXCEPT !.pc = "closing", !.vm = Head(pending)]
      /\ pending' = Tail(pending)
      /\ vms' = [vms EXCEPT ![Head(pending)].receipt = "Running"]
      /\ UNCHANGED <<groups, alloc, pools>>
      /\ UNCHANGED <<capacities, leases, taken, closing, toClose, poll>>
  BY DEF take_retired, CleanerUnchanged
<1>2. /\ CleanerVm /\ Typed /\ vms \in [Vms -> Vm] /\ pending \in Seq(Vms) /\ Injective(pending)
      /\ alloc \in [Vms -> Allocation \cup {NoAllocation}]
      /\ cleaner \in [pc : {"waiting", "closing", "destroyed", "released", "exited"},
                      vm : Vms \cup {NoVm}, closing : BOOLEAN]
  BY CleanerKnown
<1>3. PICK v, w : v = Head(pending) /\ w = [vms[v] EXCEPT !.receipt = "Running"]
  OBVIOUS
<1>4. /\ v \in Vms /\ pending' \in Seq(Vms) /\ v \in ToSet(pending) /\ Injective(pending')
      /\ ToSet(pending) = ToSet(pending') \cup {v} /\ v \notin ToSet(pending')
  <2>1. PICK s, t : s = pending /\ t = Tail(pending)
    OBVIOUS
  <2>2. /\ v \in Vms /\ t \in Seq(Vms) /\ v \in Owned(s) /\ Owned(s) = Owned(t) \cup {v}
        /\ Injective(t) /\ v \notin Owned(t)
    BY <1>1, <1>2, <1>3, <2>1, PopOwns
  <2>3. Owned(s) = ToSet(s) /\ Owned(t) = ToSet(t) /\ pending' = t
    BY <1>1, <2>1 DEF Owned, ToSet
  <2> QED BY <2>1, <2>2, <2>3
<1>5. QueuedVm(v)
  BY <1>4 DEF PoolInv, Owners
<1>6. /\ w \in Vm /\ w.receipt = "Running" /\ w.pool = vms[v].pool
      /\ (w.alive <=> vms[v].alive)
  BY <1>2, <1>3, <1>4, ReceiptPublished
<1>7. w.alive
  BY <1>5, <1>6 DEF QueuedVm
<1>8. /\ vms' \in [Vms -> Vm] /\ vms'[v] = w /\ \A u \in Vms \ {v} : vms'[u] = vms[u]
  BY <1>1, <1>2, <1>3, <1>4, <1>6
<1>9. /\ cleaner'.pc = "closing" /\ cleaner'.vm = v
      /\ cleaner' \in [pc : {"waiting", "closing", "destroyed", "released", "exited"},
                       vm : Vms \cup {NoVm}, closing : BOOLEAN]
  BY <1>1, <1>2, <1>3, <1>4
<1>10. Charged(v) /\ Charged(v)' /\ alloc'[v].phase # "Running" /\ cleaner.vm = NoVm
  BY <1>1, <1>2, <1>5 DEF QueuedVm, Charged, CleanerVm
<1>11. CleanerVm'
  BY <1>4, <1>6, <1>7, <1>8, <1>9, <1>10 DEF CleanerVm
<1>12. TokensKept /\ StartsNothing
  BY <1>1, <1>6, <1>8 DEF TokensKept, StartsNothing, Charged
<1>13. PoolsStill /\ Registrations' /\ Shrinks
  BY <1>1, <1>2, <1>12, RegistrationsAlone
<1>14. FreeVm(v)'
  BY <1>10 DEF FreeVm
<1>15. Owners' /\ OwnedOnce'
  BY <1>1, <1>4, <1>8, <1>9, <1>10, <1>11, <1>13, <1>14, CleanerMoves
<1>16. Typed'
  BY <1>1, <1>2, <1>4, <1>8, <1>9 DEF Typed
<1> QED BY <1>12, <1>13, <1>15, <1>16, SettlesShrinking

\* A failed cleanup: the module is queued again and stays charged.
LEMMA FailCleanupKeeps ==
  ASSUME PoolInv, fail_cleanup
  PROVE  PoolInv'
<1>1. PICK v : v = cleaner.vm
  OBVIOUS
<1>2. /\ cleaner.pc = "closing"
      /\ vms' = [vms EXCEPT ![v].receipt = "Retrying", ![v].reusable = FALSE]
      /\ pending' = Append(pending, v)
      /\ cleaner' = [cleaner EXCEPT !.pc = "waiting", !.vm = NoVm]
      /\ UNCHANGED <<groups, alloc, pools>>
      /\ UNCHANGED <<capacities, leases, taken, closing, toClose, poll>>
  BY <1>1 DEF fail_cleanup, CleanerUnchanged
<1>3. /\ CleanerVm /\ Typed /\ vms \in [Vms -> Vm] /\ pending \in Seq(Vms) /\ Injective(pending)
      /\ alloc \in [Vms -> Allocation \cup {NoAllocation}]
      /\ cleaner \in [pc : {"waiting", "closing", "destroyed", "released", "exited"},
                      vm : Vms \cup {NoVm}, closing : BOOLEAN]
      /\ v \notin ToSet(pending)
  BY <1>1, CleanerKnown
<1>4. v \in Vms /\ Charged(v) /\ alloc[v].phase # "Running" /\ vms[v].alive /\ vms[v] \in Vm
  BY <1>1, <1>2, <1>3 DEF CleanerVm
<1>5. PICK w : w = [vms[v] EXCEPT !.receipt = "Retrying", !.reusable = FALSE]
  OBVIOUS
<1>6. w \in Vm /\ w.receipt = "Retrying" /\ w.pool = vms[v].pool
  BY <1>4, <1>5 DEF Vm
<1>7. w.alive
  BY <1>4, <1>5 DEF Vm
<1>8. vms' \in [Vms -> Vm] /\ vms'[v] = w /\ \A u \in Vms \ {v} : vms'[u] = vms[u]
  BY <1>2, <1>3, <1>4, <1>5, <1>6
<1>9. /\ pending' \in Seq(Vms) /\ ToSet(pending') = ToSet(pending) \cup {v} /\ Injective(pending')
  <2>1. PICK s, t : s = pending /\ t = Append(pending, v)
    OBVIOUS
  <2>2. /\ t \in Seq(Vms) /\ Owned(t) = Owned(s) \cup {v}
        /\ Injective(s) /\ v \notin Owned(s) => Injective(t)
    BY <1>3, <1>4, <2>1, AppendOwns
  <2>3. Owned(s) = ToSet(s) /\ Owned(t) = ToSet(t) /\ pending' = t
    BY <1>2, <2>1 DEF Owned, ToSet
  <2> QED BY <1>3, <2>1, <2>2, <2>3
<1>10. /\ cleaner'.pc = "waiting" /\ cleaner'.vm = NoVm
       /\ cleaner' \in [pc : {"waiting", "closing", "destroyed", "released", "exited"},
                        vm : Vms \cup {NoVm}, closing : BOOLEAN]
  BY <1>2, <1>3
<1>11. QueuedVm(v)' /\ FreeVm(v)' /\ CleanerVm'
  BY <1>2, <1>4, <1>6, <1>7, <1>8, <1>10 DEF Charged, QueuedVm, FreeVm, CleanerVm
<1>12. TokensKept /\ StartsNothing
  BY <1>2, <1>6, <1>8 DEF TokensKept, StartsNothing, Charged
<1>13. PoolsStill /\ Registrations' /\ Shrinks
  BY <1>2, <1>3, <1>12, RegistrationsAlone
<1>14. Owners' /\ OwnedOnce'
  BY <1>1, <1>2, <1>4, <1>8, <1>9, <1>10, <1>11, <1>13, CleanerMoves
<1>15. Typed'
  BY <1>2, <1>3, <1>8, <1>9, <1>10 DEF Typed
<1> QED BY <1>12, <1>13, <1>14, <1>15, SettlesShrinking

\* ResidentModule drops its module.
LEMMA DestroyVmKeeps ==
  ASSUME PoolInv, destroy_vm
  PROVE  PoolInv'
BY CleanerKnown, RegistrationsAlone, CleanerMoves, SettlesShrinking DEF destroy_vm, CleanerUnchanged, CleanerVm, Vm,
   NewVm, Charged, FreeVm, TokensKept, StartsNothing, Typed

\* ... then its token, and the registration last.
LEMMA ReleaseTokenKeeps ==
  ASSUME PoolInv, release_token
  PROVE  PoolInv'
<1>1. PICK v, p, pool, retiring :
        v = cleaner.vm /\ p = vms[v].pool /\ pool = pools[p] /\ retiring = pools[p].retiring
  OBVIOUS
<1>2. /\ cleaner.pc = "destroyed" /\ alloc' = Freed(v)
      /\ cleaner' = [cleaner EXCEPT !.pc = "released"]
      /\ UNCHANGED <<vms, pending>>
      /\ UNCHANGED <<capacities, leases, taken, closing, toClose, poll>>
  BY <1>1 DEF release_token, CleanerUnchanged
<1>3. release_if_drained(p, pool, retiring, alloc')
  BY <1>1 DEF release_token
<1>4. /\ CleanerVm /\ Typed /\ vms \in [Vms -> Vm] /\ pending \in Seq(Vms) /\ Injective(pending)
      /\ alloc \in [Vms -> Allocation \cup {NoAllocation}]
      /\ cleaner \in [pc : {"waiting", "closing", "destroyed", "released", "exited"},
                      vm : Vms \cup {NoVm}, closing : BOOLEAN]
      /\ v \notin ToSet(pending)
  BY <1>1, CleanerKnown
<1>5. v \in Vms /\ Charged(v) /\ vms[v].receipt = "Running" /\ ~vms[v].alive
  BY <1>1, <1>2, <1>4 DEF CleanerVm
<1>6. p \in Pools /\ Exists(p)
  BY <1>1, <1>5 DEF PoolInv, Registrations
<1>7. pool \in Pool /\ PoolShape(p) /\ (p \in toClose => pools[p].held)
  BY <1>1, <1>6, TypesKnown DEF Registrations
<1>8. /\ retiring \in BOOLEAN /\ pool.group = pools[p].group
      /\ (pools[p].retiring => retiring)
      /\ (retiring => pool.closed \/ ~pool.held)
      /\ (pool.draining => pool.closed)
      /\ (p \in toClose => pool.held)
  BY <1>1, <1>7 DEF PoolShape, Pool
<1>9. pool.released = pools[p].released /\ pool.owner = pools[p].owner
  BY <1>1
<1>10. /\ alloc' \in [Vms -> Allocation \cup {NoAllocation}] /\ alloc'[v] = NoAllocation
       /\ \A u \in Vms \ {v} : alloc'[u] = alloc[u]
  BY <1>2, <1>4, <1>5 DEF Freed
<1>11. TokensKept /\ StartsNothing
  BY <1>2, <1>10 DEF TokensKept, StartsNothing, Charged
<1>12. toClose' = toClose /\ capacities' = capacities
  BY <1>2
<1>13. /\ Registrations' /\ Shrinks
       /\ pools' \in [Pools -> Pool \cup {NoPool}]
       /\ \A q \in Pools \ {p} : pools'[q] = pools[q]
       /\ pools'[p] # NoPool
       /\ pools'[p].held = pool.held /\ pools'[p].closed = pool.closed
       /\ pools'[p].idle = pool.idle /\ pools'[p].max_uses = pool.max_uses
  BY <1>3, <1>6, <1>7, <1>8, <1>9, <1>10, <1>11, <1>12, ReleaseSound
<1>14. PoolsStill
  BY <1>1, <1>6, <1>13 DEF Exists, PoolsStill
<1>15. /\ cleaner'.pc = "released" /\ cleaner'.vm = v
       /\ cleaner' \in [pc : {"waiting", "closing", "destroyed", "released", "exited"},
                        vm : Vms \cup {NoVm}, closing : BOOLEAN]
  BY <1>1, <1>2, <1>4
<1>16. ~Charged(v)' /\ CleanerVm' /\ FreeVm(v)'
  BY <1>2, <1>5, <1>10, <1>15 DEF Charged, CleanerVm, FreeVm
<1>17. Owners' /\ OwnedOnce'
  BY <1>1, <1>2, <1>4, <1>5, <1>10, <1>14, <1>15, <1>16, CleanerMoves
<1>18. Typed'
  BY <1>2, <1>4, <1>13, <1>15 DEF Typed
<1> QED BY <1>11, <1>13, <1>17, <1>18, SettlesShrinking

\* The receipt completes after the release.
LEMMA PublishCompletedKeeps ==
  ASSUME PoolInv, publish_completed
  PROVE  PoolInv'
<1>1. PICK v, w : v = cleaner.vm /\ w = [vms[v] EXCEPT !.receipt = "Completed"]
  OBVIOUS
<1>2. /\ cleaner.pc = "released"
      /\ vms' = [vms EXCEPT ![v].receipt = "Completed"]
      /\ cleaner' = [cleaner EXCEPT !.pc = "waiting", !.vm = NoVm]
      /\ UNCHANGED <<groups, alloc, pools, pending>>
      /\ UNCHANGED <<capacities, leases, taken, closing, toClose, poll>>
  BY <1>1 DEF publish_completed, CleanerUnchanged
<1>3. /\ CleanerVm /\ Typed /\ vms \in [Vms -> Vm] /\ pending \in Seq(Vms) /\ Injective(pending)
      /\ alloc \in [Vms -> Allocation \cup {NoAllocation}]
      /\ cleaner \in [pc : {"waiting", "closing", "destroyed", "released", "exited"},
                      vm : Vms \cup {NoVm}, closing : BOOLEAN]
      /\ v \notin ToSet(pending)
  BY <1>1, CleanerKnown
<1>4. v \in Vms /\ ~Charged(v) /\ ~vms[v].alive
  BY <1>1, <1>2, <1>3 DEF CleanerVm
<1>5. w \in Vm /\ w.receipt = "Completed" /\ w.pool = vms[v].pool /\ (w.alive <=> vms[v].alive)
  BY <1>1, <1>3, <1>4, ReceiptPublished
<1>6. vms' \in [Vms -> Vm] /\ vms'[v] = w /\ \A u \in Vms \ {v} : vms'[u] = vms[u]
  BY <1>1, <1>2, <1>3, <1>4, <1>5
<1>7. /\ cleaner'.pc = "waiting" /\ cleaner'.vm = NoVm
      /\ cleaner' \in [pc : {"waiting", "closing", "destroyed", "released", "exited"},
                       vm : Vms \cup {NoVm}, closing : BOOLEAN]
  BY <1>2, <1>3
<1>8. ~Charged(v)' /\ CleanerVm' /\ FreeVm(v)'
  BY <1>2, <1>4, <1>5, <1>6, <1>7 DEF Charged, CleanerVm, FreeVm
<1>9. TokensKept /\ StartsNothing
  BY <1>2, <1>5, <1>6 DEF TokensKept, StartsNothing, Charged
<1>10. PoolsStill /\ Registrations' /\ Shrinks
  BY <1>2, <1>3, <1>9, RegistrationsAlone
<1>11. Owners' /\ OwnedOnce'
  BY <1>1, <1>2, <1>3, <1>4, <1>6, <1>7, <1>8, <1>10, CleanerMoves
<1>12. Typed'
  BY <1>2, <1>3, <1>6, <1>7 DEF Typed
<1> QED BY <1>9, <1>10, <1>11, <1>12, SettlesShrinking

\* A step that moves no VM and changes no pool.
LEMMA ManagerSteps ==
  ASSUME PoolInv, UNCHANGED <<groups, alloc, pools, leases, vms, taken, pending>>,
         cleaner'.pc = cleaner.pc \/ (cleaner.pc = "waiting" /\ cleaner'.pc = "exited"),
         cleaner'.vm = cleaner.vm, Typed',
         \A p \in toClose' : Exists(p) /\ pools[p].held,
         GovernorTypeOK', commitment(Nobody)' <= MaxResident
  PROVE  PoolInv'
BY NobodyMoves, Settles DEF Exists, PoolInv, Registrations, PoolShape, Charged, StartsNothing

LEMMA ExitCleanerKeeps ==
  ASSUME PoolInv, exit_cleaner
  PROVE  PoolInv'
BY TypesKnown, CleanerKnown, ShrinkingCommits, ManagerSteps DEF exit_cleaner, CleanerUnchanged, Shrinks,
   GovernorTypeOK, PoolInv, Budgets, Typed, Registrations

LEMMA ChangeCapacityKeeps ==
  ASSUME PoolInv, NEW c \in Capacities, ChangeCapacity(c)
  PROVE  PoolInv'
BY TypesKnown, PoolAssumption, CapacityCommits, ManagerSteps DEF ChangeCapacity, ManagerUnchanged, PoolInv, Budgets,
   Typed, Registrations

\* request_close, and the two halves of poll_closed.
LEMMA ClosingKeeps ==
  ASSUME PoolInv, request_close \/ poll_usage \/ try_shutdown
  PROVE  PoolInv'
<1>1. UNCHANGED <<governorVars, pools, leases, vms, taken, pending>>
  BY DEF request_close, poll_usage, try_shutdown
<1>2. /\ Typed /\ Registrations /\ GovernorTypeOK
      /\ cleaner \in [pc : {"waiting", "closing", "destroyed", "released", "exited"},
                      vm : Vms \cup {NoVm}, closing : BOOLEAN]
  BY TypesKnown, CleanerKnown
<1>3. /\ cleaner'.pc = cleaner.pc /\ cleaner'.vm = cleaner.vm
      /\ cleaner' \in [pc : {"waiting", "closing", "destroyed", "released", "exited"},
                       vm : Vms \cup {NoVm}, closing : BOOLEAN]
  BY <1>2 DEF try_shutdown, request_close, poll_usage
<1>4. Shrinks
  BY <1>1, <1>2 DEF Shrinks, GovernorTypeOK, governorVars
<1>5. GovernorTypeOK' /\ commitment(Nobody)' <= MaxResident
  BY <1>2, <1>4, ShrinkingCommits DEF PoolInv, Budgets
<1>6. closing' \in BOOLEAN /\ poll' \in [drained : BOOLEAN, closed : BOOLEAN]
  <2>1. closing \in BOOLEAN /\ poll \in [drained : BOOLEAN, closed : BOOLEAN]
    BY <1>2 DEF Typed
  <2>2. CASE request_close
    BY <2>1, <2>2 DEF request_close
  <2>3. CASE poll_usage
    BY <2>1, <2>3 DEF poll_usage
  <2>4. CASE try_shutdown
    BY <2>1, <2>4 DEF try_shutdown
  <2> QED BY <2>2, <2>3, <2>4
<1>7. toClose' \subseteq Pools /\ \A p \in toClose' : Exists(p) /\ pools[p].held
  BY <1>2 DEF request_close, poll_usage, try_shutdown, Typed, Registrations
<1>8. Typed'
  BY <1>1, <1>2, <1>3, <1>6, <1>7 DEF Typed
<1> QED BY <1>1, <1>3, <1>5, <1>7, <1>8, ManagerSteps DEF governorVars

\* Nothing moves when nothing happens.
LEMMA StutterKeeps ==
  ASSUME PoolInv, UNCHANGED vars
  PROVE  PoolInv'
BY TypesKnown, ShrinkingCommits, ManagerSteps DEF vars, governorVars, Shrinks, GovernorTypeOK, PoolInv, Budgets,
   Typed, Registrations

-----------------------------------------------------------------------------
(* The invariant *)

LEMMA PoolInitially ==
  ASSUME Init
  PROVE  PoolInv
<1>1. /\ groups = [g \in Groups |-> NoGroup] /\ capacities = [c \in Capacities |-> NoCapacity]
      /\ alloc = [v \in Vms |-> NoAllocation]
      /\ pools = [p \in Pools |-> NoPool] /\ leases = [l \in Leases |-> NoLease]
      /\ vms = [v \in Vms |-> NewVm(NoPool)] /\ taken = {} /\ pending = <<>>
      /\ cleaner = [pc |-> "waiting", vm |-> NoVm, closing |-> FALSE]
      /\ closing = FALSE /\ toClose = {} /\ poll = [drained |-> FALSE, closed |-> FALSE]
  BY DEF Init, GovernorInit
<1>2. /\ \A g \in Groups : groups[g] = NoGroup /\ ~Independent(g)
      /\ \A c \in Capacities : capacities[c] = NoCapacity
      /\ \A v \in Vms : ~Charged(v)
      /\ \A p \in Pools : ~Exists(p)
  BY <1>1 DEF Charged, Exists, Independent
<1>3. /\ NoLease \in Lease /\ NoLease.pc = "none" /\ NoLease.pool = NoPool /\ NoLease.vm = NoVm
  BY DEF NoLease, Lease, LeasePc
<1>4. NewVm(NoPool) \in Vm /\ NewVm(NoPool).receipt = "none"
  BY DEF NewVm, Vm
<1>5. ~NewVm(NoPool).alive
  BY DEF NewVm
<1>6. GovernorTypeOK
  BY <1>1, <1>2 DEF GovernorTypeOK
<1>7. pending \in Seq(Vms) /\ ToSet(pending) = {} /\ Injective(pending)
  BY <1>1, EmptyOwns DEF ToSet
<1>8. cleaner \in [pc : {"waiting", "closing", "destroyed", "released", "exited"},
                   vm : Vms \cup {NoVm}, closing : BOOLEAN]
  BY <1>1
<1>9. PoolTypeOK
  BY <1>1, <1>3, <1>4, <1>6, <1>7, <1>8 DEF PoolTypeOK
<1>10. Owners
  BY <1>1, <1>2, <1>3, <1>4, <1>5, <1>7 DEF LeaseShape, LeaseVm, CleanerVm, FreeVm, Owners
<1>11. OwnedOnce
  BY <1>1, <1>2, <1>3, <1>7 DEF OwnedOnce
<1>12. Registrations
  BY <1>1, <1>2 DEF Registrations
<1>13. Budgets
  BY <1>2, TotalZero, FS_EmptySet, GovernorAssumption DEF GroupCharges, CapacityCharges, commitment, RunningOf,
     Resident, Charged, Budgets
<1> QED BY <1>9, <1>10, <1>11, <1>12, <1>13 DEF PoolInv

\* Every step keeps the invariant.
LEMMA PoolInductive ==
  ASSUME PoolInv, [Next]_vars
  PROVE  PoolInv'
BY PrepareKeeps, InitializeKeeps, FinishAllocationKeeps, BeginInitializationKeeps, FinishInitializationKeeps,
   InvokeKeeps, FinishInvokeKeeps, FinalizeKeeps, FinishFinalizeKeeps, CloseLeaseKeeps, DropLeaseKeeps,
   CreatePoolKeeps, CloseKeeps, RequestRetirementKeeps, RetireExpiredKeeps, DropPoolKeeps, TakeRetiredKeeps,
   FailCleanupKeeps, DestroyVmKeeps, ReleaseTokenKeeps, PublishCompletedKeeps, ExitCleanerKeeps, EnqueueTakenKeeps,
   ChangeCapacityKeeps, ClosingKeeps, StutterKeeps DEF LeaseStep, PoolStep, CleanerStep, Next

\* Every state is typed, and no group outlives the capacity it is a member of.
THEOREM PoolTyped == Spec => []PoolTypeOK
<1>1. Init => PoolInv
  BY PoolInitially
<1>2. PoolInv /\ [Next]_vars => PoolInv'
  BY PoolInductive
<1>3. PoolInv => PoolTypeOK
  BY DEF PoolInv
<1> QED BY <1>1, <1>2, <1>3, PTL DEF Spec

\* The commitment stays within the parent, and permits and leases inside Lua agree.
LEMMA CommitmentHolds ==
  ASSUME PoolInv
  PROVE  CommitmentWithinParent
BY PoolAssumption DEF PoolInv, Owners, TakenVm, QueuedVm, CleanerVm, IdleVm, Placed, LeaseVm, CommitmentWithinParent,
   Budgets, Resident, Charged

\* One place for every token.
LEMMA OnePlace ==
  ASSUME PoolInv, NEW v \in Vms
  PROVE  Cardinality(Places(v)) = (IF Charged(v) THEN 1 ELSE 0)
<1>1. PICK L, I, T, Q, C :
        /\ L = {<<"lease", l>> : l \in {k \in Leases : leases[k].vm = v}}
        /\ I = {<<"idle", p>> : p \in {q \in Pools : Exists(q) /\ v \in ToSet(pools[q].idle)}}
        /\ T = {<<"taken">> : x \in {v} \cap taken}
        /\ Q = {<<"pending", i>> : i \in {j \in DOMAIN pending : pending[j] = v}}
        /\ C = {<<"cleaner">> : x \in {v} \cap (IF cleaner.pc \in {"closing", "destroyed"}
                                                THEN {cleaner.vm} ELSE {})}
  OBVIOUS
<1>2. Places(v) = L \cup I \cup T \cup Q \cup C
  BY <1>1 DEF Places
<1>3. /\ (\A l \in Leases : leases[l].vm # v) => L = {}
      /\ (\A p \in Pools : Exists(p) => v \notin ToSet(pools[p].idle)) => I = {}
      /\ v \notin taken => T = {}
      /\ v \notin ToSet(pending) => Q = {}
      /\ ~(cleaner.pc \in {"closing", "destroyed"} /\ cleaner.vm = v) => C = {}
  BY <1>1 DEF ToSet
<1>4. NoVm # v
  BY PoolAssumption
<1>5. ASSUME ~Charged(v) PROVE Places(v) = {}
  BY <1>2, <1>3, <1>4, <1>5 DEF PoolInv, Owners, LeaseVm, IdleVm, TakenVm, QueuedVm, CleanerVm
<1>6. ASSUME Charged(v) PROVE \E x : Places(v) = {x}
  <2>1. Placed(v)
    BY <1>6 DEF PoolInv, Owners
  <2>2. CASE \E l \in Leases : leases[l].vm = v
    <3>1. PICK l \in Leases : leases[l].vm = v
      BY <2>2
    <3>2. /\ v \notin taken /\ v \notin ToSet(pending) /\ v # cleaner.vm
          /\ \A p \in Pools : Exists(p) => v \notin ToSet(pools[p].idle)
          /\ \A k \in Leases \ {l} : leases[k].vm # v
      BY <1>4, <3>1, OwnersApart
    <3>3. I = {} /\ T = {} /\ Q = {} /\ C = {}
      BY <1>3, <3>2
    <3>4. L = {<<"lease", l>>}
      BY <1>1, <3>1, <3>2
    <3>5. Places(v) = {<<"lease", l>>}
      BY <1>2, <3>3, <3>4
    <3> QED BY <3>5
  <2>3. CASE \E p \in Pools : Exists(p) /\ v \in ToSet(pools[p].idle)
    <3>1. PICK p \in Pools : Exists(p) /\ v \in ToSet(pools[p].idle)
      BY <2>3
    <3>2. /\ v \notin taken /\ v \notin ToSet(pending) /\ v # cleaner.vm
          /\ \A q \in Pools \ {p} : Exists(q) => v \notin ToSet(pools[q].idle)
          /\ \A l \in Leases : leases[l].vm # v
      BY <3>1, OwnersApart
    <3>3. L = {} /\ T = {} /\ Q = {} /\ C = {}
      BY <1>3, <3>2
    <3>4. I = {<<"idle", p>>}
      BY <1>1, <3>1, <3>2
    <3>5. Places(v) = {<<"idle", p>>}
      BY <1>2, <3>3, <3>4
    <3> QED BY <3>5
  <2>4. CASE v \in taken
    <3>1. /\ v \notin ToSet(pending) /\ v # cleaner.vm
          /\ \A p \in Pools : Exists(p) => v \notin ToSet(pools[p].idle)
          /\ \A l \in Leases : leases[l].vm # v
      BY <2>4, OwnersApart
    <3>2. L = {} /\ I = {} /\ Q = {} /\ C = {}
      BY <1>3, <3>1
    <3>3. T = {<<"taken">>}
      BY <1>1, <2>4
    <3>4. Places(v) = {<<"taken">>}
      BY <1>2, <3>2, <3>3
    <3> QED BY <3>4
  <2>5. CASE v \in ToSet(pending)
    <3>1. /\ v \notin taken /\ v # cleaner.vm
          /\ \A p \in Pools : Exists(p) => v \notin ToSet(pools[p].idle)
          /\ \A l \in Leases : leases[l].vm # v
      BY <2>5, OwnersApart
    <3>2. L = {} /\ I = {} /\ T = {} /\ C = {}
      BY <1>3, <3>1
    <3>3. PICK i \in DOMAIN pending : pending[i] = v
      BY <2>5 DEF ToSet
    <3>4. \A j \in DOMAIN pending : pending[j] = v => j = i
      BY <3>3 DEF PoolInv, OwnedOnce, Injective
    <3>5. Q = {<<"pending", i>>}
      BY <1>1, <3>3, <3>4
    <3>6. Places(v) = {<<"pending", i>>}
      BY <1>2, <3>2, <3>5
    <3> QED BY <3>6
  <2>6. CASE cleaner.pc \in {"closing", "destroyed"} /\ cleaner.vm = v
    <3>1. v \notin taken /\ v \notin ToSet(pending)
      BY <2>6, OwnersApart
    <3>2. \A p \in Pools : Exists(p) => v \notin ToSet(pools[p].idle)
      BY <2>6, OwnersApart
    <3>3. \A l \in Leases : leases[l].vm # v
      BY <1>4, <2>6, OwnersApart
    <3>4. L = {} /\ I = {} /\ T = {} /\ Q = {}
      BY <1>3, <3>1, <3>2, <3>3
    <3>5. C = {<<"cleaner">>}
      BY <1>1, <2>6
    <3>6. Places(v) = {<<"cleaner">>}
      BY <1>2, <3>4, <3>5
    <3> QED BY <3>6
  <2> QED BY <2>1, <2>2, <2>3, <2>4, <2>5, <2>6 DEF Placed
<1>7. ASSUME Charged(v) PROVE Cardinality(Places(v)) = 1
  BY <1>6, <1>7, FS_Singleton
<1>8. ASSUME ~Charged(v) PROVE Cardinality(Places(v)) = 0
  BY <1>5, <1>8, FS_EmptySet, Zenon
<1> QED BY <1>7, <1>8

LEMMA TokensHold ==
  ASSUME PoolInv
  PROVE  TokensOwned
BY OnePlace, PoolAssumption DEF PoolInv, Charged, Owners, FreeVm, CleanerVm, LeaseVm, IdleVm, TakenVm, QueuedVm,
   Placed, TokensOwned

LEMMA RegistrationsHold ==
  ASSUME PoolInv
  PROVE  RegistrationOutlives
BY DEF PoolInv, Registrations, PoolShape, RegistrationOutlives, Resident, Charged

\* Whatever the pools, floors, revisions and failing cleanups: the commitment stays within
\* the parent, every token and every VM has one owner until it is released, and a
\* registration outlives what is charged to it and never takes a later one with it.
THEOREM BudgetsAlwaysOwned == Spec => []BudgetsOwned
<1>1. Init => PoolInv
  BY PoolInitially
<1>2. PoolInv /\ [Next]_vars => PoolInv'
  BY PoolInductive
<1>3. PoolInv => BudgetsOwned
  BY CommitmentHolds, TokensHold, RegistrationsHold DEF BudgetsOwned
<1> QED BY <1>1, <1>2, <1>3, PTL DEF Spec

-----------------------------------------------------------------------------
(* Closing *)

\* Tokens are only made by prepare_with_budget.
NoNewTokens == \A u \in Vms : Charged(u)' => Charged(u)

LEMMA LeaseTokens ==
  ASSUME PoolInv, NEW l \in Leases, LeaseStep(l), ~\E p \in Pools : prepare_with_budget(l, p)
  PROVE  NoNewTokens
<1>1. PICK v : v = leases[l].vm
  OBVIOUS
<1>2. alloc \in [Vms -> Allocation \cup {NoAllocation}] /\ LeaseVm(l)
  BY LeaseKnown
<1>3. v # NoVm => Charged(v)
  BY <1>1, <1>2 DEF LeaseVm
<1>4. \/ alloc' = alloc \/ alloc' = Freed(v) \/ alloc' = Retired(alloc, v)
      \/ \E phase : alloc' = InPhase(v, phase)
  BY <1>1, LeaseKnown DEF initialize, begin_initialization, Permit, finish_allocation, finish_initialization, Lease,
     invoke, finish_invoke, finalize, finish_finalize, close_lease, drop_lease, LeaseStep
<1>5. \A u \in Vms \ {v} : alloc'[u] = alloc[u]
  BY <1>2, <1>4 DEF Freed, Retired, InPhase
<1> QED BY <1>3, <1>5, PoolAssumption DEF NoNewTokens, Charged

LEMMA OtherTokens ==
  ASSUME PoolInv,
         \/ \E p \in Pools : PoolStep(p)
         \/ \E v \in Vms : enqueue_taken(v)
         \/ \E c \in Capacities : ChangeCapacity(c)
         \/ CleanerStep \/ request_close \/ poll_usage \/ try_shutdown
         \/ UNCHANGED vars
  PROVE  NoNewTokens
BY TypesKnown DEF NoNewTokens, Charged, enqueue_taken, PoolInv, Owners, TakenVm, Retired, release_token, Freed,
   drop_pool, IdleVm, create_pool, close, request_retirement, retire_expired, close_next, governorVars,
   ChangeCapacity, register_capacity, revise_capacity, unregister_capacity, take_retired, fail_cleanup, destroy_vm,
   publish_completed, exit_cleaner, request_close, poll_usage, try_shutdown, vars, PoolStep, CleanerStep

\* Pools that admit leases are only made by create_pool.
NoNewAdmission == \A q \in Pools : Admitting(q)' => Admitting(q)

LEMMA ReleaseAdmits ==
  ASSUME PoolInv, NEW p \in Pools, Exists(p), NEW pool \in Pool, NEW retiring, NEW al,
         pool.held => pools[p].held, pools[p].closed => pool.closed,
         release_if_drained(p, pool, retiring, al)
  PROVE  NoNewAdmission
BY TypesKnown DEF release_if_drained, Pool, Typed, Admitting, Exists, NoNewAdmission

LEMMA PoolAdmits ==
  ASSUME PoolInv, NEW p \in Pools, PoolStep(p), ~create_pool(p)
  PROVE  NoNewAdmission
<1>1. Typed /\ (Exists(p) => pools[p] \in Pool) /\ pools \in [Pools -> Pool \cup {NoPool}]
  BY TypesKnown DEF Typed
<1>2. CASE request_retirement(p)
  BY <1>1, <1>2, ReleaseAdmits DEF request_retirement, Pool
<1>3. CASE drop_pool(p)
  <2>1. PICK empty, pool : empty = <<>> /\ pool = [pools[p] EXCEPT !.held = FALSE, !.idle = empty]
    OBVIOUS
  <2>2. PICK al : al = [v \in Vms |-> IF v \in ToSet(pools[p].idle) THEN Retired(alloc, v)[v] ELSE alloc[v]]
    OBVIOUS
  <2>3. Exists(p)
    BY <1>3 DEF drop_pool
  <2>4. release_if_drained(p, pool, TRUE, al)
    BY <1>3, <2>1, <2>2, Zenon DEF drop_pool
  <2>5. empty \in Seq(Vms)
    BY <2>1
  <2>6. pool \in Pool
    BY <1>1, <2>1, <2>3, <2>5 DEF Pool
  <2>7. ~pool.held /\ pool.closed = pools[p].closed
    BY <1>1, <2>1, <2>3 DEF Pool
  <2> QED BY <2>3, <2>4, <2>6, <2>7, ReleaseAdmits
<1>4. CASE close(p) \/ close_next(p)
  BY <1>1, <1>4 DEF close, close_next, StopAdmission, PoolInv, Registrations, Pool, NoNewAdmission, Admitting, Exists
<1>5. CASE retire_expired(p)
  BY <1>1, <1>5 DEF retire_expired, Pool, NoNewAdmission, Admitting, Exists
<1> QED BY <1>2, <1>3, <1>4, <1>5 DEF PoolStep

LEMMA LeaseAdmits ==
  ASSUME PoolInv, NEW l \in Leases, LeaseStep(l)
  PROVE  NoNewAdmission
<1>1. pools \in [Pools -> Pool \cup {NoPool}]
  BY TypesKnown DEF Typed
<1>2. CASE pools' = pools
  BY <1>2 DEF NoNewAdmission, Admitting, Exists
<1>3. CASE \E p \in Pools : prepare_with_budget(l, p)
  BY <1>1, <1>2, <1>3 DEF prepare_with_budget, Exists, Pool, NoNewAdmission, Admitting
<1>4. CASE drop_lease(l)
  <2>1. PICK v, p, x : v = leases[l].vm /\ p = leases[l].pool /\ x = pools[p]
    OBVIOUS
  <2>2. leases[l].pc = "open"
    BY <1>4 DEF drop_lease
  <2>3. p \in Pools /\ x \in Pool /\ Exists(p) /\ v \in Vms \cup {NoVm}
    BY <2>1, <2>2, LeaseKnown
  <2>4. PICK pool, al :
          /\ pool = x \/ (v # NoVm /\ pool = [x EXCEPT !.idle = Append(@, v)])
          /\ release_if_drained(p, pool, pool.retiring, al)
    BY <1>4, <2>1 DEF drop_lease, Alive
  <2>5. pool \in Pool
    <3>1. v # NoVm => Append(x.idle, v) \in Seq(Vms)
      BY <2>1, <2>3, TypesKnown, AppendOwns
    <3> QED BY <2>3, <2>4, <3>1 DEF Pool
  <2>6. pool.held = x.held /\ pool.closed = x.closed
    BY <2>3, <2>4 DEF Pool
  <2> QED BY <2>1, <2>3, <2>4, <2>5, <2>6, ReleaseAdmits
<1>5. CASE close_lease(l)
  BY <1>2, <1>5 DEF close_lease
<1>6. CASE LeaseUnchanged
  BY <1>2, <1>6 DEF LeaseUnchanged
<1> QED BY <1>3, <1>4, <1>5, <1>6
    DEF LeaseStep, initialize, finish_allocation, begin_initialization, finish_initialization,
        invoke, finish_invoke, finalize, finish_finalize

LEMMA StepAdmits ==
  ASSUME PoolInv, [Next]_vars, ~\E p \in Pools : create_pool(p)
  PROVE  NoNewAdmission
BY LeaseAdmits, PoolAdmits, CleanerKnown, TypesKnown, ReleaseAdmits DEF NoNewAdmission, Admitting, Exists,
   release_token, CleanerVm, Registrations, enqueue_taken, ChangeCapacity, ManagerUnchanged, take_retired,
   fail_cleanup, destroy_vm, publish_completed, exit_cleaner, request_close, poll_usage, try_shutdown, vars, Next,
   CleanerStep

\* Steps that take no part in closing the manager.
ManagerStill ==
  /\ closing' = closing /\ toClose' = toClose /\ poll' = poll
  /\ cleaner'.closing = cleaner.closing
  /\ cleaner'.pc = "exited" <=> cleaner.pc = "exited"

LEMMA OthersStill ==
  ASSUME PoolInv, [Next]_vars, ~\E p \in Pools : close_next(p),
         ~request_close, ~poll_usage, ~try_shutdown, ~exit_cleaner
  PROVE  ManagerStill
<1>1. CASE UNCHANGED <<closing, toClose, poll, cleaner>>
  BY <1>1 DEF ManagerStill
<1>2. CASE \E l \in Leases : LeaseStep(l)
  BY <1>1, <1>2
  DEF LeaseStep, prepare_with_budget, initialize, finish_allocation, begin_initialization,
      finish_initialization, invoke, finish_invoke, finalize, finish_finalize, close_lease,
      drop_lease, LeaseUnchanged
<1>3. CASE \E p \in Pools : PoolStep(p)
  BY <1>1, <1>3
  DEF PoolStep, create_pool, close, request_retirement, retire_expired, drop_pool
<1>4. CASE (\E v \in Vms : enqueue_taken(v)) \/ (\E c \in Capacities : ChangeCapacity(c))
  BY <1>1, <1>4 DEF enqueue_taken, ChangeCapacity, ManagerUnchanged
<1>5. CASE UNCHANGED vars
  BY <1>1, <1>5 DEF vars
<1>6. CASE CleanerStep
  <2>1. UNCHANGED <<closing, toClose, poll>>
    BY <1>6
    DEF CleanerStep, CleanerUnchanged, take_retired, fail_cleanup, destroy_vm, release_token,
        publish_completed
  <2>2. cleaner \in [pc : {"waiting", "closing", "destroyed", "released", "exited"},
                     vm : Vms \cup {NoVm}, closing : BOOLEAN]
    BY CleanerKnown
  <2>3. PICK pc, v : /\ cleaner' = [cleaner EXCEPT !.pc = pc, !.vm = v]
                     /\ pc # "exited" /\ cleaner.pc # "exited"
    <3>2. CASE take_retired \/ fail_cleanup \/ publish_completed
      BY <3>2 DEF take_retired, fail_cleanup, publish_completed
    <3>3. CASE destroy_vm
      <4>1. cleaner' = [cleaner EXCEPT !.pc = "destroyed", !.vm = cleaner.vm] /\ cleaner.pc = "closing"
        BY <2>2, <3>3 DEF destroy_vm
      <4> QED BY <4>1
    <3>4. CASE release_token
      <4>1. cleaner' = [cleaner EXCEPT !.pc = "released", !.vm = cleaner.vm] /\ cleaner.pc = "destroyed"
        BY <2>2, <3>4 DEF release_token
      <4> QED BY <4>1
    <3> QED BY <1>6, <3>2, <3>3, <3>4 DEF CleanerStep
  <2>4. cleaner'.pc = pc
    BY <2>2, <2>3
  <2>5. cleaner'.closing = cleaner.closing
    BY <2>2, <2>3
  <2> QED BY <2>1, <2>3, <2>4, <2>5 DEF ManagerStill
<1> QED BY <1>2, <1>3, <1>4, <1>5, <1>6 DEF Next

LEMMA CloseInitially ==
  ASSUME Init
  PROVE  CloseInv
BY PoolInitially DEF Init, ClosingShape, QuietAfterPoll, CloseInv

\* Admission ends before the tokens are counted, so none comes back afterwards.
LEMMA CloseInductive ==
  ASSUME SerialClose = TRUE, CloseInv, [Next]_vars
  PROVE  CloseInv'
<1>1. PoolInv /\ ClosingShape /\ QuietAfterPoll
  BY DEF CloseInv
<1>2. PoolInv'
  BY <1>1, PoolInductive
<1>3. cleaner \in [pc : {"waiting", "closing", "destroyed", "released", "exited"},
                   vm : Vms \cup {NoVm}, closing : BOOLEAN]
  BY <1>1, CleanerKnown
<1>4. poll \in [drained : BOOLEAN, closed : BOOLEAN] /\ Typed
  BY <1>1, TypesKnown DEF Typed
<1>5. CASE request_close
  BY <1>1, <1>2, <1>5 DEF request_close, governorVars, ClosingShape, Admitting, Exists, QuietAfterPoll, CloseInv
<1>6. CASE \E p \in Pools : close_next(p)
  <2>1. PICK p \in Pools : close_next(p)
    BY <1>6
  <2>2. /\ p \in toClose /\ toClose' = toClose \ {p} /\ alloc' = alloc /\ cleaner' = cleaner
        /\ poll' = poll /\ closing' = closing
    BY <2>1 DEF close_next, governorVars
  <2>3. ~Admitting(p)'
    BY <1>1, <1>4, <2>1, <2>2, TypesKnown DEF Registrations, close_next, StopAdmission, Typed, Pool, Admitting
  <2>4. NoNewAdmission
    BY <1>1, <2>1, PoolAdmits DEF PoolStep, create_pool, PoolInv, Registrations, close_next
  <2>5. ClosingShape'
    BY <1>1, <2>2, <2>3, <2>4 DEF ClosingShape, NoNewAdmission
  <2>6. QuietAfterPoll'
    BY <1>1, <2>2 DEF QuietAfterPoll, Charged
  <2> QED BY <1>2, <2>5, <2>6 DEF CloseInv
<1>7. CASE poll_usage
  BY <1>1, <1>2, <1>4, <1>7 DEF poll_usage, CloseFinished, governorVars, ClosingShape, Admitting, Exists,
     QuietAfterPoll, Charged, Resident, CloseInv
<1>8. CASE try_shutdown
  BY <1>1, <1>2, <1>3, <1>8 DEF try_shutdown, governorVars, ClosingShape, Admitting, Exists, QuietAfterPoll, Charged,
     CloseInv
<1>9. CASE exit_cleaner
  BY <1>1, <1>2, <1>3, <1>9 DEF exit_cleaner, CleanerUnchanged, ClosingShape, Admitting, Exists, QuietAfterPoll,
     Charged, CloseInv
<1>10. CASE /\ ~\E p \in Pools : close_next(p)
            /\ ~request_close /\ ~poll_usage /\ ~try_shutdown /\ ~exit_cleaner
  <2>1. ManagerStill
    BY <1>1, <1>10, OthersStill
  <2>2. closing => NoNewAdmission
    BY <1>1, StepAdmits DEF create_pool
  <2>3. ClosingShape'
    BY <1>1, <2>1, <2>2 DEF ClosingShape, ManagerStill, NoNewAdmission
  <2>4. ASSUME poll.drained \/ cleaner.closing PROVE NoNewTokens
    BY <1>1, <2>4, LeaseTokens, OtherTokens DEF prepare_with_budget, Admitting, QuietAfterPoll, ClosingShape, Next
  <2>5. QuietAfterPoll'
    BY <1>1, <2>1, <2>4 DEF QuietAfterPoll, ManagerStill, NoNewTokens
  <2> QED BY <1>2, <2>3, <2>5 DEF CloseInv
<1> QED BY <1>5, <1>6, <1>7, <1>8, <1>9, <1>10

\* What an idle list holds can be used, whoever polls.
LEMMA IdleHolds ==
  ASSUME PoolInv
  PROVE  IdleIsUsable
  BY DEF PoolInv, Owners, IdleVm, IdleIsUsable

LEMMA ClosedHolds ==
  ASSUME CloseInv
  PROVE  ClosedIsDrained
BY OwnersApart, CleanerKnown, PopOwns DEF CloseInv, PoolInv, ClosedIsDrained, ClosingShape, QuietAfterPoll, Owners,
   TakenVm, QueuedVm, Resident, Charged, Owned, ToSet, Admitting

\* A VM offered to the next caller is usable at every moment, also while request_close runs.
THEOREM IdleAlwaysUsable == Spec => []IdleIsUsable
<1>1. Init => PoolInv
  BY PoolInitially
<1>2. PoolInv /\ [Next]_vars => PoolInv'
  BY PoolInductive
<1>3. PoolInv => IdleIsUsable
  BY IdleHolds
<1> QED BY <1>1, <1>2, <1>3, PTL DEF Spec

\* Polled the way scheduler.rs polls it, a manager that reports its shutdown complete has
\* destroyed every VM, queued none and admits none.
THEOREM StatesAlwaysSound ==
  ASSUME SerialClose = TRUE
  PROVE  Spec => []StatesSound
<1>1. Init => CloseInv
  BY CloseInitially
<1>2. CloseInv /\ [Next]_vars => CloseInv'
  BY CloseInductive
<1>3. CloseInv => StatesSound
  BY IdleHolds, ClosedHolds DEF StatesSound, CloseInv
<1> QED BY <1>1, <1>2, <1>3, PTL DEF Spec
=============================================================================
