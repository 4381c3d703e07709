---------------------------- MODULE PoolGovernor ----------------------------
(***************************************************************************)
(* The parent budget of embedded VMs (governor.rs, governor/capacity.rs,   *)
(* capacity.rs): execution groups, capacities that several groups share,   *)
(* and one accounted token per VM.  A group or a capacity may reserve a    *)
(* floor (min) that the parent keeps free while it is not used.            *)
(*                                                                         *)
(* Every operation here is one section of the governor's mutex; an action  *)
(* of ModulePool conjoins the fragments its handler calls.  A group is     *)
(* known by its name, an allocation by its VM; sequence overflow and lock  *)
(* poisoning are left out.                                                 *)
(***************************************************************************)
EXTENDS Naturals, FiniteSets, Sums

CONSTANTS
  Groups,         \* execution group names
  Capacities,     \* capacity identities
  Vms,            \* identities of allocations and of the VMs they stand for
  MaxResident,    \* EmbeddedRuntimeConfig::max_resident_vms
  MaxRunning,     \* EmbeddedRuntimeConfig::max_running_calls
  MaxPools,       \* EmbeddedRuntimeConfig::max_registered_pools
  NoGroup, NoCapacity, NoAllocation

ASSUME GovernorAssumption ==
  /\ MaxResident \in Nat \ {0} /\ MaxRunning \in 1 .. MaxResident
  /\ MaxPools \in Nat \ {0}
  /\ IsFiniteSet(Vms) /\ IsFiniteSet(Groups) /\ IsFiniteSet(Capacities)
  /\ NoCapacity \notin Capacities /\ NoGroup \notin Groups

VARIABLES
  groups,      \* GovernorState::groups and memberships: [policy, capacity], or NoGroup
  capacities,  \* GovernorState::capacities: VmCapacityConfig, or NoCapacity
  alloc        \* GovernorState::allocations: [group, phase], or NoAllocation

governorVars == <<groups, capacities, alloc>>

\* The limits of VmCapacityConfig and of PluginPoolConfig::capacity, validated
\* against the parent; a shared kind reserves nothing.
Limits == {c \in [dedicated : BOOLEAN, min : 0 .. MaxResident,
                  max : 1 .. MaxResident, running : 1 .. MaxRunning] :
             /\ c.min <= c.max /\ c.running <= c.max
             /\ c.dedicated \/ c.min = 0}

Group == [policy : Limits, capacity : Capacities \cup {NoCapacity}]

VmAllocationState == {"Creating", "Idle", "Running", "Retiring"}

Allocation == [group : Groups, phase : VmAllocationState]

\* What stands for an absent entry is not an entry.
ASSUME AbsentAssumption ==
  NoGroup \notin Group /\ NoCapacity \notin Limits /\ NoAllocation \notin Allocation

\* group_usage and capacity_usage: the tokens of a group, or of a capacity's members.
GroupVms(al, g) == {v \in Vms : al[v] # NoAllocation /\ al[v].group = g}
Members(c) == {g \in Groups : groups[g] # NoGroup /\ groups[g].capacity = c}
CapacityVms(al, c) == UNION {GroupVms(al, g) : g \in Members(c)}

\* count_allocations: every token, and those of S that are executing.
Resident(al) == {v \in Vms : al[v] # NoAllocation}
RunningOf(al, S) == {v \in S : al[v].phase = "Running"}

Larger(a, b) == IF a >= b THEN a ELSE b

Independent(g) == groups[g] # NoGroup /\ groups[g].capacity = NoCapacity

\* No group and no capacity asks.
Nobody == NoGroup

\* commitment: the parent keeps the larger of use and floor for every independent
\* group and every capacity, and only the use of the one that is asking.
Charge(asks, vms, floor) ==
  IF asks THEN Cardinality(vms) ELSE Larger(Cardinality(vms), floor)

GroupCharges(requester) ==
  [g \in Groups |-> IF Independent(g)
                    THEN Charge(g = requester, GroupVms(alloc, g), groups[g].policy.min)
                    ELSE 0]

CapacityCharges(requester) ==
  LET asking == IF requester = Nobody THEN NoCapacity ELSE groups[requester].capacity
  IN [c \in Capacities |-> IF capacities[c] # NoCapacity
                           THEN Charge(c = asking, CapacityVms(alloc, c), capacities[c].min)
                           ELSE 0]

commitment(requester) == Total(GroupCharges(requester)) + Total(CapacityCharges(requester))

Free == MaxResident - commitment(Nobody)

\* register_group_internal: a member of a capacity reserves nothing of its own and
\* stays within its owner; an independent group's floor must still be free.
GroupAdmitted(g, policy, c) ==
  /\ groups[g] = NoGroup
  /\ Cardinality({h \in Groups : groups[h] # NoGroup}) < MaxPools
  /\ IF c = NoCapacity THEN policy.min <= Free
     ELSE /\ capacities[c] # NoCapacity
          /\ policy.dedicated = capacities[c].dedicated /\ policy.min = 0
          /\ policy.max <= capacities[c].max /\ policy.running <= capacities[c].running

register_group(g, policy, c) ==
  /\ GroupAdmitted(g, policy, c)
  /\ groups' = [groups EXCEPT ![g] = [policy |-> policy, capacity |-> c]]

\* unregister_group refuses (Busy) while the group has a token.
GroupDrained(al, g) == GroupVms(al, g) = {}

register_capacity(c, limits) ==
  /\ capacities[c] = NoCapacity
  /\ Cardinality({d \in Capacities : capacities[d] # NoCapacity}) < MaxPools
  /\ limits.min <= Free
  /\ capacities' = [capacities EXCEPT ![c] = limits]
  /\ UNCHANGED <<groups, alloc>>

\* The revision replaces this capacity's share of the commitment by its new one.
revise_capacity(c, limits) ==
  LET resident == Cardinality(CapacityVms(alloc, c)) IN
  /\ capacities[c] # NoCapacity
  /\ commitment(Nobody) - Larger(resident, capacities[c].min) + Larger(resident, limits.min)
       <= MaxResident
  /\ capacities' = [capacities EXCEPT ![c] = limits]
  /\ UNCHANGED <<groups, alloc>>

\* Mutant: members are not looked for.
UnregisterCapacityWithMembers(c) ==
  /\ capacities[c] # NoCapacity
  /\ capacities' = [capacities EXCEPT ![c] = NoCapacity]
  /\ UNCHANGED <<groups, alloc>>

\* unregister_capacity refuses (Busy) while a group is a member.
unregister_capacity(c) ==
  /\ capacities[c] # NoCapacity /\ Members(c) = {}
  /\ capacities' = [capacities EXCEPT ![c] = NoCapacity]
  /\ UNCHANGED <<groups, alloc>>

\* Mutant: only what is resident counts, not what is reserved.
ReserveIgnoringFloors(g, v) ==
  /\ groups[g] # NoGroup /\ alloc[v] = NoAllocation
  /\ Cardinality(GroupVms(alloc, g)) < groups[g].policy.max
  /\ Cardinality(Resident(alloc)) < MaxResident
  /\ alloc' = [alloc EXCEPT ![v] = [group |-> g, phase |-> "Creating"]]

\* reserve: the group's limit, its capacity's limit, then what the parent has left
\* once the floors of everyone else are set aside.
reserve(g, v) ==
  /\ groups[g] # NoGroup /\ alloc[v] = NoAllocation
  /\ Cardinality(GroupVms(alloc, g)) < groups[g].policy.max
  /\ ~Independent(g) => Cardinality(CapacityVms(alloc, groups[g].capacity))
                          < capacities[groups[g].capacity].max
  /\ commitment(g) < MaxResident
  /\ alloc' = [alloc EXCEPT ![v] = [group |-> g, phase |-> "Creating"]]

\* begin_execution grants a permit within the limits of the group, of the parent and of
\* the capacity; the permit's drop puts the phase back.
Executable(v) ==
  LET g == alloc[v].group
      Below(S, limit) == Cardinality(RunningOf(alloc, S)) < limit
  IN /\ alloc[v].phase \in {"Creating", "Idle"}
     /\ groups[g] # NoGroup
     /\ Below(GroupVms(alloc, g), groups[g].policy.running)
     /\ Below(Resident(alloc), MaxRunning)
     /\ ~Independent(g) => Below(CapacityVms(alloc, groups[g].capacity),
                                 capacities[groups[g].capacity].running)

InPhase(v, phase) == [alloc EXCEPT ![v].phase = phase]

\* VmReservation::drop.
Freed(v) == [alloc EXCEPT ![v] = NoAllocation]

\* mark_retiring refuses a running VM, and its caller goes on regardless.
Retired(al, v) == IF al[v].phase = "Running" THEN al ELSE [al EXCEPT ![v].phase = "Retiring"]

GovernorInit ==
  /\ groups = [g \in Groups |-> NoGroup]
  /\ capacities = [c \in Capacities |-> NoCapacity]
  /\ alloc = [v \in Vms |-> NoAllocation]

\* Typed, and no member outlives its capacity ("capacity remains while members exist").
GovernorTypeOK ==
  /\ groups \in [Groups -> Group \cup {NoGroup}]
  /\ capacities \in [Capacities -> Limits \cup {NoCapacity}]
  /\ alloc \in [Vms -> Allocation \cup {NoAllocation}]
  /\ \A g \in Groups : groups[g] # NoGroup /\ ~Independent(g)
                         => capacities[groups[g].capacity] # NoCapacity
=============================================================================
