---------------------------- MODULE MCModulePool ----------------------------
(* Two pools and two leases on two VMs: a reusable pool with a floor of one,  *)
(* and one that takes its group over, alone or in a capacity that may reserve *)
(* the rest of the parent.                                                    *)
EXTENDS ModulePool

CONSTANTS p1, p2, a, c1, l1, l2, v1, v2

MCPools == {p1, p2}
MCGroups == {a}
MCCapacities == {c1}
MCVms == {v1, v2}
MCLeases == {l1, l2}

Limit(dedicated, min, max) == [dedicated |-> dedicated, min |-> min, max |-> max, running |-> 1]
Policy(reuse, limits, max_uses) == [reuse |-> reuse, limits |-> limits, max_uses |-> max_uses]

MCGroupsOf == [p \in MCPools |-> MCGroups]
MCPoliciesOf ==
  [p \in MCPools |->
     IF p = p1 THEN {Policy("Reusable", Limit(TRUE, 1, 2), 1)}
     ELSE {Policy("Session", Limit(TRUE, 0, 1), 0), Policy("SingleCall", Limit(TRUE, 0, 1), 0)}]
MCPlacementsOf == [p \in MCPools |-> IF p = p1 THEN {NoCapacity} ELSE {c1}]
MCCapacityLimits == {Limit(TRUE, 0, 1), Limit(TRUE, 1, 1)}

\* VMs are interchangeable, and so are leases.
MCSymmetry == Permutations(MCVms) \cup Permutations(MCLeases)
=============================================================================
