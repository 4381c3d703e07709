\* A reusable and a session pool under one name, poll_closed concurrent with request_close.
SPECIFICATION Spec
CONSTANTS
  p1 = p1  p2 = p2  a = a  c1 = c1  l1 = l1  l2 = l2  v1 = v1  v2 = v2
  Pools <- MCPools
  Groups <- MCGroups
  Capacities <- MCCapacities
  Vms <- MCVms
  Leases <- MCLeases
  GroupsOf <- MCGroupsOf
  PoliciesOf <- MCPoliciesOf
  PlacementsOf <- MCPlacementsOf
  CapacityLimits <- MCCapacityLimits
  MaxResident = 2
  MaxRunning = 1
  MaxPools = 1
  SerialClose = FALSE
  NoGroup = NoGroup
  NoCapacity = NoCapacity
  NoAllocation = NoAllocation
  NoPool = NoPool
  NoVm = NoVm
INVARIANT NoVmAfterClosed
CHECK_DEADLOCK FALSE
SYMMETRY MCSymmetry
