SPECIFICATION Spec
CONSTANTS
  c1 = c1
  c2 = c2
  i1 = i1
  p1 = p1
  p2 = p2
  s1 = s1
  Clients <- MCClients
  Incidents <- MCIncidents
  Plans <- MCPlans
  Shelters <- MCShelters
  RoleOf <- MCRoleOf
  RegionOf <- MCRegionOf
  Capacities <- MCCapacities
  Evacuees <- MCEvacuees
  StepCounts <- MCStepCounts
  MaxLag = 1
SYMMETRY Symmetry
INVARIANTS
  TypeOK
  ReservedCountsBeds
  NoOverbooking
  ReservationFollowsPlan
  StepsInOrder
  VersionNamesState
PROPERTIES
  PlanFollowsLifecycle
  ImplementsLedger
CHECK_DEADLOCK FALSE
