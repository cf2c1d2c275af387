SPECIFICATION Spec
CONSTANTS
  h1 = h1
  e1 = e1
  x1 = x1
  chief = chief
  i1 = i1
  s1 = s1
  p1 = p1
  u1 = u1
  r1 = r1
  d1 = d1
  rescue = rescue
  HazardClients = {h1}
  EvacuationClients = {e1}
  DispatchClients = {x1}
  Users = {chief}
  Incidents = {i1}
  Shelters = {s1}
  Plans = {p1}
  Units = {u1}
  Requests = {r1}
  Deployments = {d1}
  RoleOf <- MCRoleOf
  RegionOf <- MCRegionOf
  RefOf <- MCRefOf
  SkillsOf <- MCSkillsOf
  OperatorOf <- MCOperatorOf
  Capacities = {1}
  Evacuees = {1}
  StepCounts = {2}
  Skills = {rescue}
  Quantities = {1}
  MaxVersion = 4
  MaxLag = 0
PROPERTY
  ServicesInContext
CHECK_DEADLOCK FALSE
