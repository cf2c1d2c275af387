SPECIFICATION Spec
CONSTANTS
  c1 = c1
  c2 = c2
  chief = chief
  crew = crew
  i1 = i1
  u1 = u1
  u2 = u2
  r1 = r1
  r2 = r2
  d1 = d1
  d2 = d2
  d3 = d3
  rescue = rescue
  Clients <- MCClients
  Users = {chief, crew}
  Incidents = {i1}
  Units <- MCUnits
  Requests <- MCRequests
  Deployments <- MCDeployments
  RoleOf <- MCRoleOf
  RegionOf <- MCRegionOf
  SkillsOf <- MCSkillsOf
  OperatorOf <- MCOperatorOf
  Skills = {rescue}
  Quantities = {2}
  MaxLag = 0
SYMMETRY Symmetry
INVARIANTS
  TypeOK
  RequestCountsUnits
  VersionsCountChanges
  UnitsServeOnce
PROPERTIES
  LifecyclesFollowed
  ImplementsPool
CHECK_DEADLOCK FALSE
