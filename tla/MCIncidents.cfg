SPECIFICATION RecordsSpec
CONSTANTS
  c1 = c1
  c2 = c2
  r1 = r1
  Clients = {c1, c2}
  Readers = {r1}
  Incidents = {1, 2, 3}
  RoleOf <- MCRoleOf
  RegionOf <- MCRegionOf
  RefOf <- MCRefOf
  Filters = {{"active"}}
  PageSize = 1
  MaxVersion = 3
  MaxTime = 3
INVARIANTS
  RecordsTypeOK
  VersionNamesStatus
  WalksAreWhole
  AuditTellsTheStory
PROPERTY
  IncidentFollowsLifecycle
CONSTRAINT
  OneBusy
CHECK_DEADLOCK FALSE
