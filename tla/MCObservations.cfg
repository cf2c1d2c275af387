SPECIFICATION ObservationsSpec
CONSTANTS
  c1 = c1
  o1 = o1
  north = north
  east = east
  s1 = s1
  s2 = s2
  s3 = s3
  rain = rain
  flood = flood
  verified = verified
  provisional = provisional
  Clients = {c1, o1}
  Regions = {north, east}
  Sensors = {s1, s2, s3}
  Codes <- MCCodes
  RoleOf <- MCRoleOf
  RegionOf <- MCRegionOf
  Numbers = {1}
  Bodies = {rain, flood}
  Qualities = {verified, provisional}
  EarlyBodies = {flood}
  Batches <- MCBatches
  MaxMishaps = 2
INVARIANTS
  ObservationsTypeOK
  AnswersHold
PROPERTY
  BatchesSettle
CHECK_DEADLOCK FALSE
