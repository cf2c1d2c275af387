SPECIFICATION FairSpec
CONSTANTS
  new1 = new1
  new2 = new2
  old = old
  branch = branch
  admin = admin
  chief = chief
  Processes = {new1, new2, old, branch}
  Release <- MCRelease
  BootstrapAdmin <- MCBootstrapAdmin
  Usernames = {admin, chief}
  UserRoles = {"field_operator"}
  MaxMishaps = 2
INVARIANTS
  TypeOK
  SchemaInOrder
  ServesItsSchema
  UsersHaveACommander
PROPERTY
  EveryoneStarts
CHECK_DEADLOCK FALSE
