SPECIFICATION Spec
CONSTANTS
  c1 = c1
  c2 = c2
  s1 = s1
  s2 = s2
  Clients = {c1, c2}
  Sessions = {s1, s2}
  TTL = 3
  TouchGap = 1
  BatchSize = 1
  MaxTime = 5
INVARIANTS
  TypeOK
  LogoutIsEffective
  NoEntryAfterEnd
  TouchesSpaced
PROPERTY
  RevokedForAReason
SYMMETRY Symmetry
CHECK_DEADLOCK FALSE
