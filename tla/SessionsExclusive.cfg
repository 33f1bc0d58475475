CONSTANTS
  Sessions = {s1, s2, s3}
  Users = {u1, u2, u3}
  Names = {n1, n2, n3, n4}
  Nobody = Nobody
  NoName = NoName
  Exclusive = TRUE
SPECIFICATION Spec
INVARIANTS RegistryIsExact
CHECK_DEADLOCK FALSE
