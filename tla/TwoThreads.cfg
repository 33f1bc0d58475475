CONSTANTS
  u1 = u1
  u2 = u2
  s1 = s1
  s2 = s2
  Go = Go
  ops = ops
  long = long
  Users = {u1, u2}
  Sessions = {s1, s2}
  RoomNames = {Go, ops, long}
  LongNames = {long}
  RoomIds = {i1, i2}
  Collate <- MCCollate
  Main = main
  Workers = {main, pool}
  Asks <- ShortTalk
  QueueBound = 1
  Leavers = {s1}
  WritesMayFail = TRUE
  DbMayFail = TRUE
  None = None
SPECIFICATION MCSpec
CHECK_DEADLOCK FALSE
INVARIANTS LookupStillHolds AnsweredOnce
PROPERTIES RegistrySpec
