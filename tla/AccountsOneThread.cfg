CONSTANTS
  u1 = u1
  a = a
  p = p
  Users = {u1, u2}
  Sessions = {s1, s2}
  Names = {a, b, c, long}
  LongNames = {long}
  Passwords = {p, q}
  Workers = {w1}
  MaxRequests = 5
  DbMayFail = FALSE
  LateRequests = FALSE
  Exclusive = TRUE
  None = None
SPECIFICATION MCSpec
CHECK_DEADLOCK FALSE
INVARIANTS ReportedHolds FoundUnderRow
PROPERTIES OnlyLongNamesKill OwnFieldOnly PeopleSpec
