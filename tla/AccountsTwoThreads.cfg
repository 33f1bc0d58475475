CONSTANTS
  u1 = u1
  a = a
  p = p
  Users = {u1, u2}
  Sessions = {s1, s2}
  Names = {a, b, long}
  LongNames = {long}
  Passwords = {p, q}
  Workers = {w1, w2}
  MaxRequests = 4
  DbMayFail = TRUE
  LateRequests = TRUE
  Exclusive = FALSE
  None = None
SPECIFICATION MCSpec
CHECK_DEADLOCK FALSE
INVARIANTS ReportedHolds
