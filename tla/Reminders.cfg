CONSTANTS
  s1 = s1  s2 = s2  u1 = u1  u2 = u2
  Runs = {old, new}
  Sessions = {s1, s2}
  People = {u1, u2}
  Enrolled <- TwoAndOne
  MaxStamps = 3
  CONCURRENCY = 2
  LateMail = FALSE
  SharedStamp = FALSE
SPECIFICATION Spec
CHECK_DEADLOCK FALSE
INVARIANTS RemindedOnce ClaimIsHonoured
PROPERTY RunEnds
