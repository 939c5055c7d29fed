CONSTANTS
  s1 = s1  s2 = s2  s3 = s3  u1 = u1  u2 = u2
  r1 = r1  r2 = r2  e1 = e1  e2 = e2
  Sessions = {s1, s2, s3}
  Learners = {u1, u2}
  Enrolled <- Rosters
  Start <- Starts
  Times = {1, 2}
  Statuses = {"P", "A"}
  Slots = {r1, r2}
  Exports = {e1, e2}
  MaxEvents = 3
SPECIFICATION Spec
CHECK_DEADLOCK FALSE
INVARIANTS
  ExportedOnce ActiveCovers SubmittedIsKept SheetMatchesSession
PROPERTIES
  QueueDrains
