CONSTANTS
  c1 = c1  c2 = c2  t1 = t1  t2 = t2  m1 = m1  m2 = m2  o1 = o1  r1 = r1  r2 = r2
  Null = Null  Keep = Keep
  Classes = {c1}
  Teams = {t1}
  Starts = {m1, m2, m3}
  Offices = {}
  Rooms = {}
  Sessions = {s1, s2, s3}
  Requests = {r1, r2}
  ClassOf <- OneClass
  WeekOf <- OneWeek
  OfficeOf <- OneOffice
  Overlaps <- Disjoint
  Handlers <- LeadersOnly
  Bodies <- MoveBodies
SPECIFICATION Spec
SYMMETRY Symmetry
INVARIANT WeeklyCap
