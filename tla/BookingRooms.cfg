CONSTANTS
  c1 = c1  c2 = c2  t1 = t1  t2 = t2  m1 = m1  m2 = m2  o1 = o1  r1 = r1  r2 = r2
  Null = Null  Keep = Keep
  Classes = {c1, c2}
  Teams = {t1, t2}
  Starts = {m1, m2}
  Offices = {o1}
  Rooms = {k1}
  Sessions = {s1, s2}
  Requests = {r1, r2}
  ClassOf <- OwnClass
  WeekOf <- OneWeek
  OfficeOf <- OneOffice
  Overlaps <- Disjoint
  Handlers <- OneEditor
  Bodies <- OneColumn
SPECIFICATION Spec
SYMMETRY AllAlike
INVARIANT RoomExclusive
PROPERTY RefinesCalendar
