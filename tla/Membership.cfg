CONSTANTS
  x1 = x1  x2 = x2  x3 = x3  t1 = t1  t2 = t2  c1 = c1  c2 = c2  o1 = o1  o2 = o2
  none = none  keep = keep
  Learners = {x1, x2}
  Teams = {t1, t2}
  Classes = {c1}
  None = none
  Keep = keep
  Cap = 1
  Operators = {o1, o2}
  Kinds <- Everything
  MaxRequests = 2
SPECIFICATION Spec
SYMMETRY Symmetry
CHECK_DEADLOCK FALSE
INVARIANTS
  OneEnrollmentEach MembersAreEnrolled OneTeamEach
PROPERTY
  TransferArrives
