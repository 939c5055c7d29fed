CONSTANTS
  r1 = r1  r2 = r2  r3 = r3  c1 = c1  c2 = c2
  Runs = {r1, r2, r3}
  Cohorts = {c1, c2}
  Employees = {e1, e2}
  Meetings = {m1, m2}
  CohortOf <- SecondRun
  OpenRuns = {r1, r2, r3}
  Capacity <- OneSeat
  Operators = {p, q}
  Kinds <- Everything
  LastTime = 2
  Backdate = 0
  Ahead = 1
  MaxRequests = 4
  None = None
SPECIFICATION Spec
SYMMETRY Symmetry
CHECK_DEADLOCK FALSE
INVARIANTS
  OneActiveRun MembershipInUse CapacityApproved
  EvidenceOfHeldSessions TransferChain 
PROPERTY SavedOverSeen
