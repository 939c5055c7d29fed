CONSTANTS
  l1 = l1  l2 = l2  i1 = i1  i2 = i2  a1 = a1  a2 = a2  a3 = a3  o1 = o1  o2 = o2
  here = here  there = there  none = none  boss = boss
  Learners = {l1}
  Items = {i1, i2}
  ShortText = {i1, i2}
  Attempts = {a1, a2, a3}
  Limits = {1, 2}
  Operators = {o1, o2}
  Kinds <- Everything
  MaxRequests = 4
  Policy = {"attempt"}
  Validity = 1
  Window = 1
  Imminent = 0
  DueSoon = {1}
  Every = 1
  Week = 2
  Addresses = {here, none}
  NoAddress = none
  Manager = boss
  MaxCerts = 2
  LastDay = 2
SPECIFICATION Spec
SYMMETRY Symmetry
CHECK_DEADLOCK FALSE
INVARIANTS
  OneActiveCertificate MailedOnce RecertifiedOnce
  AttemptsBounded
