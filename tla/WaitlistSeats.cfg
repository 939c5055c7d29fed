CONSTANTS
  a = a  b = b  c = c  r1 = r1  r2 = r2
  Null = Null  Keep = Keep
  Learners = {a, b, c, d, e}
  Requests = {r1, r2}
  Handlers <- AdminAndQueue
  MaxEntries = 3
  InitCap = 1
  InitRosters <- FullOf1
  Caps = {2}
  Outs <- JustA
  Adds <- Nobody
  InitMembers <- TwoTeams
SPECIFICATION Spec
CHECK_DEADLOCK FALSE
INVARIANTS RosterWithinCap SeatsAreFilled ToldOnceSeated
PROPERTY FirstInFirstOut
