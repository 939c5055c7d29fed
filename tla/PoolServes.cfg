CONSTANTS
  r1 = r1  r2 = r2  r3 = r3  None = None
  Clients = {c1, c2, c3}
  Requests = {r1, r2, r3, r4}
  Kinds <- FewEditors
SPECIFICATION PoolSpec
INVARIANT HolderCanGoOn
PROPERTY Served
