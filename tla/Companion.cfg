SPECIFICATION Spec
CONSTANTS
  c1 = c1
  c2 = c2
  r1 = r1
  r2 = r2
  r3 = r3
  None = None
  Clients = {c1, c2}
  Tries = 2
  NumFiles = 3
  Plays <- MCPlays
  Recordings = {r1, r2, r3}
  Described = {r1, r3}
  Strangers = {r3}
  Workloads <- MCWorkloads
INVARIANTS
  CacheWhole
  PlaysCountedOnce
  ReportedIsStored
CHECK_DEADLOCK FALSE
