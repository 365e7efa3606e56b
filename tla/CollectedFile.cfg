SPECIFICATION Spec
CONSTANTS
  r1 = r1
  r2 = r2
  Recordings = {r1, r2}
  Zips <- MCZips
INVARIANTS
  PlaysNotDropped
  RaisesOnlyIfBlocked
  RecordingsKept
CHECK_DEADLOCK FALSE
