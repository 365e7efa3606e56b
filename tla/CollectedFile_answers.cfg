SPECIFICATION Spec
CONSTANTS
  r1 = r1
  r2 = r2
  Recordings = {r1, r2}
  Zips <- MCZips
INVARIANTS
  AnswersNameMessages
CHECK_DEADLOCK FALSE
