SPECIFICATION Spec
CONSTANTS
  r1 = r1
  r2 = r2
  r3 = r3
  m1 = m1
  m2 = m2
  q1 = q1
  q2 = q2
  None = None
  Messages = {m1, m2}
  Questions = {q1, q2}
  Options = {1, 2}
  Submissions <- MCSubmissions
  Requests = {r1, r2, r3}
SYMMETRY Symmetry
INVARIANT OneAnswerEach
INVARIANT DoneIsNotHandedOut
INVARIANT ChoicesStored
PROPERTY DeletedStaysDeleted
CHECK_DEADLOCK FALSE
