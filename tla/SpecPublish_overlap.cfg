SPECIFICATION Spec
CONSTANTS
  p1 = p1
  p2 = p2
  p3 = p3
  d1 = d1
  d2 = d2
  Requests = {p1, p2, p3}
  Deployments = {d1, d2}
  Files = 2
  MaxVersion = 1
SYMMETRY Symmetry
INVARIANT LinearHistory
INVARIANT FilesMatchNewestRecord
INVARIANT RecordIsWhatIsPublished
CHECK_DEADLOCK FALSE
