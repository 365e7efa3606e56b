SPECIFICATION FairSetupSpec
CONSTANTS
  c1 = c1
  c2 = c2
  p1 = p1
  p2 = p2
  amplio = amplio
  maker = maker
  child = child
  None = None
  Test = Test
  Commands = {c1, c2}
  Programs = {p1, p2}
  Organisations = {amplio, maker, child}
  Known = {amplio}
  Template = {"acm", "spec"}
  Asks <- MCAsks
  MaxFaults = 1
INVARIANTS
  CheckoutIsUsable
  ProgramsStayApart
PROPERTY EventuallyDone
CHECK_DEADLOCK FALSE
