SPECIFICATION Spec
CONSTANTS
  ann = ann
  ben = ben
  eve = eve
  pc1 = pc1
  pc2 = pc2
  k1 = k1
  k2 = k2
  f2 = f2
  DEMO = DEMO
  NEWP = NEWP
  Null = Null
  Undefined = Undefined
  NoRow = NoRow
  Projects = {DEMO, NEWP}
  Users = {ann, ben, eve}
  Members <- MCMembers
  Provisioned = {DEMO}
  Resettable = {DEMO}
  Names = {ann, ben, eve}
  Computers = {pc1, pc2}
  Keys = {k1, k2, "new"}
  Files = {f2}
  Requests <- MCRequests
  Slots = {s1, s2}
  MaxRequests = 4
  s1 = s1
  s2 = s2
PROPERTY ImplementsCheckoutLock
PROPERTY NoUnprovokedTakeover
PROPERTY NoUnprovokedDiscard
PROPERTY AnsweredIsStored
CHECK_DEADLOCK FALSE
