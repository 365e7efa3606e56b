SPECIFICATION Spec
CONSTANTS
  ann = ann
  ben = ben
  s1 = s1
  s2 = s2
  s3 = s3
  NoItem = NoItem
  Null = Null
  Users = {ann, ben}
  Slots = {s1, s2, s3}
  Owner <- OwnSlots
  Sizes <- MCSizes
  MaxValue = 7
  InitialItems <- MCItems
  InitialMaxes <- MCMaxes
  MaxRequests = 4
  MaxCrashes = 1
INVARIANT BlocksOfUserDisjoint
INVARIANT CounterCoversBlocks
INVARIANT SharedIdOnlyIfTorn
CHECK_DEADLOCK FALSE
