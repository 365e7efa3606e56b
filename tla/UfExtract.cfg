SPECIFICATION Spec
CONSTANTS
  r1 = r1
  r2 = r2
  NoRow = NoRow
  Null = Null
  Empty = Empty
  NoFile = NoFile
  Messages = {1, 2, 3}
  Languages = {"en", "fr"}
  Language <- MCLanguage
  Sizes <- MCSizes
  InRange = {1, 2, 3}
  MaxBytes = 3
  Runs = {r1, r2}
  MaxDrawn = 6
  MaxTroubles = 1
  Sidecars <- MCSidecars
  Imported = {3}
SYMMETRY Alike
INVARIANT ZipsKeepLimits
INVARIANT PublishedOnce
INVARIANT WrongNumberOnlyIfEarly
CHECK_DEADLOCK FALSE
INVARIANT ZipHasItsRows
