SPECIFICATION LogSpec
CONSTANTS
  a = a
  b = b
  p = p
  Contents = {a, b}
  Packages = {p}
  Playlists <- MCPlaylists
  Times = {3, 5}
  Elapsed = {1}
  DayLength = 2
  Plays <- MCPlays
  Log <- MCLog
  Lengths <- MCLengths
  NoTime = NoTime
  NoPackage = NoPackage
  NoContent = NoContent
INVARIANTS
  StopsOnlyAtBadReading
  CountedAsHeard
CHECK_DEADLOCK FALSE
