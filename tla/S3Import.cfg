SPECIFICATION FairSpec
CONSTANTS
  f1 = f1
  late = late
  named = named
  unnamed = unnamed
  r1 = r1
  r2 = r2
  NoFile = NoFile
  Files = {f1, late}
  Key <- MCKey
  Untimed = {}
  Broken = {}
  Tables <- MCTables
  Recordings <- MCRecordings
  Named = {named}
  Rejected = {"survey_responses"}
  Runs = {r1, r2}
  Modes <- MCModes
  MaxFaults = 1
  MaxManual = 1
  MaxDrawn = 2
  MaxDays = 1
INVARIANT NothingLost
INVARIANT ArchivedIsImported
PROPERTY RepeatAddsOnlyCopies
PROPERTY EventuallyArchived
CHECK_DEADLOCK FALSE
