SPECIFICATION UpdateSpec
CONSTANTS
  Titles = {"a", "b", "c"}
  Languages = {"en", "fr"}
  RecipientIds = {"r1"}
  InitialContents <- MCContents
  Updates <- MCUpdates
  MaxUpdates = 1
INVARIANT RowsConsistent
INVARIANT MessagesAsSent
INVARIANT PlaylistsAsSent
INVARIANT DeploymentsAsSent
INVARIANT RecipientLanguageListed
CHECK_DEADLOCK FALSE
