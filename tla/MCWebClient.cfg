SPECIFICATION WebSpec
SYMMETRY SlotSymmetry
CONSTANTS
  c1 = c1
  c2 = c2
  d1 = d1
  PolicyCalls = {c1, c2}
  ListAttempts = 2
  Runs = {c1, c2}
  RetryAttempts = 1
  MaxRetryCount = 2
  Checks = {c1, c2}
  MaxEdits = 3
  MaxRetryAttempts = 3
  MaxRefreshes = 2
  ClaimCalls = {c1, c2}
  Files = {c1, c2}
  DeskCalls = {c1, c2, d1}
  MaxNewClaims = 3
  SessionCalls = {c1, c2}
  UwCalls = {c1, c2}
  MaxUwRetries = 1
  MaxVersions = 1
  Attempts = {c1, c2}
  MaxCopies = 2
  QueueRows = {c1, c2}
  MaxSubmits = 3
  MaxDecided = 2
  CardCalls = {c1, c2}
  MaxSubmissions = 2
  DashboardCalls = {c1, c2}
  Tabs = {c1, c2}
  MaxSync = 1
  MaxTransactions = 2
INVARIANTS WebTypeOK SpinnerHasCause OneListRequest RefreshNotLost CreatedWasValidated
  OneWayToRepeat MarksHaveCause ExtraClaimsExplained SyncingHasCause TokensExplained
  UnderwritingExplained CopiesExplained DecisionsExplained
CHECK_DEADLOCK FALSE
