SPECIFICATION Spec
CONSTANTS
  NoRow = NoRow
  Keep = Keep
  NoRequest = NoRequest
  Free = Free
  Policies = {p1}
  Workers = {w1, w2}
  Requests = {r1, r2}
  Home <- HomeApart
  Drafts <- MCDrafts
  Updates <- MCUpdates
  Answers = {"DRAFT", "APPROVED", "DECLINED"}
  MaxRetries = 1
  MaxIssued = 3
INVARIANTS TypeOK LifecycleOrder CancelledAtBirth LinkIsExplained ToldOfBound NoDirtyCopy
PROPERTY LedgerSpec
