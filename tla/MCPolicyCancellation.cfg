SPECIFICATION Spec
CONSTANTS
  NoRow = NoRow
  Keep = Keep
  NoRequest = NoRequest
  Free = Free
  Policies = {p1}
  Workers = {w1}
  Requests = {r1, r2}
  Home <- HomeTogether
  Drafts <- MCDrafts
  Updates <- MCUpdates
  Answers = {"DRAFT"}
  MaxRetries = 1
  MaxIssued = 2
INVARIANT ApprovalHonoured
