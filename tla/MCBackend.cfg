SPECIFICATION BackSpec
SYMMETRY SlotSymmetry
CONSTANTS
  k1 = k1
  o1 = o1
  o2 = o2
  Requests = {o1, o2}
  Targets = {"UNDER_REVIEW", "DENIED", "PAID"}
  KeyedPolicies = {k1}
  MaxEvents = 3
  MaxApplyRetries = 1
  MaxClaimEvents = 2
  MaxPublished = 2
  RiskScores = {0, 30, 85}
  DocumentCalls = {o1, o2}
  MaxFiles = 2
  WebRequests = {o1, o2}
  EndorsementIds = {o1, o2}
  Readers = {o1, o2}
  SignIns = {o1, o2}
  MaxFailures = 6
  OutsideSlots = {o1, o2}
  MaxSends = 3
  PoolCalls = {o1, o2}
  MaxPools = 3
  MaxClients = 2
  ReadSlots = {o1, o2}
  MaxWrites = 4
  ReportCalls = {o1, o2}
  CacheTtl = 2
  MaxFlight = 1
INVARIANTS BackTypeOK TransactionsMatch ResolvedIsStored PassedEventsExplained
  PassedMessagesExplained ApprovalToldTwice StoresAgree UnansweredExplained ConflictsExplained
  EffectsExplained OneInstance StaleCopyExplained
PROPERTIES MovesAllowedUnlessRaced LockStands
CHECK_DEADLOCK FALSE
