SPECIFICATION Spec
CONSTANTS
  t1 = t1
  bad = bad
  none = none
  noEvent = noEvent
  noPlan = noPlan
  noResult = noResult
  p1 = p1
  p2 = p2
  Tenants = {t1}
  SourceIds <- MCSourceIds
  Files <- MCFiles
  Lines <- MCLines
  Contents <- MCBytes
  Diagnostics = {"NORMALIZATION_FAILED", "EVENT_SUPERSESSION_INVALID", "EVENT_REVERSAL_INVALID", "EVENT_REVERSAL_REQUIRED", "EVENT_REVERSAL_EXCEEDS_ORIGINAL", "EVENT_REVERSAL_UNIT_MISMATCH"}
  EventIds <- MCEventIds
  IdempotencyKeys <- MCIdem
  Accounts = {"acc", "acc2"}
  BusinessKeys = {"s", "r", "q", "v", "w", "x"}
  Goods = {"g"}
  NoDiagnostics <- none
  NoId <- none
  NoEvent <- noEvent
  Ingestors = {p1, p2}
  Requests <- MCRequests
  Malformed <- bad
  EventIdPlace <- MCPlace
  NoPlan <- noPlan
  NoResult <- noResult
INVARIANT
  ReplayReturnsPublication
