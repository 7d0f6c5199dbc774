SPECIFICATION Spec
CONSTANTS
  Invites = {"v1", "v2"}
  Accounts = {"a1", "a2"}
  Times = {0, 1}
  InviteTimes = {0, 1}
  Threads = {t1, t2}
  NoCall = noCall
  Unused = unused
  Declarations <- MCDeclarations
  Files = {"plain", "packed", "other"}
  Policies = {"old", "new"}
  Inspect <- MCInspect
  InspectionFails = fails
  DatasetEvidence <- MCDatasetEvidence
  StorageEvidence <- MCStorageEvidence
  Direct <- MCDirect
  None = none
  DecisionLimit = 9
CHECK_DEADLOCK FALSE
INVARIANTS
  OneAccountPerInvite
  EachAdmittedOnce
  AdmittedOnEvidence
PROPERTIES
  HistoryStands
