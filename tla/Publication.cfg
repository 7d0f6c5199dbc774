SPECIFICATION Spec
CONSTANTS
  BaseGraph <- MCBaseGraph
  BaseStore <- MCBaseStore
  GraphEdits <- MCGraphEdits
  StoreChanges <- MCStoreChanges
  GraphEditLimit = 2
  Snapshots <- MCSnapshots
  ReportRecords <- MCReportRecords
  Collections <- MCCollections
  PageLimits = {0, 1, 2}
  MaxPageSize = 2
  MaxExportRecords = 3
  CollectionLimit = 2
  Requests <- MCRequests
  GuardDigits = 1
  MaxDigits = 2
  FractionDigits = 2
  FormRequests <- MCFormRequests
  FormValues <- MCFormValues
  UxRecords <- MCUxRecords
  UxImports <- MCUxImports
  FormLimit = 2
  ApplyLimit = 2
INVARIANTS
  VerifiedIsEvidence
  EverySnapshotReports
  PagedExactly
  ImportedWasExported
  ReconciledWithinTolerance
  InboxIsComplete
CHECK_DEADLOCK FALSE
