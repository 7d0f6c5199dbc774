SPECIFICATION DeliverySpec
CONSTANTS
  ReportRecords <- MCReportRecords
  Collections <- MCCollections
  PageLimits = {0, 1, 2}
  MaxPageSize = 2
  MaxExportRecords = 3
  CollectionLimit = 2
INVARIANT RoundTrips
CHECK_DEADLOCK FALSE
