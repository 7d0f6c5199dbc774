SPECIFICATION FilesSpec
CONSTANTS
  w1 = w1
  w2 = w2
  Writers = {w1, w2}
  Pid <- MCPid
  Importer = w1
  Keys = {"fA", "fB", "fC"}
  Bytes = {"fA", "fB", "fC"}
  Files = {"fA", "fB", "fC", "fQ"}
  Acceptable = {"fA", "fB", "fC"}
  Rows <- MCRows
  RecordPlace <- MCRecordPlace
  OtherPuts <- MCOtherPuts
  Inodes = {i1, i2, i3, i4, i5, i6}
  NoInode = noInode
  NoJob = noJob
  Partial = partial
  NoImport = noImport
  NoEventId = noEventId
  Bound <- MCBound
  Written <- MCWritten
  Worksheets <- MCWorksheets
  PartNames <- MCPartNames
  StringParts <- MCStringParts
  StringTables <- MCStringTables
  Targets <- MCTargets
  SheetNames = {"Data", "Other"}
  RelationIds = {"r1", "r2", "rSharedStrings"}
  Fold <- MCFold
  XmlNames = {"a.xml", "b.xml"}
  Schemas <- MCSchemas
  Prohibited = {"Phone"}
  MaxColumns = 3
  EditLimit = 3
CHECK_DEADLOCK FALSE
INVARIANTS
  EventsHaveTheirFile
  PublishedIsComplete
  MatchedIsAllThereIs
PROPERTIES
  StoresOnce
  ExclusionsStand
