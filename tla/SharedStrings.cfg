\* The changes Files.cfg makes, against what the tests ask of shared strings.
CONSTANTS
  Written <- MCWritten
  Worksheets <- MCWorksheets
  PartNames <- MCPartNames
  StringParts <- MCStringParts
  StringTables <- MCStringTables
  Targets <- MCTargets
  SheetNames = {"Data", "Other"}
  RelationIds = {"r1", "r2", "rSharedStrings"}
  Fold <- MCFold
  XmlNames = {"a.xml", "b.xml"}
  Schemas <- MCSchemas
  Prohibited = {"Phone"}
  MaxColumns = 3
  EditLimit = 3
SPECIFICATION XlsxSpec
INVARIANT EverySharedStringIsUsed
CHECK_DEADLOCK FALSE
