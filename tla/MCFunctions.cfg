CONSTANTS
  SheetCap = 2
  WorkbookCap = 3
  TableCap = 2
  QueryCap = 1
  DatabaseCap = 4
  ExcelUniverse <- MCExcelUniverse
  AccessUniverse <- MCAccessUniverse
  Files <- MCFiles
  Key <- MCKey
  Catalogs <- MCCatalogs
  Options <- MCOptions
  Root = "q1"
SPECIFICATION FunctionsSpec
INVARIANTS
  EmissionIsTheCut
  NothingOmittedSilently
  ChainsAreReal
  ClosureIsSound
CHECK_DEADLOCK FALSE
