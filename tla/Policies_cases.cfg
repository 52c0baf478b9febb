SPECIFICATION Spec
CONSTANTS
  ExportCases <- Exports
  AliasCases <- Aliases
  SurfaceCases <- Surfaces
  ProgramCases <- LegalPrograms
  GuardCases <- GdFiles
  StringCases <- LegalTextPrograms
  FsCases <- FsPrograms
  ValueLimit = 2
  SqlTexts = {"s"}
  SqlNames = {"query"}
  SqlCases <- SqlTextCases
  FileCases <- CallFiles
  SqlTextOf <- SqlNamed
  PyBatchCases <- PBCases
  PyLoadCases <- PLCases
  PySurfaceCases <- PSCases
  PyRouteCases <- PRCases
  PyModelCases <- PMCases
  PyImportCases <- PICases
  PyBatchSize = 4
  PyRootOrder <- PIRoots
  SignatureCases <- SgCases
  SurfaceOrder <- SgOrder
INVARIANTS ResolutionIsFaithful ScansMissNothing PythonIsRead
CHECK_DEADLOCK FALSE
