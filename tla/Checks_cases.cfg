SPECIFICATION Spec
CONSTANTS
  ImportCases <- BoundaryImports
  GraphCases <- BoundaryGraphs
  AccessCases <- AccessInputs
  EvidenceCases <- EvidenceInputs
  PluginCases <- PluginInputs
  DependencyCases <- DependencyInputs
  TerritoryCases <- SmallTerritories
  InferCases <- MITrees
  StarterCases <- MIStarters
  PatternCases <- TPairs
  TreeCases <- TTrees
  SamplePaths <- TPaths
  InferRank <- MIRank
  IdRank <- MIIdRank
  IdBase <- MIBase
  IdSuffixed <- MISuffixed
  ClaimCases <- CcClaimings
  ClaimCommandCases <- CcCommands
  WritePathCases <- CcWritePaths
  ExpiryCases <- CcExpiries
  SweepCases <- CcSweeps
  CheckCases <- VerdictChecks
  ChangedCases <- SomeChanges
  CoreRequiredRules <- VerdictCore
  ConcreteRules <- VerdictRules
  SafeIdentities = {"alice", "bob"}
  DocumentCases <- DDocuments
  Traits <- DocTraits
  TraceCases <- TVTraces
  SpanCases <- TVSpanCases
  CallPatternCases <- TVCallPatterns
  ServiceCases <- AGServices
  CommitCases <- AGHistories
  TaskCases <- AGTasks
  DocCases <- AGDocs
  ReportCases <- AGReports
  ClassCases <- AGClasses
  CodeOrder <- AGOrder
  ArgumentCases <- ClLines
  RunCases <- ClChecks
  InitCases <- ClInits
  InstallCases <- ClInstalls
  DoctorCases <- ClDoctors
  SignCases <- ClSigns
  ServeCases <- ClServes
  Numerals <- ClNumerals
  GateCases <- GrGates
  CoverageCases <- GrCoverages
  WorkflowCases <- GrWorkflows
  PruneCases <- GrPrunes
  OwnerCases <- GrOwners
  GateTrees <- GrTrees
  CoverageFindings <- GrFindings
  RecordCases <- ERCases
  VerifyCases <- ERCalls
  ChangeCases <- PrChanges
  TrendCases <- PrTrends
  EntryCases <- PrEntries
  SampleCases <- PcSamples
  WorklistCases <- PcWorklists
  BindCases <- PcBinds
  PrecisionCases <- PcClaims
  TransferCases <- PcTransfers
  SuggestiveNames = {"fp-ann", "fp-cem"}
  NonHumanNames = {"gpt", "agent"}
  CallCases <- PxCalls
  LineCases <- PxLines
  Name <- PxLineNames
  LowerOf <- PxLineLower
  Key <- PxKeys
  DeclarationOf <- PxDeclared
  ConfigOf <- PxConfigs
INVARIANTS BoundariesHold ResourcesAreGoverned TerritoryIsSound
  PatternOverlapsAreReal ClaimsGuardFiles ClaimCommandsAreTrue GreenIsEarned
  RecordsStand DocumentsAreTyped DocumentsAreSound ProxyDecides
  ToolsTellTheTruth
CHECK_DEADLOCK FALSE
