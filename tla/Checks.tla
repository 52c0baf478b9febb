--------------------------------- MODULE Checks ---------------------------------
(***************************************************************************)
(* The checks of a repository and of the documents they go by, one topic   *)
(* each, in the form of Cases: the topics and their properties are those of*)
(* the modules extended here.                                              *)
(***************************************************************************)
EXTENDS Cases, ImportBoundary, ResourcePolicy, Territory, ClaimCommands,
        CheckVerdict, ManifestSchema, TraceEvidence, AdvancedGovernance,
        CommandLine, GovernanceReports, EvidenceRecords, BundledPlugins,
        PrecisionClaims, ProxyArgs

Topics ==
  {"import", "graph", "access", "evidence", "plugin", "dependency",
   "territory", "init", "starter", "pattern", "tree", "claim",
   "claim command", "write path", "claim expiry", "claim sweep", "check",
   "changed", "document", "trace", "spans", "calls by pattern", "services",
   "commits", "task", "doc", "mutants", "classes", "arguments", "report",
   "initialise", "install", "doctor", "sign", "serve", "gate", "coverage",
   "workflow", "prune", "owners", "records", "verifier", "plugin rules",
   "plugin trend", "plugin entry", "sample", "worklist", "bind",
   "precision claim", "label transfer", "call", "line"}

Init == topic \in Topics /\ Undecided

Next ==
  \/ DecideImport \/ AllocateContext \/ ValidateAccess \/ ReadEvidence
  \/ RunPlugins \/ ValidateDependencies \/ SurveyTerritory
  \/ InferManifest \/ StartFromPreset \/ ComparePatterns \/ ListTree
  \/ GuardWrite \/ CommandClaims \/ JudgeWritePath \/ ComputeExpiry
  \/ SweepChanges \/ ConcludeCheck \/ CheckChange \/ ReadDocument
  \/ RunTrace \/ ConvertSpans \/ MatchCalls \/ ReadServices \/ ReadCommits
  \/ CheckTask \/ StampDoc \/ CheckMutants \/ JudgeClasses
  \/ ReadArguments \/ ReportCheck \/ Initialise \/ Install \/ Doctor
  \/ SignWaiver \/ Serve \/ GateBaselines \/ MeasureCoverage
  \/ CompareWorkflows \/ Prune \/ ResolveOwners \/ WriteEvidence
  \/ RunVerifier \/ JudgeChange \/ FindMomentum \/ JudgeEntry
  \/ DrawSample \/ MakeWorklist \/ BindProtocol \/ JudgeClaim
  \/ MoveLabels \/ DecideCall \/ ReadLine
Spec == Init /\ [][Next]_vars
-----------------------------------------------------------------------------
(* What the run checks: the promises of the topics, one property per       *)
(* component.                                                              *)

(* Cell boundaries: the verdict on an import does not depend on its        *)
(* spelling, a silent one was allowed, and what an agent is told beforehand*)
(* suffices for its work and says of nothing private that it may be used.  *)
BoundariesHold ==
  /\ RouteDoesNotMatter
  /\ QuietMeansAllowed
  /\ AllocationIsEnough
  /\ ContextIsHonest

(* Resources, runtime evidence, plugins and packages: an access has one    *)
(* verdict, evidence counts for the tree it was taken from, a plugin that  *)
(* fails is seen, and a package stays with the cell that may use it.       *)
ResourcesAreGoverned ==
  /\ SameAccessSameVerdict
  /\ EvidenceIsBound
  /\ PluginFailureIsSeen
  /\ ClaimedPackagesStayPut

(* Territory: what the automata say of patterns is what matching the files *)
(* themselves gives, so that a file has one cell, links do not lead out of *)
(* it, the public files are owned, every owned file is listed, and the     *)
(* patterns that draw a warning own nothing.                               *)
TerritoryIsSound ==
  /\ OverlapSeesEveryShare
  /\ CoverageIsContainment
  /\ OwnedFilesAreListed
  /\ OneCellPerFile
  /\ LinksStayInCell
  /\ PublicFilesAreOwned
  /\ WarnedPatternsAreIdle

(* Patterns: an overlap that the automata report is that of some file.     *)
PatternOverlapsAreReal ==
  /\ OverlapsAreReal

(* Claims: two agents never have leave for one file, claims of one file    *)
(* conflict, and the guard of a write and the sweep of a change agree.     *)
ClaimsGuardFiles ==
  /\ SharedFileConflicts
  /\ OneWriterPerFile
  /\ SweepAgreesWithGuard

(* Claim commands: they keep the stored claims and report truly, whichever *)
(* form is used, a write is judged by the file it reaches, claims run out, *)
(* and every changed file is looked at.                                    *)
ClaimCommandsAreTrue ==
  /\ ClaimsAreKept
  /\ ClaimReportsAreTrue
  /\ FormsAgree
  /\ WritesLandWhereJudged
  /\ ClaimsRunOut
  /\ ChangesAreSwept

(* The verdict: what a waiver suppresses is attested, an attested waiver   *)
(* settles exactly what it aims at, and a green check has read every file; *)
(* of a change, the cache of the base hides nothing and the snapshot of the*)
(* change decides, not the work tree.                                      *)
GreenIsEarned ==
  /\ SuppressedIsAttested
  /\ AimedWaiversSettle
  /\ GreenIsEvidenced
  /\ CacheHidesNothing
  /\ SnapshotDecides

(* Evidence: that which a check leaves verifies, and nothing that was cut  *)
(* from it or turned does; and that for a claim of precision is earned:    *)
(* samples are balanced, worklists that were made verify but for four kinds*)
(* that are made in vain, binding changes nothing else of a protocol, a    *)
(* claim that passes counts only findings that two raters labelled blind   *)
(* from sealed worklists, readiness and the claim agree, and labels that   *)
(* move keep their verdicts.                                               *)
RecordsStand ==
  /\ GraphsVerify
  /\ CutsAreSeen
  /\ RecordsCannotBeTurned
  /\ SampleIsBalanced
  /\ MadeWorklistsVerify
  /\ BindingSettles
  /\ PassingClaimsAreEarned
  /\ ReadinessAgreesWithClaim
  /\ TransferKeepsVerdicts

(* Documents: what the validators of the manifest, the baseline and the    *)
(* evidence accept has the declared type at every depth.                   *)
DocumentsAreTyped ==
  /\ AcceptedIsTyped

(* What is made of documents: the references of an accepted manifest       *)
(* resolve and the baseline made of it is accepted when it is read again,  *)
(* and so is the evidence that traces and spans become, which says active  *)
(* only where it is complete.                                              *)
DocumentsAreSound ==
  /\ AcceptedIsWorkable
  /\ TraceIsHonest
  /\ SpansAreHonest
  /\ PatternCallsAreReported

(* The proxy: hidden tools are refused, a dry run foretells enforcement,   *)
(* the latest declaration of a tool counts, nothing is lenient unless told *)
(* so.                                                                     *)
ProxyDecides ==
  /\ HiddenIsDenied
  /\ DryRunForetells
  /\ LatestDeclarationRules
  /\ LenientOnlyByName

(* The tools around the check: the exit code and the reports of a check    *)
(* agree, a waiver that was requested and signed counts, and a verifier    *)
(* reads before it is content; the plugins that come with the program miss *)
(* no change over budget, no cell reached, no new dependency and no        *)
(* undocumented export; an imported manifest stands up to the checks,      *)
(* commits and tasks that pass did what they say, a stamped document is    *)
(* current, surviving mutants never help, and a manifest that is inferred  *)
(* or started from a preset stands up to the check of its tree; the command*)
(* line means the same however it is spelled, overwrites no file, leaves   *)
(* what is not its own in an installed file, and answers every request     *)
(* once; and its reports miss nothing: the gate every widening, coverage   *)
(* every unresolved finding, the workflow diff every control, what is      *)
(* reported dead can go, and whose approval the gate takes is whom GitHub  *)
(* takes for the owner of the baseline.                                    *)
ToolsTellTheTruth ==
  /\ ReportsAgree
  /\ RequestsLeadToWaivers
  /\ VerifierReadsFirst
  /\ BudgetHolds
  /\ RadiusIsClosure
  /\ NewDependenciesAreAsked
  /\ TrendIsFair
  /\ DocsSpeakForTheirExport
  /\ ImportedStands
  /\ CommitsTellTheTruth
  /\ TaskStaysInside
  /\ StampedIsCurrent
  /\ SurvivorsNeverHelp
  /\ ClassOrderDoesNotMatter
  /\ FreshManifestStands
  /\ StarterStands
  /\ SpellingDoesNotMatter
  /\ InitKeepsFiles
  /\ InstallSettles
  /\ DoctorSeesDrift
  /\ ServeAnswersEach
  /\ GateSeesWidening
  /\ CoverageIsHonest
  /\ ControlsAreSeen
  /\ PruneIsSafe
  /\ OwnersAreGitHubs
================================================================================
