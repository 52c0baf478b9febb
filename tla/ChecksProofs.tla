------------------------------ MODULE ChecksProofs ------------------------------
(***************************************************************************)
(* Proofs about the checks of a repository (Checks). A decision is taken   *)
(* once and kept, so one invariant, Decided, carries all the theorems:     *)
(* what was decided was decided by the operation of its topic on a case of *)
(* that topic. Each property is then a consequence of what the operation   *)
(* computes, for whatever cases the assumptions of the modules admit       *)
(* (WorldsAssumption, PolicyAssumption, DocumentsAssumption,               *)
(* VerdictAssumption, ChangeAssumption, TerritoryAssumption,               *)
(* PatternAssumption, TreeAssumption, ClaimAssumption,                     *)
(* ClaimCommandAssumption, WritePathAssumption, ExpiryAssumption,          *)
(* SweepAssumption, PrecisionAssumption, BindAssumption, LineAssumption,   *)
(* TraceAssumption, RecordsAssumption, SampleAssumption,                   *)
(* WorklistAssumption, TransferAssumption), and is proved in the section   *)
(* of its topic. What the operators of patterns, of the proxy, of          *)
(* documents, of traces and of labels do is said in ChecksLemmas, what     *)
(* those of evidence, samples and worklists do in the sections here.       *)
(***************************************************************************)
EXTENDS Checks, ChecksLemmas

-----------------------------------------------------------------------------
(* Every decision is that of its operation on a case of its topic.         *)

ImportsDecided ==
  Is("import") =>
    /\ input \in ImportCases
    /\ answer = [import |-> ResolveImport(input.world, input.ref),
                 findings |-> ImportFindings(input.world, input.importer, input.ref)]
ContextsDecided ==
  Is("graph") =>
    /\ input \in GraphCases
    /\ answer = [observed |-> ObservedEdges(input.world, input.refs),
                 context |-> ContextCells(input.world, input.refs, input.selected),
                 allowed |-> [cell \in input.selected |-> AllowedImports(input.world, cell)]]
AccessesDecided ==
  Is("access") => /\ input \in AccessCases
                  /\ answer = JudgeAccess(input.world, Sealed(input.world), input.access)
EvidenceDecided ==
  Is("evidence") => /\ input \in EvidenceCases
                    /\ answer = [f \in input.files |-> EvidenceFile(input.world, f)]
PluginsDecided ==
  Is("plugin") =>
    /\ input \in PluginCases
    /\ answer = [kept |-> PluginAccesses(input.world, input.plugin).kept,
                 findings |-> PluginAccesses(input.world, input.plugin).findings \cup PluginRules(input.plugin)]
DependenciesDecided ==
  Is("dependency") => /\ input \in DependencyCases
                      /\ answer = [u \in input.uses |-> JudgeDependency(input, u[1], u[2])]
ChecksDecided ==
  Is("check") =>
    /\ input \in CheckCases
    /\ LET raw == RawFindings(input)
           active == ApplyWaivers(input, ApplySeverities(input, raw))
           gate == GateDecision(EvidenceDefects(input, Observations(input, raw)), active)
       IN answer = [active |-> active, exit |-> CheckExitCode(gate)]
ChangesDecided ==
  Is("changed") => input \in ChangedCases /\ answer = ChangedResult(input)
DocumentsDecided ==
  Is("document") => input \in DocumentCases /\ answer = Validated(input)
TerritoriesDecided ==
  Is("territory") => input \in TerritoryCases /\ answer = Surveyed(input, TerritoryErrors(input))
PatternsDecided ==
  Is("pattern") =>
    /\ input \in PatternCases
    /\ answer = [meet |-> Intersect(input.left, input.right), overlap |-> Overlaps(input.left, input.right),
                 owned |-> OwnedOverlap(input.left, input.right), subset |-> Subset(input.left, input.right)]
TreesDecided ==
  Is("tree") => input \in TreeCases /\ answer = Listed(input.file, input.include \cup input.owned)
ClaimsDecided ==
  Is("claim") =>
    /\ input \in ClaimCases
    /\ answer = [write |-> MayWrite(input.manifest, input.claims, input.agent, input.file),
                 check |-> ClaimCheckOk(input.manifest, input.claims, input.agent, {input.file}, ClaimsPath)]
CommandsDecided ==
  Is("claim command") => input \in ClaimCommandCases /\ answer = ClaimCommandForms(input)
WritePathsDecided ==
  Is("write path") => input \in WritePathCases /\ answer = NormalizeWritePath(input)
ExpiriesDecided ==
  Is("claim expiry") => input \in ExpiryCases /\ answer = ClaimExpiry(input)
SweepsDecided ==
  Is("claim sweep") => input \in SweepCases /\ answer = SweptFiles(input)

ClaimsJudged ==
  Is("precision claim") =>
    /\ input \in PrecisionCases
    /\ answer = [status |-> EvaluateClaim(input), ready |-> LabelsAreReady(input.bundle, input.worklists)]
ProtocolsBound ==
  Is("bind") => input \in BindCases /\ answer = BindWorklists(input.protocol, input.digests)

LinesDecided ==
  Is("line") => input \in LineCases /\ answer = ParseProxyArgs(input.tokens, input.env, input.defaults)
CallsDecided ==
  Is("call") => input \in CallCases /\ answer = Decide(input.options, input.tool, input.args, input.verdict)
RecordsDecided ==
  Is("records") =>
    /\ input \in RecordCases
    /\ LET raw == RawFindings(input)
           active == ApplyWaivers(input, ApplySeverities(input, raw))
           observations == Observations(input, raw)
           defects == EvidenceDefects(input, observations)
           graph == EvidenceGraph(input, observations, active, defects)
       IN answer = [graph |-> graph, defects |-> defects,
                    record |-> SealedRecord(RecordBody(input, active, defects, <<graph>>))]
SamplesDecided == Is("sample") => input \in SampleCases /\ answer = Sample(input)
WorklistsDecided ==
  Is("worklist") =>
    /\ input \in WorklistCases
    /\ LET made == WorklistIsMade(input.options, input.bundle)
           dir == CreateWorklist(input.options, input.bundle, "seal")
       IN answer = [made |-> made,
                    verifies |-> made /\ WorklistVerifies(dir, input.bundle.labels, Context(input.bundle))]
TransfersDecided ==
  Is("label transfer") => input \in TransferCases /\ answer = TransferLabels(input)

ProvedTopics ==
  {"import", "graph", "access", "evidence", "plugin", "dependency", "check", "changed", "document",
   "territory", "pattern", "tree", "claim", "claim command", "write path", "claim expiry", "claim sweep",
   "precision claim", "bind", "line", "call", "trace", "spans", "calls by pattern", "records",
   "sample", "worklist", "label transfer"}

TracesDecided ==
  Is("trace") => input \in TraceCases /\ answer = Trace(input)[Len(input.events)].written
SpansDecided == Is("spans") => input \in SpanCases /\ answer = SpanEvidence(input)
CallsByPatternDecided == Is("calls by pattern") => input \in CallPatternCases /\ answer = PatternAccesses(input)
Decided ==
  /\ ImportsDecided /\ ContextsDecided
  /\ AccessesDecided /\ EvidenceDecided /\ PluginsDecided /\ DependenciesDecided
  /\ ChecksDecided /\ ChangesDecided /\ DocumentsDecided
  /\ TerritoriesDecided /\ PatternsDecided /\ TreesDecided /\ ClaimsDecided
  /\ CommandsDecided /\ WritePathsDecided /\ ExpiriesDecided /\ SweepsDecided
  /\ ClaimsJudged /\ ProtocolsBound /\ LinesDecided /\ CallsDecided
  /\ TracesDecided /\ SpansDecided /\ CallsByPatternDecided /\ RecordsDecided
  /\ SamplesDecided /\ WorklistsDecided /\ TransfersDecided

(* Before a case is taken, nothing is decided.                              *)
LEMMA InitDecided == Init => Decided
BY DEF Init, Undecided, Decided, Is, ImportsDecided, ContextsDecided, AccessesDecided, EvidenceDecided,
   PluginsDecided, DependenciesDecided, ChecksDecided, ChangesDecided, DocumentsDecided,
   TerritoriesDecided, PatternsDecided, TreesDecided, ClaimsDecided, CommandsDecided, WritePathsDecided,
   ExpiriesDecided, SweepsDecided, ClaimsJudged, ProtocolsBound, LinesDecided, CallsDecided,
   TracesDecided, SpansDecided, CallsByPatternDecided, RecordsDecided,
   SamplesDecided, WorklistsDecided, TransfersDecided

(* A step of another topic decides none of these. *)
LEMMA OtherTopics == topic' \notin ProvedTopics => Decided'
BY DEF ProvedTopics, Decided, Is, ImportsDecided, ContextsDecided, AccessesDecided, EvidenceDecided,
   PluginsDecided, DependenciesDecided, ChecksDecided, ChangesDecided, DocumentsDecided,
   TerritoriesDecided, PatternsDecided, TreesDecided, ClaimsDecided, CommandsDecided, WritePathsDecided,
   ExpiriesDecided, SweepsDecided, ClaimsJudged, ProtocolsBound, LinesDecided, CallsDecided,
   TracesDecided, SpansDecided, CallsByPatternDecided, RecordsDecided,
   SamplesDecided, WorklistsDecided, TransfersDecided

(* The operations of the other topics take a case of their own topic.       *)
LEMMA OtherSteps ==
  ASSUME \/ ReadServices \/ ReadCommits \/ CheckTask
         \/ StampDoc \/ CheckMutants \/ JudgeClasses \/ InferManifest \/ StartFromPreset
         \/ ReadArguments
         \/ ReportCheck \/ Initialise \/ Install \/ Doctor \/ SignWaiver \/ Serve
         \/ GateBaselines \/ MeasureCoverage \/ CompareWorkflows \/ Prune \/ ResolveOwners
         \/ RunVerifier \/ JudgeChange \/ FindMomentum \/ JudgeEntry
  PROVE  topic' \notin ProvedTopics
<1>1. CASE ReadServices  BY <1>1 DEF ReadServices, Asked, Take, ProvedTopics
<1>2. CASE ReadCommits  BY <1>2 DEF ReadCommits, Asked, Take, ProvedTopics
<1>3. CASE CheckTask  BY <1>3 DEF CheckTask, Asked, Take, ProvedTopics
<1>4. CASE StampDoc  BY <1>4 DEF StampDoc, Asked, Take, ProvedTopics
<1>5. CASE CheckMutants  BY <1>5 DEF CheckMutants, Asked, Take, ProvedTopics
<1>6. CASE JudgeClasses  BY <1>6 DEF JudgeClasses, Asked, Take, ProvedTopics
<1>7. CASE InferManifest  BY <1>7 DEF InferManifest, Asked, Take, ProvedTopics
<1>8. CASE StartFromPreset  BY <1>8 DEF StartFromPreset, Asked, Take, ProvedTopics
<1>9. CASE ReadArguments  BY <1>9 DEF ReadArguments, Asked, Take, ProvedTopics
<1>10. CASE ReportCheck  BY <1>10 DEF ReportCheck, Asked, Take, ProvedTopics
<1>11. CASE Initialise  BY <1>11 DEF Initialise, Asked, Take, ProvedTopics
<1>12. CASE Install  BY <1>12 DEF Install, Asked, Take, ProvedTopics
<1>13. CASE Doctor  BY <1>13 DEF Doctor, Asked, Take, ProvedTopics
<1>14. CASE SignWaiver  BY <1>14 DEF SignWaiver, Asked, Take, ProvedTopics
<1>15. CASE Serve  BY <1>15 DEF Serve, Asked, Take, ProvedTopics
<1>16. CASE GateBaselines  BY <1>16 DEF GateBaselines, Asked, Take, ProvedTopics
<1>17. CASE MeasureCoverage  BY <1>17 DEF MeasureCoverage, Asked, Take, ProvedTopics
<1>18. CASE CompareWorkflows  BY <1>18 DEF CompareWorkflows, Asked, Take, ProvedTopics
<1>19. CASE Prune  BY <1>19 DEF Prune, Asked, Take, ProvedTopics
<1>20. CASE ResolveOwners  BY <1>20 DEF ResolveOwners, Asked, Take, ProvedTopics
<1>21. CASE RunVerifier  BY <1>21 DEF RunVerifier, Asked, Take, ProvedTopics
<1>22. CASE JudgeChange  BY <1>22 DEF JudgeChange, Asked, Take, ProvedTopics
<1>23. CASE FindMomentum  BY <1>23 DEF FindMomentum, Asked, Take, ProvedTopics
<1>24. CASE JudgeEntry  BY <1>24 DEF JudgeEntry, Asked, Take, ProvedTopics
<1> QED BY <1>1, <1>2, <1>3, <1>4, <1>5, <1>6, <1>7, <1>8, <1>9, <1>10, <1>11, <1>12, <1>13, <1>14, <1>15, <1>16, <1>17, <1>18, <1>19, <1>20, <1>21, <1>22, <1>23, <1>24

(* A step that changes nothing changes no decision. *)
LEMMA StutterDecides == Decided /\ UNCHANGED vars => Decided'
<1> SUFFICES ASSUME Decided, UNCHANGED vars PROVE Decided'
  OBVIOUS
<1> USE DEF Decided, Is, vars
<1>1. ImportsDecided'  BY DEF ImportsDecided
<1>2. ContextsDecided'  BY DEF ContextsDecided
<1>3. AccessesDecided'  BY DEF AccessesDecided
<1>4. EvidenceDecided'  BY DEF EvidenceDecided
<1>5. PluginsDecided'  BY DEF PluginsDecided
<1>6. DependenciesDecided'  BY DEF DependenciesDecided
<1>7. ChecksDecided'  BY DEF ChecksDecided
<1>8. ChangesDecided'  BY DEF ChangesDecided
<1>9. DocumentsDecided'  BY DEF DocumentsDecided
<1>10. TerritoriesDecided'  BY DEF TerritoriesDecided
<1>11. PatternsDecided'  BY DEF PatternsDecided
<1>12. TreesDecided'  BY DEF TreesDecided
<1>13. ClaimsDecided'  BY DEF ClaimsDecided
<1>14. CommandsDecided'  BY DEF CommandsDecided
<1>15. WritePathsDecided'  BY DEF WritePathsDecided
<1>16. ExpiriesDecided'  BY DEF ExpiriesDecided
<1>17. SweepsDecided'  BY DEF SweepsDecided
<1>18. ClaimsJudged'  BY DEF ClaimsJudged
<1>19. ProtocolsBound'  BY DEF ProtocolsBound
<1>20. LinesDecided'  BY DEF LinesDecided
<1>21. CallsDecided'  BY DEF CallsDecided
<1>22. TracesDecided'  BY DEF TracesDecided
<1>23. SpansDecided'  BY DEF SpansDecided
<1>24. CallsByPatternDecided'  BY DEF CallsByPatternDecided
<1>25. RecordsDecided'  BY DEF RecordsDecided
<1>26. SamplesDecided'  BY DEF SamplesDecided
<1>27. WorklistsDecided'  BY DEF WorklistsDecided
<1>28. TransfersDecided'  BY DEF TransfersDecided
<1> QED BY <1>1, <1>2, <1>3, <1>4, <1>5, <1>6, <1>7, <1>8, <1>9, <1>10, <1>11, <1>12, <1>13, <1>14, <1>15, <1>16, <1>17,
           <1>18, <1>19, <1>20, <1>21, <1>22, <1>23, <1>24, <1>25, <1>26, <1>27, <1>28

(* Each operation decides a case of its topic as the operation says, and no *)
(* step changes a decision.                                                 *)
LEMMA NextDecided == Decided /\ [Next]_vars => Decided'
<1> SUFFICES ASSUME Decided, [Next]_vars PROVE Decided'
  OBVIOUS
<1> USE DEF Asked, Take, Is, Decided, ImportsDecided, ContextsDecided, AccessesDecided, EvidenceDecided,
            PluginsDecided, DependenciesDecided, ChecksDecided, ChangesDecided, DocumentsDecided,
            TerritoriesDecided, PatternsDecided, TreesDecided, ClaimsDecided, CommandsDecided,
            WritePathsDecided, ExpiriesDecided, SweepsDecided, ClaimsJudged, ProtocolsBound, LinesDecided, CallsDecided,
   TracesDecided, SpansDecided, CallsByPatternDecided, RecordsDecided,
   SamplesDecided, WorklistsDecided, TransfersDecided
<1>1. CASE DecideImport  BY <1>1 DEF DecideImport
<1>2. CASE AllocateContext  BY <1>2 DEF AllocateContext
<1>3. CASE ValidateAccess  BY <1>3 DEF ValidateAccess
<1>4. CASE ReadEvidence  BY <1>4 DEF ReadEvidence
<1>5. CASE RunPlugins  BY <1>5 DEF RunPlugins
<1>6. CASE ValidateDependencies  BY <1>6 DEF ValidateDependencies
<1>7. CASE ConcludeCheck  BY <1>7 DEF ConcludeCheck
<1>8. CASE CheckChange  BY <1>8 DEF CheckChange
<1>9. CASE ReadDocument  BY <1>9 DEF ReadDocument
<1>10. CASE SurveyTerritory  BY <1>10 DEF SurveyTerritory
<1>11. CASE ComparePatterns  BY <1>11 DEF ComparePatterns
<1>12. CASE ListTree  BY <1>12 DEF ListTree
<1>13. CASE GuardWrite  BY <1>13 DEF GuardWrite
<1>14. CASE CommandClaims  BY <1>14 DEF CommandClaims
<1>15. CASE JudgeWritePath  BY <1>15 DEF JudgeWritePath
<1>16. CASE ComputeExpiry  BY <1>16 DEF ComputeExpiry
<1>17. CASE SweepChanges  BY <1>17 DEF SweepChanges
<1>18. CASE JudgeClaim  BY <1>18 DEF JudgeClaim
<1>19. CASE BindProtocol  BY <1>19 DEF BindProtocol
<1>20. CASE ReadLine  BY <1>20 DEF ReadLine
<1>21. CASE DecideCall  BY <1>21 DEF DecideCall
<1>22. CASE RunTrace  BY <1>22 DEF RunTrace
<1>23. CASE ConvertSpans  BY <1>23 DEF ConvertSpans
<1>24. CASE MatchCalls  BY <1>24 DEF MatchCalls
<1>25. CASE WriteEvidence  BY <1>25 DEF WriteEvidence
<1>26. CASE DrawSample  BY <1>26 DEF DrawSample
<1>27. CASE MakeWorklist  BY <1>27 DEF MakeWorklist
<1>28. CASE MoveLabels  BY <1>28 DEF MoveLabels
<1>29. CASE topic' \notin ProvedTopics  BY <1>29, OtherTopics
<1> QED
  <2> HIDE DEF Asked, Take, Is, Decided
  <2> QED BY <1>1, <1>2, <1>3, <1>4, <1>5, <1>6, <1>7, <1>8, <1>9, <1>10, <1>11, <1>12, <1>13,
             <1>14, <1>15, <1>16, <1>17, <1>18, <1>19, <1>20, <1>21, <1>22, <1>23, <1>24, <1>25, <1>26,
             <1>27, <1>28, <1>29, StutterDecides, OtherSteps DEF Next

(* What was decided was decided by its operation, in every state. The       *)
(* properties are consequences of this one invariant; what they rest on is  *)
(* said by the lemmas of their topic.                                       *)
LEMMA AlwaysDecided == Spec => []Decided
BY InitDecided, NextDecided, PTL DEF Spec
-----------------------------------------------------------------------------
(* Imports *)

(* Whatever the route, an import with a target is outside exactly when the  *)
(* file is, it is not external, and it is in no cell only if the file has   *)
(* no owner; its lane is that of the file in the cell.                      *)
LEMMA TargetsAreFiles ==
  ASSUME NEW w, NEW r, ResolveImport(w, r).target # Nowhere
  PROVE  LET i == ResolveImport(w, r) IN
         /\ i.outside <=> i.target \notin DOMAIN w.owner
         /\ ~i.external
         /\ i.target \in DOMAIN w.owner =>
              /\ i.cell = Nowhere => OwnerOf(w, i.target) = Nowhere
              /\ i.lane = LaneOf(w, i.cell, i.target)
<1> DEFINE i == ResolveImport(w, r)
           Sound(x) == /\ x.outside <=> x.target \notin DOMAIN w.owner
                       /\ ~x.external
                       /\ x.target \in DOMAIN w.owner =>
                            /\ x.cell = Nowhere => OwnerOf(w, x.target) = Nowhere
                            /\ x.lane = LaneOf(w, x.cell, x.target)
<1>2. External.target = Nowhere /\ Unresolved.target = Nowhere
  BY DEF External, Unresolved, Import
<1>4. CASE i = Workspace(w, r)
  <2> DEFINE p == w.packages[r.name]
             e == IF p.root THEN p.exports[r.form] ELSE [state |-> "rootless", target |-> Nowhere]
             x == e.state = "excluded"
  <2>1. \/ i = Repository(w, e.target, p.cell, TRUE, FALSE)
        \/ i = Known(p.cell, TRUE, FALSE)
        \/ i = Known(p.cell, FALSE, x)
        \/ i = Repository(w, w.entry[p.cell], p.cell, TRUE, FALSE)
        \/ i = Repository(w, r.found.subpath, p.cell, FALSE, x)
    BY <1>4, ZenonT(40) DEF Workspace
  <2>2. Known(p.cell, TRUE, FALSE).target = Nowhere /\ Known(p.cell, FALSE, x).target = Nowhere
    BY SMTT(30) DEF Known, Import
  <2>3. /\ Sound(Repository(w, e.target, p.cell, TRUE, FALSE))
        /\ Sound(Repository(w, w.entry[p.cell], p.cell, TRUE, FALSE))
        /\ Sound(Repository(w, r.found.subpath, p.cell, FALSE, x))
    BY DEF Repository, Import
  <2> QED BY <2>1, <2>2, <2>3, ZenonT(40)
<1>5. ASSUME NEW file PROVE Sound(Plain(w, file))
  BY DEF Plain, Repository, Import
<1>6. i = External \/ i = Unresolved \/ i = Workspace(w, r) \/ \E file : i = Plain(w, file)
  BY DEF ResolveImport
<1>7. CASE \E file : i = Plain(w, file)
  <2>1. PICK file : i = Plain(w, file)  BY <1>7
  <2>2. Sound(Plain(w, file))  BY <1>5
  <2> HIDE DEF i
  <2>3. Sound(i)  BY <2>1, <2>2
  <2> QED BY <2>3 DEF i
<1> QED BY <1>2, <1>4, <1>6, <1>7

(* What the verdict on an import depends on. *)
LEMMA PathVerdict ==
  ASSUME NEW w, NEW importer, NEW file, file # Nowhere
  PROVE  ImportFindings(w, importer, RelativeTo(file)) =
           LET i == Plain(w, file) IN
           IF i.outside THEN {"IMPORT_TARGET_OUTSIDE_ROOT"}
           ELSE Only(file \in w.governed /\ i.cell = Nowhere, "UNOWNED_IMPORT_TARGET") \cup
                (IF Crosses(importer, i) THEN Judge(w, importer, i) ELSE {})
<1>1. ResolveImport(w, RelativeTo(file)) = Plain(w, file)
  BY DEF ResolveImport, RelativeTo, Lookups
<1>2. Plain(w, file).target = file
  BY DEF Plain, Repository, Import
<1> QED BY <1>1, <1>2 DEF ImportFindings, Only

(* Whatever the spelling (validateImports, resolveCrossCellImport), the     *)
(* findings of an import differ from those of the plain path of its target  *)
(* at most by the finding that a public or an excluded target is spared.    *)
LEMMA RoutesAgree == ImportsDecided => RouteDoesNotMatter
<1> SUFFICES ASSUME ImportsDecided, Is("import"), answer.import.target # Nowhere,
                    answer.import.cell \in {Nowhere, OwnerOf(input.world, answer.import.target)}
             PROVE  (answer.findings \ ByPath(answer.import.target)) \cup (ByPath(answer.import.target) \ answer.findings)
                      \subseteq Only(answer.import.public \/ answer.import.excluded, "PRIVATE_IMPORT")
  BY DEF RouteDoesNotMatter
<1> DEFINE w == input.world
           r == input.ref
           i == ResolveImport(w, r)
           file == i.target
           j == Plain(w, file)
<1>1. answer.import = i /\ answer.findings = ImportFindings(w, input.importer, r)
  BY DEF ImportsDecided
<1>2. /\ i.outside <=> file \notin DOMAIN w.owner
      /\ ~i.external
      /\ file \in DOMAIN w.owner => /\ i.cell = Nowhere => OwnerOf(w, file) = Nowhere
                                   /\ i.lane = LaneOf(w, i.cell, file)
  BY <1>1, TargetsAreFiles
<1>3. ByPath(file) = IF j.outside THEN {"IMPORT_TARGET_OUTSIDE_ROOT"}
                     ELSE Only(file \in w.governed /\ j.cell = Nowhere, "UNOWNED_IMPORT_TARGET") \cup
                          (IF Crosses(input.importer, j) THEN Judge(w, input.importer, j) ELSE {})
  BY <1>1, PathVerdict DEF ByPath
<1>4. CASE file \notin DOMAIN w.owner
  <2>1. i.outside /\ j.outside
    BY <1>2, <1>4 DEF Plain, Repository, Import
  <2> QED BY <1>1, <1>3, <2>1 DEF ImportFindings
<1>5. CASE file \in DOMAIN w.owner
  <2>1. /\ ~i.outside /\ ~j.outside /\ ~i.external /\ ~j.external
        /\ j.public = FALSE /\ j.excluded = FALSE /\ j.target = file
        /\ j.cell = OwnerOf(w, file) /\ j.lane = LaneOf(w, j.cell, file)
    BY <1>2, <1>5 DEF Plain, Repository, Import
  <2>2. i.cell = j.cell /\ i.lane = j.lane
    BY <1>1, <1>2, <1>5, <2>1
  <2>3. answer.findings = Only(file \in w.governed /\ i.cell = Nowhere, "UNOWNED_IMPORT_TARGET") \cup
                          (IF Crosses(input.importer, i) THEN Judge(w, input.importer, i) ELSE {})
    BY <1>1, <2>1 DEF ImportFindings, Only
  <2>4. Crosses(input.importer, i) = Crosses(input.importer, j)
    BY <2>1, <2>2 DEF Crosses
  <2>5. ~(i.public \/ i.excluded) => TargetsPrivate(w, i) = TargetsPrivate(w, j)
    BY <2>1, <2>2 DEF TargetsPrivate
  <2>6. ~(i.public \/ i.excluded) => Judge(w, input.importer, i) = Judge(w, input.importer, j)
    BY <2>1, <2>2, <2>5 DEF Judge
  <2>7. /\ Judge(w, input.importer, i) \ Judge(w, input.importer, j) \subseteq {"PRIVATE_IMPORT"}
        /\ Judge(w, input.importer, j) \ Judge(w, input.importer, i) \subseteq {"PRIVATE_IMPORT"}
    BY <2>1, <2>2 DEF Judge, Only
  <2> QED BY <1>1, <1>3, <2>1, <2>2, <2>3, <2>4, <2>6, <2>7 DEF Only
<1> QED BY <1>4, <1>5

(* A file that a package makes public is its entry or one that it exports. *)
LEMMA PublicIsExported ==
  ASSUME NEW c \in ImportCases,
         ResolveImport(c.world, c.ref).target # Nowhere, ~ResolveImport(c.world, c.ref).outside,
         ResolveImport(c.world, c.ref).public
  PROVE  LET i == ResolveImport(c.world, c.ref) IN
         \/ i.target = c.world.entry[i.cell]
         \/ \E p \in DOMAIN c.world.packages, f \in {"package", "subpath"} :
              /\ c.world.packages[p].cell = i.cell
              /\ c.world.packages[p].exports[f].state = "exported"
              /\ c.world.packages[p].exports[f].target = i.target
<1> DEFINE w == c.world
           r == c.ref
           i == ResolveImport(w, r)
           p == w.packages[r.name]
           e == IF p.root THEN p.exports[r.form] ELSE [state |-> "rootless", target |-> Nowhere]
           x == e.state = "excluded"
<1>1. /\ External.target = Nowhere /\ Unresolved.target = Nowhere
      /\ Known(p.cell, TRUE, FALSE).target = Nowhere /\ Known(p.cell, FALSE, x).target = Nowhere
  BY DEF External, Unresolved, Known, Import
<1>2. ASSUME NEW file PROVE ~Plain(w, file).public
  BY DEF Plain, Repository, Import
<1>3. i = Workspace(w, r) /\ r.name \in DOMAIN w.packages /\ r.form \notin {"relative", "url"}
  BY <1>1, <1>2, ZenonT(40) DEF ResolveImport
<1>4. p.cell \in DOMAIN w.entry /\ p.cell # Nowhere /\ r.form \in {"package", "subpath"}
  BY <1>3, WorldsAssumption
<1>5. ASSUME NEW file PROVE ~Repository(w, file, p.cell, FALSE, x).public
  BY DEF Repository, Import
<1>6. \/ i = Repository(w, e.target, p.cell, TRUE, FALSE) /\ e.state = "exported" /\ e.target # Nowhere
      \/ i = Repository(w, w.entry[p.cell], p.cell, TRUE, FALSE)
  BY <1>1, <1>3, <1>5, ZenonT(40) DEF Workspace
<1>7. CASE i = Repository(w, w.entry[p.cell], p.cell, TRUE, FALSE)
  <2>1. i.target = w.entry[p.cell] /\ i.cell = p.cell
    <3> DEFINE file == w.entry[p.cell]
    <3>1. i = Repository(w, file, p.cell, TRUE, FALSE) /\ ~i.outside
      BY <1>7
    <3> HIDE DEF e, p, i, w, file
    <3>2. file \in DOMAIN w.owner
      BY <3>1 DEF Repository, Import
    <3>3. i.target = file /\ i.cell = p.cell
      BY <1>4, <3>1, <3>2 DEF Repository, Import
    <3> QED BY <3>3, SMTT(30) DEF file
  <2> QED BY <2>1
<1>8. CASE i = Repository(w, e.target, p.cell, TRUE, FALSE) /\ e.state = "exported" /\ e.target # Nowhere
  <2>1. i.target = e.target /\ i.cell = p.cell
    <3>1. e.target \in DOMAIN w.owner
      <4> HIDE DEF e, p
      <4> QED BY <1>8 DEF Repository, Import
    <3> HIDE DEF e, p
    <3> QED BY <1>4, <1>8, <3>1 DEF Repository, Import
  <2>2. CASE p.root
    BY <1>3, <1>4, <1>8, <2>1, <2>2, ZenonT(40)
  <2>3. CASE ~p.root
    BY <1>8, <2>3, ZenonT(40)
  <2> QED BY <2>2, <2>3
<1> QED BY <1>6, <1>7, <1>8, ZenonT(40)

(* A silent import of a file of another cell was allowed                    *)
(* (addPrivateImportFinding, addUndeclaredConsumerFinding): its owner is a  *)
(* declared producer, and the file is open, exported, or no source and in a *)
(* lane that is consumed.                                                   *)
LEMMA QuietIsAllowed == ImportsDecided => QuietMeansAllowed
<1> DEFINE w == input.world
           i == answer.import
           file == i.target
           owner == OwnerOf(w, file)
           exported == \E p \in DOMAIN w.packages, f \in {"package", "subpath"} :
             w.packages[p].cell = owner /\ w.packages[p].exports[f].state = "exported" /\ w.packages[p].exports[f].target = file
<1> SUFFICES ASSUME ImportsDecided, Is("import"), answer.findings = {}, file \in w.governed,
                    owner # input.importer, i.cell \in {Nowhere, owner}
             PROVE  /\ owner # Nowhere
                    /\ Declares(w, input.importer, owner)
                    /\ \/ file \in {w.entry[owner]} \cup w.open[owner] \/ exported
                       \/ file \notin w.source /\ LaneOf(w, owner, file) \in w.consumes[input.importer][owner]
  BY DEF QuietMeansAllowed
<1>1. /\ input \in ImportCases /\ i = ResolveImport(w, input.ref)
      /\ ImportFindings(w, input.importer, input.ref) = {}
  BY DEF ImportsDecided
<1>2. file # Nowhere
  BY <1>1, WorldsAssumption
<1>3. /\ i.outside <=> file \notin DOMAIN w.owner
      /\ ~i.external
      /\ file \in DOMAIN w.owner => i.lane = LaneOf(w, i.cell, file)
  BY <1>1, <1>2, TargetsAreFiles
<1>4. ~i.outside
  BY <1>1 DEF ImportFindings
<1>5. i.cell = owner /\ owner # Nowhere
  BY <1>1, <1>4 DEF ImportFindings, Only
<1>6. Judge(w, input.importer, i) = {}
  BY <1>1, <1>3, <1>4, <1>5 DEF ImportFindings, Crosses
<1>7. /\ Declares(w, input.importer, owner)
      /\ ~(TargetsPrivate(w, i) /\ (i.lane = Nowhere \/ file \in w.source))
      /\ i.lane \in {Nowhere} \cup w.consumes[input.importer][owner]
  BY <1>5, <1>6 DEF Judge, Only
<1>8. i.public => file = w.entry[owner] \/ exported
  BY <1>1, <1>2, <1>4, <1>5, PublicIsExported
<1>9. i.lane = LaneOf(w, owner, file)
  BY <1>3, <1>4, <1>5
<1> QED BY <1>5, <1>7, <1>8, <1>9, ZenonT(40) DEF TargetsPrivate

(* An import is attributed to a cell of the manifest, or to none. *)
LEMMA CellsAreCells ==
  ASSUME NEW c \in ImportCases \cup GraphCases, NEW r
  PROVE  ResolveImport(c.world, r).cell \in DOMAIN c.world.entry \cup {Nowhere}
<1> DEFINE w == c.world
           p == w.packages[r.name]
           e == IF p.root THEN p.exports[r.form] ELSE [state |-> "rootless", target |-> Nowhere]
           x == e.state = "excluded"
           cells == DOMAIN w.entry \cup {Nowhere}
<1>1. \A file : OwnerOf(w, file) \in cells
  BY WorldsAssumption DEF OwnerOf
<1>2. External.cell = Nowhere /\ Unresolved.cell = Nowhere
  BY DEF External, Unresolved, Import
<1>3. ASSUME NEW file PROVE Plain(w, file).cell \in cells
  BY <1>1 DEF Plain, Repository, Import
<1>4. CASE r.name \in DOMAIN w.packages
  <2>1. p.cell \in cells
    BY <1>4, WorldsAssumption
  <2>2. /\ Repository(w, e.target, p.cell, TRUE, FALSE).cell \in cells
        /\ Repository(w, w.entry[p.cell], p.cell, TRUE, FALSE).cell \in cells
        /\ Repository(w, r.found.subpath, p.cell, FALSE, x).cell \in cells
        /\ Known(p.cell, TRUE, FALSE).cell \in cells /\ Known(p.cell, FALSE, x).cell \in cells
    BY <1>1, <2>1 DEF Repository, Known, Import
  <2>3. Workspace(w, r).cell \in cells
    BY <2>2, ZenonT(40) DEF Workspace
  <2> QED BY <1>2, <1>3, <2>3 DEF ResolveImport
<1>5. CASE r.name \notin DOMAIN w.packages
  BY <1>2, <1>3, <1>5 DEF ResolveImport
<1> QED BY <1>4, <1>5

(* Where no import draws a finding the observed edges are declared, and the *)
(* cells whose imports are offered are all in the context                   *)
(* (allocateContext).                                                       *)
LEMMA AllocationSuffices == ContextsDecided => AllocationIsEnough
<1> DEFINE w == input.world
<1> SUFFICES ASSUME ContextsDecided, Is("graph")
             PROVE  /\ (\A c \in CellsOfWorld(w) : \A r \in input.refs[c] : ImportFindings(w, c, r) = {}) =>
                         answer.observed \subseteq DeclaredEdges(w)
                    /\ \A c \in input.selected : \A a \in answer.allowed[c] : a.cell \in answer.context
  BY DEF AllocationIsEnough
<1>1. /\ input \in GraphCases
      /\ answer.observed = ObservedEdges(w, input.refs)
      /\ answer.context = ContextCells(w, input.refs, input.selected)
      /\ \A c \in input.selected : answer.allowed[c] = AllowedImports(w, c)
  BY DEF ContextsDecided
<1>2. ASSUME \A c \in CellsOfWorld(w) : \A r \in input.refs[c] : ImportFindings(w, c, r) = {},
             NEW e \in answer.observed
      PROVE  e \in DeclaredEdges(w)
  <2>0. PICK c \in CellsOfWorld(w) :
          e \in {<<c, ResolveImport(w, r).cell>> : r \in {s \in input.refs[c] : GoesIntoGraph(w, c, ResolveImport(w, s))}}
    BY <1>1 DEF ObservedEdges
  <2>1. PICK r \in input.refs[c] :
          e = <<c, ResolveImport(w, r).cell>> /\ GoesIntoGraph(w, c, ResolveImport(w, r))
    BY <2>0
  <2> DEFINE i == ResolveImport(w, r)
  <2>2. ~i.outside /\ Crosses(c, i)
    BY <2>1 DEF GoesIntoGraph
  <2>3. Judge(w, c, i) = {}
    BY <1>2, <2>2 DEF ImportFindings
  <2>4. Declares(w, c, i.cell)
    BY <2>3 DEF Judge, Only
  <2>5. i.cell \in CellsOfWorld(w)
    BY <1>1, <2>2, CellsAreCells DEF Crosses, CellsOfWorld
  <2> QED BY <2>1, <2>4, <2>5 DEF DeclaredEdges
<1>3. ASSUME NEW c \in input.selected, NEW a \in answer.allowed[c]
      PROVE  a.cell \in answer.context
  <2>1. PICK d \in CellsOfWorld(w) : a.cell = d /\ Declares(w, c, d)
    BY <1>1 DEF AllowedImports
  <2>2. c \in CellsOfWorld(w)
    BY <1>1, WorldsAssumption DEF CellsOfWorld
  <2>3. <<c, a.cell>> \in DeclaredEdges(w)
    BY <2>1, <2>2 DEF DeclaredEdges
  <2> QED BY <1>1, <2>1, <2>3 DEF ContextCells
<1> QED BY <1>2, <1>3
(* An import that the context offers to an agent draws no finding.          *)
LEMMA ContextHolds == ContextsDecided => ContextIsHonest
<1> DEFINE w == input.world
<1> SUFFICES ASSUME ContextsDecided, Is("graph"), NEW c \in input.selected, NEW a \in answer.allowed[c],
                    OwnerOf(w, a.file) = a.cell, LaneOf(w, a.cell, a.file) \in {Nowhere} \cup a.lanes
             PROVE  ImportFindings(w, c, RelativeTo(a.file)) = {}
  BY DEF ContextIsHonest
<1>1. input \in GraphCases /\ answer.allowed[c] = AllowedImports(w, c)
  BY DEF ContextsDecided
<1>2. PICK d \in CellsOfWorld(w) :
        a = [cell |-> d, file |-> w.entry[d], lanes |-> w.consumes[c][d]] /\ Declares(w, c, d)
  BY <1>1 DEF AllowedImports
<1>3. d # Nowhere /\ Nowhere \notin DOMAIN w.owner
  BY <1>1, WorldsAssumption DEF CellsOfWorld
<1>4. a.file \in DOMAIN w.owner /\ OwnerOf(w, a.file) = d /\ a.file # Nowhere
  BY <1>2, <1>3 DEF OwnerOf
<1> DEFINE j == Plain(w, a.file)
<1>5. /\ ~j.outside /\ ~j.excluded /\ j.target = a.file /\ j.cell = d
      /\ j.lane = LaneOf(w, d, a.file)
  BY <1>4 DEF Plain, Repository, Import
<1>6. Judge(w, c, j) = {}
  BY <1>2, <1>5, ZenonT(40) DEF Judge, Only, TargetsPrivate
<1> QED BY <1>3, <1>4, <1>5, <1>6, PathVerdict DEF Only

(* Cell boundaries hold: the verdict on an import (validateImports) does    *)
(* not depend on the route by which its target was found, an import without *)
(* a finding was allowed, and the context of a cell (context.ts) names the  *)
(* producers that it needs and none that the check would object to.         *)
THEOREM BoundariesAlwaysHold == Spec => []BoundariesHold
<1>1. Decided => BoundariesHold
  BY RoutesAgree, QuietIsAllowed, AllocationSuffices, ContextHolds DEF Decided, BoundariesHold
<1> QED BY <1>1, AlwaysDecided, PTL
-----------------------------------------------------------------------------
(* Resources, plugins and packages *)

(* An access that a plugin or an evidence file tells of is judged as the    *)
(* one the analysis found, and what is recorded in a baseline draws no      *)
(* finding the next time (validateResourceAccesses).                        *)
LEMMA SameVerdict == AccessesDecided => SameAccessSameVerdict
<1> DEFINE w == input.world
           a == input.access
           plugin == [api |-> 1, throws |-> FALSE, emits |-> {[cell |-> ThisCell, access |-> a]}, rules |-> {}]
           errors == {f \in answer.findings : f.severity = "error"}
           next == [w EXCEPT !.contracts = {}, !.recorded = {AccessKey(x) : x \in answer.kept}, !.verified = TRUE]
<1> SUFFICES ASSUME AccessesDecided, Is("access")
             PROVE  /\ w.verified \/ w.recorded = {} => PluginAccesses(w, plugin) = answer
                    /\ ~a.unresolved => EvidenceEntry(w, [cell |-> ThisCell, access |-> a]) = answer
                    /\ errors = {} => \A f \in JudgeAccess(next, Sealed(next), a).findings : f.severity = "warning"
                    /\ AccessKey(a) \notin w.recorded /\ errors # {} /\ a.unresolved => answer.kept = {}
  BY DEF SameAccessSameVerdict
<1>1. answer = JudgeAccess(w, Sealed(w), a) /\ DOMAIN w = {"contracts", "recorded", "verified", "head"}
  BY PolicyAssumption DEF AccessesDecided
<1>2. ASSUME w.verified \/ w.recorded = {} PROVE PluginAccesses(w, plugin) = answer
  <2>1. Sealed(w) = w.recorded
    BY <1>2 DEF Sealed
  <2>2. Supported(plugin) /\ ~plugin.throws
    BY DEF Supported
  <2>3. /\ {x \in plugin.emits : x.cell \in KnownCells} = {[cell |-> ThisCell, access |-> a]}
        /\ plugin.emits = {[cell |-> ThisCell, access |-> a]}
    BY DEF KnownCells
  <2>4. PluginAccesses(w, plugin) = [kept |-> JudgeAccess(w, w.recorded, a).kept,
                                     findings |-> JudgeAccess(w, w.recorded, a).findings]
    <3> DEFINE J == JudgeAccess(w, w.recorded, a)
               e0 == [cell |-> ThisCell, access |-> a]
    <3>1. JudgeEmitted(w, e0) = J
      BY DEF JudgeEmitted, OfCell
    <3>2. UNION {JudgeEmitted(w, e).kept : e \in {e0}} = J.kept
      <4> HIDE DEF J, e0
      <4> QED BY <3>1
    <3>3. e0.cell \in KnownCells
      BY DEF KnownCells
    <3>4. UNION {IF e.cell \in KnownCells THEN JudgeEmitted(w, e).findings ELSE {Invalid("PLUGIN_INVALID")} : e \in {e0}}
            = J.findings
      <4> HIDE DEF J, e0
      <4> QED BY <3>1, <3>3
    <3> QED BY <2>2, <2>3, <3>2, <3>4 DEF PluginAccesses
  <2> QED BY <1>1, <2>1, <2>4 DEF JudgeAccess
<1>3. ASSUME ~a.unresolved PROVE EvidenceEntry(w, [cell |-> ThisCell, access |-> a]) = answer
  BY <1>1, <1>3 DEF EvidenceEntry, JudgeAccess, OfCell, KnownCells
<1>4. ASSUME errors = {}, NEW f \in JudgeAccess(next, Sealed(next), a).findings
      PROVE  f.severity = "warning"
  <2>1. next.contracts = {} /\ Sealed(next) = {AccessKey(x) : x \in answer.kept}
    BY <1>1 DEF Sealed
  <2>2. ~InContract(next, a)
    BY <2>1 DEF InContract
  <2>3. CASE DeclaredAccess(w, Sealed(w), a)
    <3>1. answer.kept = {a}
      BY <1>1, <2>3 DEF JudgeAccess
    <3>2. DeclaredAccess(next, Sealed(next), a)
      BY <2>1, <3>1 DEF DeclaredAccess
    <3> QED BY <1>4, <3>2 DEF JudgeAccess
  <2>4. CASE ~DeclaredAccess(w, Sealed(w), a)
    <3>1. a.unresolved /\ a.kind = "file"
      BY <1>1, <1>4, <2>4 DEF JudgeAccess, Report
    <3>2. f = Report("UNRESOLVED", "warning", a.selector)
      <4> HIDE DEF next
      <4> QED BY <1>4, <3>1 DEF JudgeAccess
    <3> QED BY <3>2 DEF Report
  <2> QED BY <2>3, <2>4
<1>5. ASSUME errors # {}, a.unresolved PROVE answer.kept = {}
  BY <1>1, <1>5 DEF JudgeAccess
<1> QED BY <1>2, <1>3, <1>4, <1>5

(* Of an evidence file, accesses are kept only for the commit it was taken  *)
(* from, and a file of another commit is told of (readResourceEvidence).    *)
LEMMA EvidenceBound == EvidenceDecided => EvidenceIsBound
<1> SUFFICES ASSUME EvidenceDecided, Is("evidence"), NEW f \in input.files
             PROVE  /\ answer[f].kept # {} => f.commit = input.world.head /\ f.commit # "none"
                    /\ f.commit # input.world.head => answer[f].findings # {}
                    /\ answer[f].findings = {} => \A e \in f.entries : e.access \in answer[f].kept
  BY DEF EvidenceIsBound
<1>1. answer[f] = EvidenceFile(input.world, f)
  BY DEF EvidenceDecided
<1>2. CASE ~f.inside \/ ~f.valid \/ ~BoundToHead(input.world, f)
  BY <1>1, <1>2 DEF EvidenceFile
<1>3. CASE ~(~f.inside \/ ~f.valid \/ ~BoundToHead(input.world, f))
  <2>1. /\ answer[f].kept = UNION {EvidenceEntry(input.world, e).kept : e \in f.entries}
        /\ UNION {EvidenceEntry(input.world, e).findings : e \in f.entries} \subseteq answer[f].findings
    BY <1>1, <1>3 DEF EvidenceFile
  <2>2. f.commit = input.world.head /\ f.commit # "none"
    BY <1>3 DEF BoundToHead
  <2>3. ASSUME answer[f].findings = {}, NEW e \in f.entries
        PROVE  e.access \in answer[f].kept
    <3>1. EvidenceEntry(input.world, e).findings = {}
      BY <2>1, <2>3
    <3>2. EvidenceEntry(input.world, e).kept = {e.access}
      BY <3>1 DEF EvidenceEntry
    <3> QED BY <2>1, <3>2
  <2> QED BY <2>2, <2>3
<1> QED BY <1>2, <1>3

(* A plugin that throws, asks for another API or has a rule that throws is  *)
(* reported, and what only the failing rule reported is not passed on       *)
(* (runPluginRules).                                                        *)
LEMMA PluginFailuresSeen == PluginsDecided => PluginFailureIsSeen
<1> DEFINE p == input.plugin
           sound == (UNION {r.reports : r \in {x \in p.rules : ~x.throws}})
                    \cup PluginAccesses(input.world, p).findings \cup {Invalid("PLUGIN_INVALID")}
<1> SUFFICES ASSUME PluginsDecided, Is("plugin")
             PROVE  /\ p.throws \/ p.api # 1 \/ (\E r \in p.rules : r.throws) =>
                         Invalid("PLUGIN_INVALID") \in answer.findings
                    /\ \A r \in p.rules : r.throws => answer.findings \cap (r.reports \ sound) = {}
  BY DEF PluginFailureIsSeen
<1>1. answer.findings = PluginAccesses(input.world, p).findings \cup PluginRules(p)
  BY DEF PluginsDecided
<1>2. p.throws \/ p.api # 1 => Invalid("PLUGIN_INVALID") \in PluginAccesses(input.world, p).findings
  BY DEF PluginAccesses, Supported
<1>3. ASSUME NEW r \in p.rules, r.throws PROVE Invalid("PLUGIN_INVALID") \in PluginRules(p)
  BY <1>3 DEF PluginRules
<1>4. PluginRules(p) \subseteq sound
  <2>1. ASSUME NEW r \in p.rules
        PROVE  (IF r.throws THEN {Invalid("PLUGIN_INVALID")} ELSE r.reports) \subseteq sound
    OBVIOUS
  <2> QED BY <2>1 DEF PluginRules
<1>5. answer.findings \subseteq sound
  BY <1>1, <1>4
<1> QED
  <2> HIDE DEF sound
  <2> QED BY <1>1, <1>2, <1>3, <1>5

(* A package that cells claim is used quietly by a claimer only; a baseline *)
(* that accepts all uses leaves only violations of claims                   *)
(* (judgeDependency).                                                       *)
LEMMA ClaimedStayPut == DependenciesDecided => ClaimedPackagesStayPut
<1> SUFFICES ASSUME DependenciesDecided, Is("dependency"), NEW u \in input.uses
             PROVE  /\ answer[u] = "quiet" /\ Claimers(input, u[2]) # {} => u[1] \in Claimers(input, u[2])
                    /\ JudgeDependency(Accepted(input), u[1], u[2]) \in {"quiet", "claim violation"}
                    /\ answer[u] = "quiet" => JudgeDependency(Accepted(input), u[1], u[2]) = "quiet"
  BY DEF ClaimedPackagesStayPut
<1> DEFINE d == input
           n == Accepted(d)
<1>1. /\ answer[u] = JudgeDependency(d, u[1], u[2])
      /\ DOMAIN d = {"claims", "allows", "locked", "baseline", "has", "uses"}
      /\ u[1] \in DOMAIN d.claims /\ \A v \in d.uses : {v[2]} # NotListed
  BY PolicyAssumption DEF DependenciesDecided
<1>2. /\ n.claims = d.claims /\ n.has = TRUE
      /\ n.baseline[u[1]] = {v[2] : v \in {x \in d.uses : x[1] = u[1]}}
  BY <1>1 DEF Accepted
<1>3. Claimers(n, u[2]) = Claimers(d, u[2])
  BY <1>2 DEF Claimers
<1>4. BaselineHas(n, u[1], u[2])
  <2>1. u[2] \in n.baseline[u[1]]
    BY <1>2
  <2>2. n.baseline[u[1]] # NotListed
    BY <1>1, <1>2, <2>1 DEF NotListed
  <2> QED BY <1>2, <2>1, <2>2 DEF BaselineHas
<1> QED BY <1>1, <1>3, <1>4 DEF JudgeDependency

(* Resources are governed: an access has the same verdict however it became *)
(* known (resource-evidence.ts, validateResourceAccesses), evidence of      *)
(* another commit counts for nothing, a plugin that fails is seen           *)
(* (runPluginRules), and a claimed package stays with the cells that claim  *)
(* it (external-dependencies.ts).                                           *)
THEOREM ResourcesAlwaysGoverned == Spec => []ResourcesAreGoverned
<1>1. Decided => ResourcesAreGoverned
  BY SameVerdict, EvidenceBound, PluginFailuresSeen, ClaimedStayPut DEF Decided, ResourcesAreGoverned
<1> QED BY <1>1, AlwaysDecided, PTL
-----------------------------------------------------------------------------
(* Documents *)

(* A text that is not empty is a text (the validators of manifest-schema.ts *)
(* against the types they promise, here and in the lemmas that follow).     *)
LEMMA FilledIsText == \A v : Filled(v) => IsText(v)
BY DEF Filled

(* An array of strings is a list of texts.                                  *)
LEMMA StringsAreTexts == \A v : Strings(v) => Texts(v)
BY DEF Strings, Texts, Each, Filled

(* So are an array of paths, one without repetitions, and one of            *)
(* dependencies.                                                            *)
LEMMA PathsAreTexts == \A v : (Paths(v) => Texts(v)) /\ (Distinct(v) => Texts(v)) /\ (Dependencies(v) => Texts(v))
BY StringsAreTexts DEF Paths, Distinct, Dependencies

(* An enumeration compared with the values themselves. *)
LEMMA WithinIsOneOf ==
  ASSUME NEW texts, NEW v, v \in Within(texts)
  PROVE  OneOf(v, texts)
BY DEF Within, OneOf, IsText

(* A value that equals a text by String(value) is one of the enumeration    *)
(* that has only this text.                                                 *)
LEMMA TextIsOneOf == \A t : OneOf(Text(t), {t})
BY DEF Text, OneOf, IsText

(* A count is a number.                                                     *)
LEMMA CountIsNumber == \A v : Count(v) => IsNumber(v)
BY DEF Count, IsNumber

(* The severities of rules.                                                 *)
LEMMA RulesAreTyped == \A v : ValidRules(v) => RuleSeverityMap(v)
BY WithinIsOneOf DEF ValidRules, RuleSeverityMap, EachKey

(* A lane of artifacts.                                                     *)
LEMMA LaneIsTyped == \A v : ValidLane(v) => ArtifactLane(v)
BY FilledIsText, PathsAreTexts DEF ValidLane, ArtifactLane, Req, Opt

(* A contract on a resource, its modes of access included.                  *)
LEMMA ContractIsTyped ==
  ASSUME NEW v, ValidContract(v) PROVE ResourceContract(v)
<1>1. ASSUME NEW a, Strings(a), Range(a.list) \subseteq Within(ResourceAccessMode)
      PROVE  Each(a, LAMBDA m : OneOf(m, ResourceAccessMode))
  BY <1>1, WithinIsOneOf DEF Strings, Each
<1>2. /\ OnlyKeys(v, {"id", "kind", "access", "selectors", "locked", "description"})
      /\ Given(v, "id") /\ Filled(At(v, "id"))
      /\ Req(v, "kind", LAMBDA k : SpelledIn(k, ResourceContractKind))
      /\ Given(v, "access") /\ Strings(At(v, "access")) /\ Range(At(v, "access").list) \subseteq Within(ResourceAccessMode)
      /\ Given(v, "selectors") /\ Distinct(At(v, "selectors"))
      /\ Opt(v, "description", IsText) /\ Opt(v, "locked", IsFlag)
  BY DEF ValidContract, Req
<1>3. Req(v, "access", LAMBDA l : Each(l, LAMBDA a : OneOf(a, ResourceAccessMode)))
  BY <1>1, <1>2 DEF Req
<1> QED BY <1>2, <1>3, FilledIsText, PathsAreTexts DEF ResourceContract, Req
(* An entry of the resources of a baseline or of an evidence file.          *)
LEMMA EntryIsTyped == \A v, more : ValidEntry(v, more) => ResourceBaselineEntry(v)
BY FilledIsText DEF ValidEntry, ResourceBaselineEntry, Req

(* A class of paths.                                                        *)
LEMMA PathClassIsTyped == \A v : ValidPathClass(v) => PathClass(v)
BY FilledIsText, PathsAreTexts DEF ValidPathClass, PathClass, Req

(* The budgets of a cell.                                                   *)
LEMMA BudgetsAreTyped == \A v : ValidBudgets(v) => Budgets(v)
BY CountIsNumber DEF ValidBudgets, Budgets, OnlyKeys, EachKey, Opt, Given, At

(* A profile of a check.                                                    *)
LEMMA ProfileIsTyped == \A v : ValidProfile(v) => CheckProfile(v)
BY RulesAreTyped, CountIsNumber DEF ValidProfile, CheckProfile, Opt

(* The governance section, with its path classes and its claim backend.     *)
LEMMA GovernanceIsTyped ==
  ASSUME NEW v, ValidGovernance(v) PROVE Governance(v)
<1>1. /\ OnlyKeys(v, {"requireOwnership", "include", "exclude", "requiredRules", "resourceAdapters", "pathClasses",
                      "claimBackend"})
      /\ Opt(v, "requireOwnership", IsFlag)
      /\ \A k \in {"include", "exclude", "requiredRules"} : Opt(v, k, Texts)
  BY PathsAreTexts DEF ValidGovernance, Opt
<1>2. Opt(v, "resourceAdapters", LAMBDA l : EachKey(l, LAMBDA a : OneOf(a, {"on", "off"})))
  <2>1. ASSUME NEW a, OnlyKeys(a, BUILT_IN_RESOURCE_ADAPTERS),
               \A k \in DOMAIN a.object : At(a, k) \in Within({"on", "off"})
        PROVE  EachKey(a, LAMBDA s : OneOf(s, {"on", "off"}))
    BY <2>1, WithinIsOneOf DEF OnlyKeys, EachKey
  <2> QED BY <2>1 DEF ValidGovernance, Opt
<1>3. Opt(v, "pathClasses", LAMBDA l : Each(l, PathClass))
  BY PathClassIsTyped DEF ValidGovernance, Opt, EachWithId, Each
<1>4. Opt(v, "claimBackend", LAMBDA b : OnlyKeys(b, {"type"}) /\ Req(b, "type", LAMBDA t : OneOf(t, {"local-file"})))
  BY TextIsOneOf DEF ValidGovernance, Opt, Req
<1> QED BY <1>1, <1>2, <1>3, <1>4 DEF Governance

(* A consumer that is named with the lanes it may read.                     *)
LEMMA ConsumerIsTyped ==
  \A v : ValidConsumer(v) =>
           OnlyKeys(v, {"cell", "artifactLanes"}) /\ Req(v, "cell", IsText) /\ Opt(v, "artifactLanes", Texts)
BY StringsAreTexts DEF ValidConsumer, CellId, Req, Opt

(* The lists of allowed and claimed dependencies.                           *)
LEMMA DependencyListsAreTyped ==
  \A v : ValidDependencies(v) => OnlyKeys(v, {"allow", "claim"}) /\ EachKey(v, Texts)
BY PathsAreTexts DEF ValidDependencies, OnlyKeys, EachKey, Opt, Given, At

(* A cell, with its lanes, contracts, consumers and budgets.                *)
LEMMA CellIsTyped ==
  ASSUME NEW v, ValidCell(v) PROVE CellManifest(v)
<1>1. /\ OnlyKeys(v, CellKeys)
      /\ \A k \in {"id", "publicEntry"} : Req(v, k, IsText)
      /\ \A k \in {"ownedPaths", "publicSymbols"} : Req(v, k, Texts)
      /\ Opt(v, "publicPaths", Texts)
  BY FilledIsText, PathsAreTexts DEF ValidCell, CellId, Req, Opt
<1>2. /\ \A k \in {"packageName", "waiverParsingReason"} : Opt(v, k, IsText)
      /\ \A k \in {"locked", "waiverParsing"} : Opt(v, k, IsFlag)
      /\ \A k \in {"importAnalysis", "resourceAnalysis"} : Opt(v, k, IsFlag)
  BY DEF ValidCell, Opt, IsFlag
<1>3. /\ Opt(v, "consumes", LAMBDA l : Each(l, LAMBDA c :
           OnlyKeys(c, {"cell", "artifactLanes"}) /\ Req(c, "cell", IsText) /\ Opt(c, "artifactLanes", Texts)))
      /\ Opt(v, "producesArtifacts", LAMBDA l : Each(l, ArtifactLane))
      /\ Opt(v, "resourceContracts", LAMBDA l : Each(l, ResourceContract))
  BY ConsumerIsTyped, LaneIsTyped, ContractIsTyped DEF ValidCell, Opt, EachWithId, Each
<1>4. /\ Opt(v, "externalDependencies", LAMBDA d : OnlyKeys(d, {"allow", "claim"}) /\ EachKey(d, Texts))
      /\ Opt(v, "budgets", Budgets) /\ Opt(v, "rules", RuleSeverityMap)
  BY DependencyListsAreTyped, BudgetsAreTyped, RulesAreTyped DEF ValidCell, Opt
<1> QED BY <1>1, <1>2, <1>3, <1>4 DEF CellManifest

(* A manifest (validateManifestSchema).                                     *)
LEMMA ManifestIsTyped ==
  ASSUME NEW v, ValidManifest(v) PROVE Manifest(v)
<1>1. /\ OnlyKeys(v, {"schemaVersion", "governance", "rules", "overrides", "profiles", "cells"})
      /\ Req(v, "schemaVersion", LAMBDA s : OneOf(s, {"manifest v1"}))
  BY TextIsOneOf DEF ValidManifest, Req
<1>2. Req(v, "cells", LAMBDA l : Each(l, CellManifest))
  BY CellIsTyped DEF ValidManifest, Req, Each
<1>3. Opt(v, "governance", Governance) /\ Opt(v, "rules", RuleSeverityMap)
  BY GovernanceIsTyped, RulesAreTyped DEF ValidManifest, Opt
<1>4. Opt(v, "profiles", LAMBDA p : EachKey(p, CheckProfile))
  BY ProfileIsTyped DEF ValidManifest, Opt, EachKey
<1>5. Opt(v, "overrides", LAMBDA l : Each(l, LAMBDA o :
        OnlyKeys(o, {"files", "rules"}) /\ Req(o, "files", Texts) /\ Req(o, "rules", RuleSeverityMap)))
  <2>1. ASSUME NEW o, ValidOverride(o)
        PROVE  OnlyKeys(o, {"files", "rules"}) /\ Req(o, "files", Texts) /\ Req(o, "rules", RuleSeverityMap)
    BY <2>1, RulesAreTyped, StringsAreTexts DEF ValidOverride, Req
  <2> QED BY <2>1 DEF ValidManifest, Opt, Each
<1> QED BY <1>1, <1>2, <1>3, <1>4, <1>5 DEF Manifest

(* A seal, of either algorithm.                                             *)
LEMMA SealIsTyped ==
  ASSUME NEW v, ValidSeal(v) PROVE BaselineSeal(v)
<1>1. CASE /\ Req(v, "algorithm", LAMBDA a : a = Text("hmac-sha256")) /\ ~Given(v, "signature")
           /\ Req(v, "digest", LAMBDA d : IsText(d) /\ Looks(d, "digest"))
  <2>1. OnlyKeys(v, {"algorithm", "keyId", "payloadVersion", "digest"})
    BY <1>1 DEF ValidSeal, OnlyKeys, Given
  <2>2. SealBy(v, "hmac-sha256", "digest")
    BY <1>1, <2>1, TextIsOneOf DEF ValidSeal, SealBy, Req, Opt
  <2> QED BY <2>2 DEF BaselineSeal
<1>2. CASE /\ Req(v, "algorithm", LAMBDA a : a = Text("ed25519")) /\ ~Given(v, "digest")
           /\ Req(v, "signature", LAMBDA s : IsText(s) /\ Looks(s, "signature"))
  <2>1. OnlyKeys(v, {"algorithm", "keyId", "payloadVersion", "signature"})
    BY <1>2 DEF ValidSeal, OnlyKeys, Given
  <2>2. SealBy(v, "ed25519", "signature")
    BY <1>2, <2>1, TextIsOneOf DEF ValidSeal, SealBy, Req, Opt
  <2> QED BY <2>2 DEF BaselineSeal
<1> QED BY <1>1, <1>2 DEF ValidSeal

(* What a baseline records of a cell.                                       *)
LEMMA RecordIsTyped ==
  ASSUME NEW v, ValidRecord(v) PROVE CellBaselineRecord(v)
<1>1. /\ OnlyKeys(v, BudgetKeys \cup {"ownedPathSet", "publicEntryPath", "publicSymbolSet", "publicSurfaceHash",
           "dependencyEdges", "artifactContracts", "resourceAccesses", "externalDependencySet"})
      /\ \A k \in BudgetKeys : Req(v, k, IsNumber)
      /\ \A k \in {"publicEntryPath", "publicSurfaceHash"} : Opt(v, k, IsText)
  BY CountIsNumber DEF ValidRecord, Req
<1>2. \A k \in {"ownedPathSet", "publicSymbolSet", "dependencyEdges", "artifactContracts", "externalDependencySet"} :
        Opt(v, k, Texts)
  BY StringsAreTexts, PathsAreTexts DEF ValidRecord, Opt
<1>3. Opt(v, "resourceAccesses", LAMBDA l : Each(l, LAMBDA e :
        OnlyKeys(e, {"kind", "access", "selector", "detectedBy", "confidence"}) /\ ResourceBaselineEntry(e)))
  <2>1. ASSUME NEW e, ValidEntry(e, {})
        PROVE  OnlyKeys(e, {"kind", "access", "selector", "detectedBy", "confidence"}) /\ ResourceBaselineEntry(e)
    BY <2>1, EntryIsTyped DEF ValidEntry, OnlyKeys
  <2> QED BY <2>1 DEF ValidRecord, Opt, Each
<1> QED BY <1>1, <1>2, <1>3 DEF CellBaselineRecord

(* A baseline (validateBaselineSchema).                                     *)
LEMMA BaselineIsTyped ==
  ASSUME NEW v, ValidBaseline(v) PROVE Baseline(v)
<1>1. /\ OnlyKeys(v, {"schemaVersion", "generatedAt", "cellIds", "seal", "cells"})
      /\ Req(v, "schemaVersion", LAMBDA s : OneOf(s, {"baseline v1"})) /\ Req(v, "generatedAt", IsText)
  BY TextIsOneOf DEF ValidBaseline, Req
<1>2. Req(v, "cells", LAMBDA c : EachKey(c, CellBaselineRecord))
  BY RecordIsTyped DEF ValidBaseline, Req, EachKey
<1>3. Opt(v, "cellIds", Texts) /\ Opt(v, "seal", BaselineSeal)
  BY PathsAreTexts, SealIsTyped DEF ValidBaseline, Opt
<1> QED BY <1>1, <1>2, <1>3 DEF Baseline

(* A file of evidence (validateResourceEvidence).                           *)
LEMMA EvidenceIsTyped ==
  ASSUME NEW v, ValidEvidence(v) PROVE Evidence(v)
<1>1. /\ OnlyKeys(v, {"schemaVersion", "commitSha", "generatedAt", "cellId", "accesses", "transcriptStatus"})
      /\ Req(v, "schemaVersion", LAMBDA s : OneOf(s, {"evidence v2"})) /\ Req(v, "commitSha", IsText)
  BY TextIsOneOf, FilledIsText DEF ValidEvidence, Req
<1>2. Req(v, "accesses", LAMBDA l : Each(l, LAMBDA e :
        /\ OnlyKeys(e, {"kind", "access", "selector", "detectedBy", "confidence", "cellId", "observedAt"})
        /\ ResourceBaselineEntry(e) /\ Opt(e, "cellId", IsText) /\ Opt(e, "observedAt", IsText)))
  <2>1. ASSUME NEW e, ValidAccess(e)
        PROVE  /\ OnlyKeys(e, {"kind", "access", "selector", "detectedBy", "confidence", "cellId", "observedAt"})
               /\ ResourceBaselineEntry(e) /\ Opt(e, "cellId", IsText) /\ Opt(e, "observedAt", IsText)
    <3>1. ValidEntry(e, {"cellId", "observedAt"})
      BY <2>1 DEF ValidAccess
    <3>2. OnlyKeys(e, {"kind", "access", "selector", "detectedBy", "confidence", "cellId", "observedAt"})
      BY <3>1 DEF ValidEntry, OnlyKeys
    <3> QED BY <2>1, <3>1, <3>2, EntryIsTyped DEF ValidAccess, CellId, DateTime, Opt
  <2> QED BY <2>1 DEF ValidEvidence, Req, Each
<1>3. Opt(v, "generatedAt", IsText) /\ Opt(v, "cellId", IsText)
  BY DEF ValidEvidence, DateTime, CellId, Opt
<1>4. Opt(v, "transcriptStatus", LAMBDA s : OneOf(s, {"active", "inactive", "incomplete"}))
  BY WithinIsOneOf DEF ValidEvidence, Opt
<1> QED BY <1>1, <1>2, <1>3, <1>4 DEF Evidence

(* Whatever the validators accept (schema/src/index.ts) has the declared    *)
(* type at every depth, so that no later step meets a value of another one. *)
THEOREM DocumentsAlwaysTyped == Spec => []DocumentsAreTyped
<1>1. DocumentsDecided => AcceptedIsTyped
  <2> SUFFICES ASSUME DocumentsDecided, Is("document"), answer
               PROVE  CASE input.type = "manifest" -> Manifest(input.value)
                        [] input.type = "baseline" -> Baseline(input.value)
                        [] input.type = "evidence" -> Evidence(input.value)
    BY DEF AcceptedIsTyped
  <2>1. input \in DocumentCases /\ Validated(input)
    BY DEF DocumentsDecided
  <2>2. input.type \in {"manifest", "baseline", "evidence"}
    BY <2>1, DocumentsAssumption
  <2> QED BY <2>1, <2>2, ManifestIsTyped, BaselineIsTyped, EvidenceIsTyped DEF Validated
<1>2. Decided => DocumentsAreTyped
  BY <1>1 DEF Decided, DocumentsAreTyped
<1> QED BY <1>2, AlwaysDecided, PTL

-----------------------------------------------------------------------------
(* The verdict *)

(* A finding of the configuration has no line, so that no waiver aims at it.*)
LEMMA ConfigurationHasNoLine ==
  ASSUME NEW w, NEW f \in ConfigurationFindings(w)
  PROVE  f.line = 0 /\ f.rule = "REQUIRED_RULE_DISABLED" /\ f.severity = "error"
           /\ \E source, cell, rule : f = Weakened(source, cell, Absent, rule)
BY DEF ConfigurationFindings, Weakened

(* An attestation that is loaded is one of the entries. *)
LEMMA AttestationIsEntry ==
  ASSUME NEW c \in CheckCases, NEW id, Loaded(c, id)
  PROVE  Attestation(c, id) \in Range(c.attested)
<1> DEFINE S == {i \in EntriesOf(c, id) : c.attested[i].shaped}
<1>1. c.attested \in Seq(Range(c.attested))
  BY VerdictAssumption
<1>2. DOMAIN c.attested \subseteq Nat
  BY <1>1
<1>3. S \in SUBSET Nat /\ S # {}
  BY <1>2 DEF Loaded, EntriesOf
<1>4. First(S) \in S
  BY <1>3, FirstIsFirst
<1> QED BY <1>4 DEF Attestation, EntriesOf, Range

(* What a valid waiver takes away was attested. *)
LEMMA WaivedIsAttested ==
  ASSUME NEW c \in CheckCases, NEW g, Waived(c, g)
  PROVE  /\ g.rule \notin RequiredRules(c) /\ g.line # 0
         /\ \E a \in Range(c.attested) :
              /\ a.print = Fingerprint(g) /\ a.line = g.line /\ a.rule = g.rule /\ a.file = g.file
              /\ a.sha = c.text.sha /\ a.head = c.env.head /\ a.repository = c.env.repository
              /\ a.expires \in 0..MAX_WAIVER_DAYS /\ a.signedBy = c.env.key /\ a.approver \in c.env.approvers
<1>1. PICK n \in ValidLines(c) : WaiverMatches(c, c.text.lines[n], g)
  BY DEF Waived
<1> DEFINE d == c.text.lines[n]
           a == Attestation(c, d.id)
<1>2. AttestationHolds(c, d) /\ Loaded(c, d.id)
  BY DEF ValidLines, ValidWaiver, AttestationHolds
<1>3. a \in Range(c.attested)
  BY <1>2, AttestationIsEntry
<1>4. /\ a.rule = d.rule /\ a.file = c.text.file /\ a.sha = c.text.sha
      /\ a.head = c.env.head /\ a.repository = c.env.repository
      /\ a.expires \in 0..MAX_WAIVER_DAYS /\ a.approver \in c.env.approvers /\ a.signedBy = c.env.key
  BY <1>2 DEF AttestationHolds
<1>5. g.file = c.text.file /\ g.rule = d.rule /\ g.line # 0 /\ g.line = a.line /\ Fingerprint(g) = a.print
  BY <1>1 DEF WaiverMatches, Targets
<1> QED BY <1>3, <1>4, <1>5 DEF Waived

(* The answer of a check, field by field (checkRepository).                 *)
LEMMA VerdictAnswer ==
  ASSUME ChecksDecided, Is("check")
  PROVE  /\ input \in CheckCases
         /\ answer.active = ApplyWaivers(input, ApplySeverities(input, RawFindings(input)))
         /\ answer.exit = CheckExitCode(GateDecision(EvidenceDefects(input, Observations(input, RawFindings(input))), answer.active))
BY DEF ChecksDecided

(* A check with an active error does not end with 0.                        *)
LEMMA ErrorFails ==
  ASSUME ChecksDecided, Is("check"), NEW g \in answer.active, g.severity = "error"
  PROVE  answer.exit = 1
BY VerdictAnswer DEF GateDecision, CheckExitCode

(* Whatever the severities, a finding has the form of a finding. *)
LEMMA RawIsFinding ==
  ASSUME NEW c \in CheckCases, NEW f \in RawFindings(c)
  PROVE  f = [rule |-> f.rule, severity |-> f.severity, cell |-> f.cell, file |-> f.file, what |-> f.what, line |-> f.line]
<1>1. CASE f \in Range(c.found)
  BY <1>1, VerdictAssumption DEF Finding, Configured
<1>2. CASE f \in ConfigurationFindings(c)
  BY <1>2, ConfigurationHasNoLine DEF Weakened
<1> QED BY <1>1, <1>2 DEF RawFindings

(* A finding of a required rule stays active, whatever the severities and   *)
(* the waivers say (applySeverities, applyWaivers).                         *)
LEMMA RequiredFails ==
  ASSUME ChecksDecided, Is("check"), NEW f \in RawFindings(input), f.rule \in RequiredRules(input)
  PROVE  answer.exit = 1 /\ \E g \in answer.active : [g EXCEPT !.severity = f.severity] = f
<1>0. input \in CheckCases
  BY VerdictAnswer
<1> DEFINE e == [f EXCEPT !.severity = "error"]
           x == Weakened("off", f.cell, f.file, f.rule)
<1>f. f = [rule |-> f.rule, severity |-> f.severity, cell |-> f.cell, file |-> f.file, what |-> f.what, line |-> f.line]
  BY <1>0, RawIsFinding
<1>1. CASE ConfiguredSeverity(input, f) # "off"
  <2>1. e \in ApplySeverities(input, RawFindings(input))
    BY <1>1 DEF ApplySeverities, Adjusted
  <2>2. e.rule = f.rule /\ e.severity = "error"
    BY <1>f
  <2>3. ~Waived(input, e)
    BY <2>2 DEF Waived
  <2>4. e \in answer.active
    BY <2>1, <2>3, VerdictAnswer DEF ApplyWaivers
  <2>5. [e EXCEPT !.severity = f.severity] = f
    BY <1>f
  <2> QED BY <2>2, <2>4, <2>5, ErrorFails
<1>2. CASE ConfiguredSeverity(input, f) = "off"
  <2>1. {f, x} \subseteq ApplySeverities(input, RawFindings(input))
    BY <1>2 DEF ApplySeverities, Adjusted
  <2>2. ~Waived(input, f)
    BY DEF Waived
  <2>3. x.line = 0 /\ x.severity = "error"
    BY DEF Weakened
  <2>4. ~Waived(input, x)
    BY <2>3 DEF Waived, WaiverMatches, Targets
  <2>5. f \in answer.active /\ x \in answer.active
    BY <2>1, <2>2, <2>4, VerdictAnswer DEF ApplyWaivers
  <2>6. [f EXCEPT !.severity = f.severity] = f
    BY <1>f
  <2> QED BY <2>3, <2>5, <2>6, ErrorFails
<1> QED BY <1>1, <1>2

(* What is gone was switched off or attested. *)
LEMMA Suppressed == ChecksDecided => SuppressedIsAttested
<1> SUFFICES ASSUME ChecksDecided, Is("check"), NEW f \in RawFindings(input)
             PROVE  LET gone == ~\E g \in answer.active : [g EXCEPT !.severity = f.severity] = f
                    IN /\ gone => /\ f.rule \notin RequiredRules(input)
                                  /\ \/ Effective(f) = "off"
                                     \/ \E a \in Range(input.attested) : Attests(a, f)
                       /\ f.rule \in RequiredRules(input) => answer.exit = 1
  BY DEF SuppressedIsAttested
<1>0. input \in CheckCases
  BY VerdictAnswer
<1>f. f = [rule |-> f.rule, severity |-> f.severity, cell |-> f.cell, file |-> f.file, what |-> f.what, line |-> f.line]
  BY <1>0, RawIsFinding
<1>1. ASSUME f.rule \notin RequiredRules(input), Effective(f) # "off",
             ~\E g \in answer.active : [g EXCEPT !.severity = f.severity] = f
      PROVE  \E a \in Range(input.attested) : Attests(a, f)
  <2> DEFINE e == [f EXCEPT !.severity = Effective(f)]
  <2>1. e \in ApplySeverities(input, RawFindings(input))
    BY <1>1 DEF ApplySeverities, Adjusted, Effective, Absent
  <2>2. [e EXCEPT !.severity = f.severity] = f
    BY <1>f
  <2>3. Waived(input, e)
    BY <1>1, <2>1, <2>2, VerdictAnswer DEF ApplyWaivers
  <2>4. e.rule = f.rule /\ e.line = f.line /\ e.file = f.file
    BY <1>f
  <2> HIDE DEF e
  <2>5. PICK a \in Range(input.attested) :
          /\ a.print = Fingerprint(e) /\ a.line = e.line /\ a.rule = e.rule /\ a.file = e.file
          /\ a.sha = input.text.sha /\ a.head = input.env.head /\ a.repository = input.env.repository
          /\ a.expires \in 0..MAX_WAIVER_DAYS /\ a.signedBy = input.env.key /\ a.approver \in input.env.approvers
    BY <1>0, <2>3, WaivedIsAttested
  <2> QED BY <2>4, <2>5 DEF Attests, e
<1> QED BY <1>1, RequiredFails

(* A finding of a rule that is not required is reported with its effective  *)
(* severity, or not at all.                                                 *)
LEMMA AdjustedIsOne ==
  ASSUME NEW f, f.rule \notin RequiredRules(input)
  PROVE  \/ Effective(f) = "off" /\ Adjusted(input, f) \subseteq {[f EXCEPT !.severity = "off"]}
         \/ Effective(f) # "off" /\ Adjusted(input, f) = {[f EXCEPT !.severity = Effective(f)]}
BY DEF Adjusted, Effective, Absent

(* The severity that a finding ends with is one of the three.               *)
LEMMA EffectiveIsSeverity ==
  ASSUME input \in CheckCases, NEW f \in Range(input.found)
  PROVE  Effective(f) \in Severities
<1>1. ConfiguredSeverity(input, f) \in Severities \cup {Absent}
  BY VerdictAssumption, ConfiguredIsSeverity
<1>2. f.severity \in Severities
  BY VerdictAssumption DEF Finding, Configured
<1> QED BY <1>1, <1>2 DEF Effective, Severities

(* The first error that a directive aims at is the one its attestation is   *)
(* compared with: it is that one, or the waiver is reported.                *)
LEMMA AimedSettle == ChecksDecided => AimedWaiversSettle
<1> DEFINE d(n) == input.text.lines[n]
           above(n) == {f \in RawFindings(input) :
                          f.rule = d(n).rule /\ f.file = input.text.file /\ f.line = n + 1 /\ Effective(f) = "error"}
           reported(n) == \E g \in answer.active : g.rule = "WAIVER_INVALID" /\ g.line = n
<1> SUFFICES ASSUME ChecksDecided, Is("check"), NEW n \in WaiverLines(input), above(n) # {},
                    Loaded(input, d(n).id) => Attestation(input, d(n).id).line = n + 1, ~reported(n)
             PROVE  \E f \in above(n) : [f EXCEPT !.severity = "error"] \notin answer.active
  BY DEF AimedWaiversSettle
<1>0. input \in CheckCases
  BY VerdictAnswer
<1>1. WaiverInvalid(input, n) \notin answer.active
  BY DEF WaiverInvalid
<1>2. n \in ValidLines(input) /\ ~Astray(input, n)
  BY <1>1, VerdictAnswer DEF ApplyWaivers
<1>3. d(n).rule \notin RequiredRules(input) /\ Attestation(input, d(n).id).line = n + 1
  BY <1>2 DEF ValidLines, ValidWaiver, AttestationHolds
<1>4. n \in Nat /\ n + 1 # 0
  <2>1. input.text.lines \in Seq(Range(input.text.lines))
    BY <1>0, VerdictAssumption DEF Configured
  <2>2. DOMAIN input.text.lines = 1..Len(input.text.lines)
    BY <2>1
  <2> QED BY <2>2 DEF WaiverLines
<1>5. AimedAt(input, n) # {}
  <2>1. PICK f \in above(n) : TRUE
    OBVIOUS
  <2>2. f \in Range(input.found)
    BY <1>0, <1>4, <2>1, ConfigurationHasNoLine DEF RawFindings
  <2>3. PICK i \in DOMAIN input.found : input.found[i] = f
    BY <2>2 DEF Range
  <2>4. [f EXCEPT !.severity = "error"] \in Adjusted(input, f)
    BY <1>3, <2>1, AdjustedIsOne
  <2>5. f = [rule |-> f.rule, severity |-> f.severity, cell |-> f.cell, file |-> f.file, what |-> f.what, line |-> f.line]
    BY <1>0, <2>1, RawIsFinding
  <2> DEFINE e == [f EXCEPT !.severity = "error"]
  <2>6. e.severity = "error" /\ e.rule = f.rule /\ e.file = f.file /\ e.line = f.line
    BY <2>5
  <2> HIDE DEF e
  <2>7. Targets(input, d(n), e)
    BY <1>3, <1>4, <2>1, <2>6 DEF Targets
  <2> QED BY <2>3, <2>4, <2>6, <2>7 DEF AimedAt, e
<1> DEFINE i == First(AimedAt(input, n))
           f == input.found[i]
           e == [f EXCEPT !.severity = "error"]
<1>6. i \in AimedAt(input, n)
  <2>1. input.found \in Seq(Range(input.found))
    BY <1>0, VerdictAssumption DEF Configured
  <2>2. AimedAt(input, n) \subseteq Nat
    BY <2>1 DEF AimedAt
  <2> QED BY <1>5, <2>2, FirstIsFirst
<1>7. f \in Range(input.found) /\ f \in RawFindings(input)
  BY <1>6 DEF AimedAt, Range, RawFindings
<1>f. f = [rule |-> f.rule, severity |-> f.severity, cell |-> f.cell, file |-> f.file, what |-> f.what, line |-> f.line]
  BY <1>0, <1>7, RawIsFinding
<1>8. PICK g \in Adjusted(input, f) : g.severity # "warning" /\ Targets(input, d(n), g)
  BY <1>6 DEF AimedAt
<1>9. f.rule \notin RequiredRules(input)
  <2>1. ASSUME f.rule \in RequiredRules(input) PROVE FALSE
    <3>1. g.rule # f.rule /\ g.line # 0
      BY <1>3, <1>8, <2>1 DEF Targets
    <3>2. g \in {[f EXCEPT !.severity = "error"], Weakened("off", f.cell, f.file, f.rule), f}
      BY <1>8, <2>1 DEF Adjusted
    <3> QED BY <1>f, <3>1, <3>2 DEF Weakened
  <2> QED BY <2>1
<1>10. g = [f EXCEPT !.severity = g.severity] /\ g.severity \in {"off", Effective(f)} /\ (g.severity = "off" => Effective(f) = "off")
  <2>1. CASE Effective(f) = "off"
    BY <1>8, <1>9, <1>f, <2>1, AdjustedIsOne
  <2>2. CASE Effective(f) # "off"
    BY <1>8, <1>9, <1>f, <2>2, AdjustedIsOne
  <2> QED BY <2>1, <2>2
<1>11. Effective(f) = "error"
  <2>1. Effective(f) # "off"
    <3>1. Adjusted(input, f) # {}
      BY <1>8
    <3>2. ConfiguredSeverity(input, f) # "off"
      BY <1>9, <3>1 DEF Adjusted
    <3>3. f.severity # "off"
      BY <1>0, <1>7, VerdictAssumption DEF Finding, Configured
    <3> QED BY <1>9, <3>2, <3>3 DEF Effective
  <2>2. g.severity = Effective(f)
    BY <1>10, <2>1
  <2>3. Effective(f) \in Severities
    BY <1>0, <1>7, EffectiveIsSeverity
  <2> QED BY <1>8, <2>1, <2>2, <2>3 DEF Severities
<1>12. g = e /\ Adjusted(input, f) = {e}
  BY <1>9, <1>10, <1>11, AdjustedIsOne
<1>13. f \in above(n)
  <2>1. g.rule = f.rule /\ g.file = f.file /\ g.line = f.line
    BY <1>f, <1>12
  <2> QED BY <1>3, <1>7, <1>8, <1>11, <2>1 DEF Targets
<1>14. Waived(input, e)
  <2>1. WaiverMatches(input, d(n), e)
    BY <1>2, <1>5, <1>12 DEF Astray
  <2>2. e.rule = f.rule
    BY <1>f
  <2> QED BY <1>2, <1>9, <2>1, <2>2 DEF Waived
<1>15. e \notin answer.active
  <2>1. e.rule \notin RequiredRules(input)
    BY <1>9, <1>f
  <2>2. \A m : WaiverInvalid(input, m).rule \in RequiredRules(input)
    BY VerdictAssumption DEF WaiverInvalid, RequiredRules
  <2> HIDE DEF e
  <2> QED BY <1>14, <2>1, <2>2, VerdictAnswer DEF ApplyWaivers
<1> QED BY <1>13, <1>15

(* The open evidence of a file blocks the check. *)
LEMMA GreenEvidenced == ChecksDecided => GreenIsEvidenced
<1> SUFFICES ASSUME ChecksDecided, Is("check"), answer.exit = 0,
                    NEW p \in input.sources \cap input.present, RoleOf(input, p) = "source"
             PROVE  /\ p \in input.read["imports"] \cap input.read["resources"]
                    /\ p \in input.entries => p \in input.read["public-surface"]
                    /\ ~\E f \in Range(input.found) : f.file = p /\ f.rule \in SyntaxRules \cup OpenImportRules
  BY DEF GreenIsEvidenced
<1> DEFINE raw == RawFindings(input)
           observed == Observations(input, raw)
           status(family) == SourceStatus(input, p, family, raw)
<1>1. EvidenceDefects(input, observed) = {}
  BY VerdictAnswer DEF GateDecision, CheckExitCode
<1>2. p \in SubjectFiles(input)
  BY DEF SubjectFiles
<1>3. \A family \in {"imports", "public-surface", "resources"} : Observed(p, family, status(family)) \in observed
  BY <1>2, SourceObservations
<1>4. \A o \in observed : o.status \notin {"parse-error", "unsupported"}
  BY <1>1, NoDefects
<1>5. \A family \in {"imports", "public-surface", "resources"} : status(family) \notin {"parse-error", "unsupported"}
  BY <1>3, <1>4 DEF Observed
<1>6. p \in input.read["imports"] \cap input.read["resources"]
  BY <1>5 DEF SourceStatus, DiagnosedStatus
<1>7. ASSUME p \in input.entries PROVE p \in input.read["public-surface"]
  <2>1. <<p, "public-surface">> \in RequiredObservations(input)
    BY <1>2, <1>7 DEF RequiredObservations
  <2>2. \E o \in observed : o.status # "not-applicable" /\ o.file = p /\ o.family = "public-surface"
    <3>1. \A r \in RequiredObservations(input) :
            \E o \in observed : o.status # "not-applicable" /\ o.file = r[1] /\ o.family = r[2]
      BY <1>1, NoDefects
    <3> QED BY <2>1, <3>1
  <2>3. \A o \in observed : o.file = p => o \in {Observed(p, f, status(f)) : f \in {"imports", "public-surface", "resources"}}
    BY <1>2, SourceObservations
  <2>4. status("public-surface") # "not-applicable"
    BY <2>2, <2>3 DEF Observed
  <2>5. status("public-surface") # "unsupported" /\ status("public-surface") # "parse-error"
    BY <1>5
  <2> QED BY <2>4, <2>5 DEF SourceStatus, DiagnosedStatus
<1>8. ASSUME NEW f \in Range(input.found), f.file = p, f.rule \in SyntaxRules \cup OpenImportRules PROVE FALSE
  <2>1. f \in raw
    BY DEF RawFindings
  <2>2. DiagnosedStatus(p, "imports", raw) \in {"parse-error", "unsupported"}
    BY <1>8, <2>1 DEF DiagnosedStatus
  <2> QED BY <1>5, <2>2 DEF SourceStatus
<1> QED BY <1>6, <1>7, <1>8

-----------------------------------------------------------------------------
(* The check of a change *)

(* Without the earlier check nothing else differs. *)
LEMMA CacheCanOnlyAdd == ChangesDecided => CacheHidesNothing
<1> SUFFICES ASSUME ChangesDecided, Is("changed"), input.git PROVE CacheHidesNothing
  BY DEF CacheHidesNothing
<1> DEFINE tree == IF input.head = NoRef THEN WorkTree ELSE input.head
           current == ResultOf(input, tree, input.env)
           again == [input EXCEPT !.earlier = <<>>]
           own == ResultOf(input, input.base, input.env)
           moved == MoveFindings(input, tree)
<1>1. input \in ChangedCases /\ answer = ChangedResult(input)
  BY DEF ChangesDecided
<1>2. /\ again.trees = input.trees /\ again.base = input.base /\ again.head = input.head /\ again.moves = input.moves
      /\ again.env = input.env /\ again.git = input.git /\ again.earlier = <<>>
  <2>1. input = [trees |-> input.trees, base |-> input.base, head |-> input.head, moves |-> input.moves, options |-> input.options,
                 env |-> input.env, earlier |-> input.earlier, git |-> input.git]
    BY <1>1, ChangeAssumption
  <2> QED BY <2>1
<1> HIDE DEF again
<1>3. /\ \A t, e : ResultOf(again, t, e) = ResultOf(input, t, e)
      /\ MoveFindings(again, tree) = moved
      /\ ~CacheHit(again)
  BY <1>2 DEF ResultOf, MoveFindings, CacheHit
<1>4. BaseResult(again) = own
  BY <1>2, <1>3 DEF BaseResult
<1>5. BaseResult(input) = own \/ (BaseResult(input).findings = {} /\ BaseResult(input).exit = 0)
  BY DEF BaseResult, CacheHit, Reusable
<1> DEFINE report(base) == (current.findings \ base.findings) \cup moved
<1>6. /\ ChangedResult(again).exit =
           (IF current.exit \in {2, 3} THEN current.exit
            ELSE IF own.exit \in {2, 3} THEN own.exit ELSE IF report(own) = {} THEN 0 ELSE 1)
      /\ ChangedResult(again).findings =
           (IF current.exit \in {2, 3} THEN current.findings
            ELSE IF own.exit \in {2, 3} THEN own.findings ELSE report(own))
  <2>1. (IF again.head = NoRef THEN WorkTree ELSE again.head) = tree /\ again.git
    BY <1>2
  <2>2. ResultOf(again, tree, again.env) = current
    BY <1>2, <1>3
  <2>3. MoveFindings(again, tree) = moved
    BY <1>3
  <2> HIDE DEF tree, current, own, moved
  <2> QED BY <2>1, <2>2, <2>3, <1>4 DEF ChangedResult
<1> DEFINE base == BaseResult(input)
<1>7. /\ answer.exit =
           (IF current.exit \in {2, 3} THEN current.exit
            ELSE IF base.exit \in {2, 3} THEN base.exit ELSE IF report(base) = {} THEN 0 ELSE 1)
      /\ answer.findings =
           (IF current.exit \in {2, 3} THEN current.findings
            ELSE IF base.exit \in {2, 3} THEN base.findings ELSE report(base))
  BY <1>1 DEF ChangedResult
<1> QED
  <2> HIDE DEF current, base, own, moved
  <2>1. base = own \/ (base.findings = {} /\ base.exit = 0)
    BY <1>5 DEF base, own
  <2>2. report(own) \subseteq report(base) \/ base = own
    BY <2>1
  <2>3. current.exit \in {0, 1} /\ ChangedResult(again).exit \in {0, 1} => ChangedResult(again).findings \subseteq answer.findings
    BY <1>6, <1>7, <2>1, <2>2
  <2>4. answer.exit = 0 => ChangedResult(again).exit # 1
    BY <1>6, <1>7, <2>1, <2>2
  <2>5. current.exit \in {2, 3} => answer.exit = current.exit
    BY <1>7
  <2> QED BY <2>3, <2>4, <2>5 DEF CacheHidesNothing, again, current

(* What is not looked at does not matter. *)
LEMMA SnapshotHolds == ChangesDecided => SnapshotDecides
<1> SUFFICES ASSUME ChangesDecided, Is("changed") PROVE SnapshotDecides
  BY DEF SnapshotDecides
<1>1. input \in ChangedCases /\ answer = ChangedResult(input)
  BY DEF ChangesDecided
<1>2. ASSUME input.head # NoRef
      PROVE  ChangedResult([input EXCEPT !.trees[WorkTree] = input.trees[input.base]]) = answer
  <2> DEFINE other == [input EXCEPT !.trees[WorkTree] = input.trees[input.base]]
             commits == DOMAIN input.trees \ {WorkTree}
  <2>1. /\ other.base = input.base /\ other.head = input.head /\ other.moves = input.moves /\ other.options = input.options
        /\ other.env = input.env /\ other.git = input.git /\ other.earlier = input.earlier
        /\ \A t \in commits : other.trees[t] = input.trees[t]
    BY <1>1, ChangeAssumption
  <2>2. input.base \in commits /\ input.head \in commits /\ (input.earlier # <<>> => Head(input.earlier).base \in commits)
    BY <1>1, <1>2, ChangeAssumption
  <2> HIDE DEF other, commits
  <2>3. \A t \in commits : \A e : ResultOf(other, t, e) = ResultOf(input, t, e)
    BY <2>1, ZenonT(60) DEF ResultOf
  <2>4. MoveFindings(other, input.head) = MoveFindings(input, input.head)
    BY <2>1, <2>2 DEF MoveFindings
  <2>5. CacheHit(other) = CacheHit(input)
    <3>1. CASE input.earlier = <<>>
      BY <2>1, <3>1 DEF CacheHit
    <3>2. CASE input.earlier # <<>>
      <4>1. ResultOf(other, Head(input.earlier).base, Head(input.earlier).env) = ResultOf(input, Head(input.earlier).base, Head(input.earlier).env)
        BY <2>2, <2>3, <3>2
      <4> QED BY <2>1, <4>1 DEF CacheHit
    <3> QED BY <3>1, <3>2
  <2>6. BaseResult(other) = BaseResult(input)
    <3>1. CASE CacheHit(input)
      <4>1. ResultOf(other, Head(input.earlier).base, Head(input.earlier).env) = ResultOf(input, Head(input.earlier).base, Head(input.earlier).env)
        BY <2>2, <2>3, <3>1 DEF CacheHit
      <4> QED BY <2>1, <2>5, <3>1, <4>1 DEF BaseResult
    <3>2. CASE ~CacheHit(input)
      BY <2>1, <2>2, <2>3, <2>5, <3>2 DEF BaseResult
    <3> QED BY <3>1, <3>2
  <2>7. ResultOf(other, input.head, input.env) = ResultOf(input, input.head, input.env)
    BY <2>2, <2>3
  <2>8. ChangedResult(other) = ChangedResult(input)
    BY <1>2, <2>1, <2>4, <2>5, <2>6, <2>7 DEF ChangedResult
  <2> QED BY <1>1, <2>8 DEF other
<1>3. ASSUME answer.exit = 0,
             NEW m \in input.moves[IF input.head = NoRef THEN WorkTree ELSE input.head]
      PROVE  LET owner == input.trees[IF input.head = NoRef THEN WorkTree ELSE input.head].manifest IN
             {m.from, m.to} \subseteq DOMAIN owner => owner[m.from] = owner[m.to]
  <2> DEFINE tree == IF input.head = NoRef THEN WorkTree ELSE input.head
  <2>1. MoveFindings(input, tree) = {}
    BY <1>1, <1>3 DEF ChangedResult, Unavailable
  <2> QED BY <2>1 DEF MoveFindings
<1> QED BY <1>2, <1>3 DEF SnapshotDecides

(* A green check is earned, in every check: what is missing from its report *)
(* was switched off or attested, every waiver took effect or was reported,  *)
(* all evidence was there; and of a change, the cache of the base and the   *)
(* work tree beside a snapshot hid nothing.                                 *)
THEOREM GreenIsAlwaysEarned == Spec => []GreenIsEarned
<1>1. Decided => GreenIsEarned
  BY Suppressed, AimedSettle, GreenEvidenced, CacheCanOnlyAdd, SnapshotHolds DEF Decided, GreenIsEarned
<1> QED BY <1>1, AlwaysDecided, PTL

-----------------------------------------------------------------------------
(* Territory                                                               *)

(* What two patterns share the automata see, and what lies within another   *)
(* pattern is matched by it.                                                *)
LEMMA SharesSeen == PatternsDecided => OverlapSeesEveryShare
<1> SUFFICES ASSUME PatternsDecided, Is("pattern") PROVE OverlapSeesEveryShare
  BY DEF OverlapSeesEveryShare
<1>1. /\ input \in PatternCases
      /\ answer.meet <=> Intersect(input.left, input.right)
      /\ answer.overlap <=> Overlaps(input.left, input.right)
      /\ answer.owned <=> OwnedOverlap(input.left, input.right)
  BY DEF PatternsDecided
<1>2. IsPathText(input.left) /\ IsPathText(input.right)
  BY <1>1, PatternAssumption
<1>3. ASSUME Share(input.left, input.right, SamplePaths) PROVE answer.meet /\ answer.overlap
  <2>1. PICK f \in SamplePaths : Matches(f, input.left) /\ Matches(f, input.right)
    BY <1>3 DEF Share
  <2>2. NamesFile(f)
    BY PatternAssumption
  <2> QED BY <1>1, <1>2, <2>1, <2>2, SharesAreSeen
<1>4. ASSUME Owns(input.left, input.right, SamplePaths) PROVE answer.owned
  <2>1. PICK f \in SamplePaths : OwnedBy(f, {input.left}) /\ OwnedBy(f, {input.right})
    BY <1>4 DEF Owns
  <2>2. NamesFile(f)
    BY PatternAssumption
  <2> QED BY <1>1, <1>2, <2>1, <2>2, SharedOwnershipIsSeen
<1> QED BY <1>3, <1>4 DEF OverlapSeesEveryShare

LEMMA ContainmentHolds == PatternsDecided => CoverageIsContainment
<1> SUFFICES ASSUME PatternsDecided, Is("pattern"), answer.subset, NEW f \in SamplePaths, Matches(f, input.left)
             PROVE  Matches(f, input.right)
  BY DEF CoverageIsContainment
<1>1. input \in PatternCases /\ Subset(input.left, input.right)
  BY DEF PatternsDecided
<1>2. IsPathText(input.left) /\ IsPathText(input.right) /\ NamesFile(f)
  BY <1>1, PatternAssumption
<1> QED BY <1>1, <1>2, CoverageContains

LEMMA ListedHolds == TreesDecided => OwnedFilesAreListed
<1> SUFFICES ASSUME TreesDecided, Is("tree"), OwnedBy(input.file, input.owned)
             PROVE  answer \/ \E k \in 1..(Len(input.file) - 1) : input.file[k] \in AlwaysIgnored
  BY DEF OwnedFilesAreListed
<1> DEFINE governed == input.include \cup input.owned
<1>1. input \in TreeCases /\ answer = Listed(input.file, governed)
  BY DEF TreesDecided
<1>2. IsListedPath(input.file) /\ \A p \in governed : IsPathText(p)
  BY <1>1, TreeAssumption DEF ArePathTexts
<1>3. OwnedBy(input.file, governed)
  BY DEF OwnedBy
<1> HIDE DEF governed
<1>4. Listed(input.file, governed) \/ \E k \in 1..(Len(input.file) - 1) : input.file[k] \in AlwaysIgnored
  BY <1>2, <1>3, OwnedIsListed
<1> QED BY <1>1, <1>4

(* The territory that was surveyed: what it is made of, and that the        *)
(* findings of each kind are among the errors.                              *)
LEMMA SurveyedFacts ==
  ASSUME TerritoriesDecided, Is("territory")
  PROVE  /\ {"owned", "public"} \subseteq DOMAIN input
         /\ \A c \in TerritoryCells(input) : \A p \in input.owned[c] \cup input.public[c] : IsPathText(p)
         /\ \A f \in input.files \cup DOMAIN input.links : NamesFile(f)
         /\ input.files \cap DOMAIN input.links = {}
         /\ answer.errors = TerritoryErrors(input)
         /\ answer.warnings = DeadPatterns(input, answer.errors)
<1>1. input \in TerritoryCases /\ answer = Surveyed(input, TerritoryErrors(input))
  BY DEF TerritoriesDecided
<1>2. answer.errors = TerritoryErrors(input) /\ answer.warnings = DeadPatterns(input, answer.errors)
  BY <1>1 DEF Surveyed
<1> QED BY <1>1, <1>2, TerritoryAssumption DEF ArePathTexts

LEMMA FilesAreNamed ==
  ASSUME TerritoriesDecided, Is("territory"), NEW f \in TerritoryFiles(input)
  PROVE  NamesFile(f)
BY SurveyedFacts DEF TerritoryFiles

(* Without findings the owned paths of two cells do not meet, so that a file*)
(* has one owner at most.                                                   *)
LEMMA OneOwner ==
  ASSUME TerritoriesDecided, Peaceful, NEW f, NamesFile(f),
         NEW c \in PathOwners(input, f), NEW d \in PathOwners(input, f)
  PROVE  c = d
<1>1. Is("territory") /\ OwnershipOverlap(input) = {}
  BY SurveyedFacts DEF Peaceful, TerritoryErrors
<1> SUFFICES ASSUME c # d PROVE FALSE
  OBVIOUS
<1>2. c \in TerritoryCells(input) /\ d \in TerritoryCells(input)
  BY DEF PathOwners
<1>3. PICK p \in input.owned[c] : \E e \in Expand(p) : Matches(f, e)
  BY DEF PathOwners, OwnedBy
<1>4. PICK q \in input.owned[d] : \E e \in Expand(q) : Matches(f, e)
  BY DEF PathOwners, OwnedBy
<1>5. OwnedBy(f, {p}) /\ OwnedBy(f, {q})
  BY <1>3, <1>4 DEF OwnedBy
<1>6. IsPathText(p) /\ IsPathText(q)
  BY <1>1, <1>2, SurveyedFacts
<1>7. OwnedOverlap(p, q)
  BY <1>5, <1>6, SharedOwnershipIsSeen
<1>8. Wrong("OWNERSHIP_OVERLAP", c, p) \in OwnershipOverlap(input)
  <2>1. p \in {x \in input.owned[c] : \E e \in TerritoryCells(input) \ {c} : \E y \in input.owned[e] : OwnedOverlap(x, y)}
    BY <1>2, <1>7
  <2> QED BY <1>2, <2>1 DEF OwnershipOverlap
<1> QED BY <1>1, <1>8

LEMMA OneCell == TerritoriesDecided => OneCellPerFile
<1> SUFFICES ASSUME TerritoriesDecided, Peaceful, NEW f \in TerritoryFiles(input)
             PROVE  /\ Cardinality(PathOwners(input, f)) <= 1
                    /\ SourceIn(input, f) /\ Governed(input, f) => PathOwners(input, f) # {}
  BY DEF OneCellPerFile
<1>1. Is("territory") /\ Unowned(input) = {}
  BY SurveyedFacts DEF Peaceful, TerritoryErrors
<1>2. NamesFile(f)
  BY <1>1, FilesAreNamed
<1>3. Cardinality(PathOwners(input, f)) <= 1
  <2>1. CASE PathOwners(input, f) = {}
    BY <2>1, FS_EmptySet
  <2>2. ASSUME NEW c \in PathOwners(input, f) PROVE Cardinality(PathOwners(input, f)) = 1
    <3>1. PathOwners(input, f) = {c}
      BY <1>2, OneOwner
    <3> QED BY <3>1, FS_Singleton
  <2> QED BY <2>1, <2>2
<1>4. ASSUME SourceIn(input, f), Governed(input, f), PathOwners(input, f) = {} PROVE FALSE
  <2>1. Wrong("UNOWNED_SOURCE", NoCellNamed, f) \in Unowned(input)
    BY <1>4 DEF Unowned
  <2> QED BY <1>1, <2>1
<1> QED BY <1>3, <1>4

LEMMA LinksStay == TerritoriesDecided => LinksStayInCell
<1> SUFFICES ASSUME TerritoriesDecided, Peaceful, NEW c \in TerritoryCells(input), NEW f \in CellSources(input, c),
                    f \in DOMAIN input.links
             PROVE  input.links[f] \in input.files /\ OwnedBy(input.links[f], input.owned[c])
  BY DEF LinksStayInCell
<1>1. Is("territory") /\ LinkFindings(input) = {}
  BY SurveyedFacts DEF Peaceful, TerritoryErrors
<1>2. f \in TerritoryFiles(input) /\ c \in PathOwners(input, f)
  BY DEF CellSources, PathOwners
<1>3. Wrong("SYMLINK_OUTSIDE", NoCellNamed, f) \notin LinkFindings(input)
  BY <1>1
<1>4. /\ input.links[f] \notin {BrokenLink, Outside}
      /\ PathOwners(input, f) \cap PathOwners(input, input.links[f]) # {}
  BY <1>2, <1>3 DEF LinkFindings
<1>5. PICK d : d \in PathOwners(input, f) /\ d \in PathOwners(input, input.links[f])
  BY <1>4
<1>6. c = d
  BY <1>1, <1>2, <1>5, FilesAreNamed, OneOwner
<1>7. input.links[f] \in input.files
  BY <1>1, <1>2, <1>4, SurveyedFacts DEF TerritoryFiles
<1> QED BY <1>5, <1>6, <1>7 DEF PathOwners

LEMMA PublicOwned == TerritoriesDecided => PublicFilesAreOwned
<1> SUFFICES ASSUME TerritoriesDecided, Peaceful, NEW c \in TerritoryCells(input)
             PROVE  /\ input.entry[c] \in input.files /\ OwnedBy(input.entry[c], input.owned[c])
                    /\ \A f \in input.files : MatchesAny(f, input.public[c]) => PathOwners(input, f) = {c}
  BY DEF PublicFilesAreOwned
<1>1. Is("territory") /\ OutsideOwnership(input, c) = {} /\ EntryFindings(input, c) = {}
  BY SurveyedFacts DEF Peaceful, TerritoryErrors
<1>2. input.entry[c] \in input.files
  BY <1>1 DEF EntryFindings
<1>3. OwnedBy(input.entry[c], input.owned[c])
  <2>1. Wrong("PUBLIC_ENTRY_OUTSIDE", c, input.entry[c]) \notin OutsideOwnership(input, c)
    BY <1>1
  <2> QED BY <2>1 DEF OutsideOwnership
<1>4. ASSUME NEW f \in input.files, MatchesAny(f, input.public[c]) PROVE PathOwners(input, f) = {c}
  <2>1. PICK p \in input.public[c] : Matches(f, p)
    BY <1>4 DEF MatchesAny
  <2>2. Wrong("PUBLIC_ENTRY_OUTSIDE", c, p) \notin OutsideOwnership(input, c)
    BY <1>1
  <2>3. CoveredByOwned(p, input.owned[c])
    BY <2>2 DEF OutsideOwnership
  <2>4. IsPathText(p) /\ (\A o \in input.owned[c] : IsPathText(o)) /\ NamesFile(f)
    BY <1>1, SurveyedFacts
  <2>5. OwnedBy(f, input.owned[c])
    BY <2>1, <2>3, <2>4, CoveredFilesAreOwned
  <2>6. c \in PathOwners(input, f)
    BY <2>5 DEF PathOwners
  <2> QED BY <2>4, <2>6, OneOwner
<1> QED BY <1>2, <1>3, <1>4

LEMMA WarnedIdle == TerritoriesDecided => WarnedPatternsAreIdle
<1> SUFFICES ASSUME TerritoriesDecided, Is("territory"), NEW e \in answer.warnings, e.cell # NoCellNamed,
                    HasWildcard(e.path), NEW f \in TerritoryFiles(input)
             PROVE  PathOwners([input EXCEPT !.owned[e.cell] = @ \ {e.path}], f) = PathOwners(input, f)
  BY DEF WarnedPatternsAreIdle
<1> DEFINE without == [input EXCEPT !.owned[e.cell] = @ \ {e.path}]
<1>1. /\ "owned" \in DOMAIN input
      /\ e \in DeadPatterns(input, answer.errors)
  BY SurveyedFacts
<1>2. ~Matches(f, e.path)
  BY <1>1 DEF DeadPatterns, Wrong
<1>3. /\ DOMAIN without.owned = DOMAIN input.owned
      /\ \A c \in DOMAIN input.owned :
           without.owned[c] = IF c = e.cell THEN input.owned[c] \ {e.path} ELSE input.owned[c]
  BY <1>1
<1> HIDE DEF without
<1>4. ASSUME NEW c \in DOMAIN input.owned PROVE OwnedBy(f, without.owned[c]) <=> OwnedBy(f, input.owned[c])
  BY <1>2, <1>3, <1>4 DEF OwnedBy, Expand
<1>5. PathOwners(without, f) = PathOwners(input, f)
  BY <1>3, <1>4 DEF PathOwners, TerritoryCells
<1> QED BY <1>5 DEF without

(* Overlap findings and link findings are complete, whatever the patterns,  *)
(* the tree and the links: where the check is silent every file has one     *)
(* cell, and what a cell reads or publishes is its own.                     *)
THEOREM TerritoryIsAlwaysSound == Spec => []TerritoryIsSound
<1>1. Decided => TerritoryIsSound
  BY SharesSeen, ContainmentHolds, ListedHolds, OneCell, LinksStay, PublicOwned, WarnedIdle DEF Decided, TerritoryIsSound
<1> QED BY <1>1, AlwaysDecided, PTL

-----------------------------------------------------------------------------
(* Claims                                                                  *)

LEMMA SharedConflicts == ClaimsDecided => SharedFileConflicts
<1> SUFFICES ASSUME ClaimsDecided, Is("claim"), OwnershipDisjoint(input.manifest),
                    NEW c \in input.claims, NEW d \in input.claims,
                    ClaimCovers(input.manifest, c, input.file), ClaimCovers(input.manifest, d, input.file)
             PROVE  ClaimsConflict(input.manifest, c, d)
  BY DEF SharedFileConflicts
<1> DEFINE m == input.manifest
           f == input.file
           CoversByPath(x, p) == p \in x.paths /\ Matches(f, p)
           CoversByCell(x, k, o) == k \in x.cells \cap ManifestCells(m) /\ o \in m.owned[k] /\ OwnedBy(f, {o})
<1>1. /\ \A k \in ManifestCells(m) : \A o \in m.owned[k] : IsPathText(o)
      /\ \A p \in c.paths \cup d.paths : IsPathText(p)
      /\ NamesFile(f)
  BY ClaimAssumption DEF ClaimsDecided
<1>2. ASSUME NEW x, ClaimCovers(m, x, f) PROVE (\E p : CoversByPath(x, p)) \/ (\E k, o : CoversByCell(x, k, o))
  <2>1. CASE \E p \in x.paths : Matches(f, p)
    BY <2>1
  <2>2. CASE \E k \in x.cells \cap ManifestCells(m) : OwnedBy(f, m.owned[k])
    <3>1. PICK k \in x.cells \cap ManifestCells(m) : OwnedBy(f, m.owned[k])
      BY <2>2
    <3>2. PICK o \in m.owned[k] : OwnedBy(f, {o})
      BY <3>1 DEF OwnedBy
    <3>3. CoversByCell(x, k, o)
      BY <3>2
    <3> QED BY <3>3
  <2> QED BY <1>2, <2>1, <2>2 DEF ClaimCovers
<1>3. ASSUME NEW p, CoversByPath(c, p), NEW q, CoversByPath(d, q) PROVE ClaimsConflict(m, c, d)
  <2>1. Overlaps(p, q)
    BY <1>1, <1>3, SharesAreSeen
  <2> QED BY <1>3, <2>1 DEF ClaimsConflict
<1>4. ASSUME NEW x \in {c, d}, NEW y \in {c, d}, NEW p, CoversByPath(x, p), NEW k, NEW o, CoversByCell(y, k, o)
      PROVE  PathMeetsCells(m, x.paths, y.cells)
  <2>1. IsPathText(p) /\ IsPathText(o)
    BY <1>1, <1>4
  <2>2. OwnedBy(f, {p})
    BY <1>4, <2>1, ExpandFacts DEF OwnedBy
  <2>3. OwnedOverlap(p, o)
    BY <1>1, <1>4, <2>1, <2>2, SharedOwnershipIsSeen
  <2> QED BY <1>4, <2>3 DEF PathMeetsCells
<1>5. ASSUME NEW k, NEW o, CoversByCell(c, k, o), NEW l, NEW u, CoversByCell(d, l, u) PROVE ClaimsConflict(m, c, d)
  <2>1. OwnedOverlap(o, u)
    BY <1>1, <1>5, SharedOwnershipIsSeen
  <2>2. k = l
    BY <1>5, <2>1 DEF OwnershipDisjoint
  <2> QED BY <1>5, <2>2 DEF ClaimsConflict
<1>6. (\E p : CoversByPath(c, p)) \/ (\E k, o : CoversByCell(c, k, o))
  BY <1>2
<1>7. (\E p : CoversByPath(d, p)) \/ (\E k, o : CoversByCell(d, k, o))
  BY <1>2
<1>8. ASSUME NEW p, CoversByPath(c, p), NEW k, NEW o, CoversByCell(d, k, o) PROVE ClaimsConflict(m, c, d)
  BY <1>4, <1>8 DEF ClaimsConflict
<1>9. ASSUME NEW p, CoversByPath(d, p), NEW k, NEW o, CoversByCell(c, k, o) PROVE ClaimsConflict(m, c, d)
  BY <1>4, <1>9 DEF ClaimsConflict
<1> HIDE DEF CoversByPath, CoversByCell
<1> QED BY <1>3, <1>5, <1>6, <1>7, <1>8, <1>9

LEMMA OneWriter == ClaimsDecided => OneWriterPerFile
<1> SUFFICES ASSUME ClaimsDecided, Is("claim"), answer.write,
                    NEW other \in {c.agent : c \in input.claims} \ {input.agent},
                    MayWrite(input.manifest, input.claims, other, input.file)
             PROVE  FALSE
  BY DEF OneWriterPerFile
<1>1. MayWrite(input.manifest, input.claims, input.agent, input.file)
  BY DEF ClaimsDecided
<1>2. PICK c \in ActiveClaims(input.claims) : c.agent = other /\ ClaimCovers(input.manifest, c, input.file)
  BY DEF MayWrite
<1> QED BY <1>1, <1>2 DEF MayWrite

LEMMA SweepAgrees == ClaimsDecided => SweepAgreesWithGuard
<1> SUFFICES ASSUME ClaimsDecided, Is("claim") PROVE answer.write <=> answer.check
  BY DEF SweepAgreesWithGuard
<1>1. /\ answer.write <=> MayWrite(input.manifest, input.claims, input.agent, input.file)
      /\ answer.check <=> ClaimCheckOk(input.manifest, input.claims, input.agent, {input.file}, ClaimsPath)
      /\ input.file # ClaimsPath
  BY ClaimAssumption DEF ClaimsDecided
<1>2. answer.check <=> /\ ClaimsOk(input.manifest, input.claims)
                       /\ Sweep(input.manifest, input.claims, input.agent, input.file) = "accepted"
  BY <1>1 DEF ClaimCheckOk
<1> QED BY <1>1, <1>2 DEF MayWrite, Sweep

(* Claims of agents keep them apart, whatever is claimed and whatever the   *)
(* cells own: a shared file is a conflict, one agent at a time has leave to *)
(* write it, and the sweep of a change accepts what the guard allowed.      *)
THEOREM ClaimsAlwaysGuardFiles == Spec => []ClaimsGuardFiles
<1>1. Decided => ClaimsGuardFiles
  BY SharedConflicts, OneWriter, SweepAgrees DEF Decided, ClaimsGuardFiles
<1> QED BY <1>1, AlwaysDecided, PTL

-----------------------------------------------------------------------------
(* Claim commands                                                          *)

IsCreateOf(c, store, w) ==
  /\ c.cmd = "create" /\ CreateAllowed(c, store)
  /\ w.previous = store.claims
  /\ w.next = {s \in store.claims : s.id # c.request.id} \cup {ClaimOfRequest(c.request)}

(* The only command that writes is a create, which writes once, after it   *)
(* has read the store and found the claim allowed.                         *)
LEMMA OnlyCreatesWrite ==
  ASSUME NEW c, NEW async, NEW store, NEW w \in RunClaimCommand(c, async, store).effect,
         c.cmd \in {"list", "check", "access", "create"}
  PROVE  IsCreateOf(c, store, w)
<1> DEFINE claim == ClaimOfRequest(c.request)
           took == IF c.backend.write = "ok"
                     THEN {[previous |-> store.claims,
                            next |-> {s \in store.claims : s.id # claim.id} \cup {claim}]}
                     ELSE {}
<1>1. CommandEnds("refused", {}).effect = {} /\ \A o, k : CommandEnds(o, k).effect = {}
  BY DEF CommandEnds
<1>2. w \in CreateStored(c, async, store).effect /\ c.cmd = "create"
  <2>1. \A k \in {"list", "check", "access"} : c.cmd = k => RunClaimCommand(c, async, store).effect = {}
    BY <1>1 DEF RunClaimCommand, ListStored, CheckStored, AccessStored
  <2>2. c.cmd = "create"
    BY <2>1
  <2> QED BY <1>1, <2>2 DEF RunClaimCommand
<1>3. \A d : [d EXCEPT !.outcome = "thrown", !.created = FALSE].effect = d.effect
  OBVIOUS
<1>4. w \in WriteStore(c, async, store).effect /\ CreateAllowed(c, store)
  BY <1>1, <1>2, <1>3 DEF CreateStored
<1>5. WriteStore(c, async, store).effect \subseteq took
  BY <1>1 DEF WriteStore, CommandEnds
<1>6. claim.id = c.request.id
  BY DEF ClaimOfRequest
<1> QED BY <1>2, <1>4, <1>5, <1>6 DEF IsCreateOf

LEMMA KeptStore ==
  ASSUME NEW c \in ClaimCommandCases, NEW async, CreateAllowed(c, ReadStore(c, async))
  PROVE  ReadStore(c, async).claims = {e.claim : e \in c.entries}
<1>1. ReadStore(c, async).clean
  BY DEF CreateAllowed
<1>2. ReadStore(c, async).claims = Whole(c.entries) /\ \A e \in c.entries : e.whole
  BY <1>1 DEF ReadStore, NothingRead
<1> QED BY <1>2 DEF Whole

LEMMA ConflictIsMutual ==
  ASSUME NEW layout, NEW left, NEW right,
         \A p \in left.paths \cup right.paths : IsPathText(p), ClaimsConflict(layout, left, right)
  PROVE  ClaimsConflict(layout, right, left)
<1>1. \A p \in left.paths, q \in right.paths : Overlaps(p, q) => Overlaps(q, p)
  BY OverlapsAreMutual
<1> QED BY <1>1 DEF ClaimsConflict

(* One claim more, with an id of its own and no conflict, leaves the claims *)
(* valid.                                                                   *)
LEMMA OneMoreClaim ==
  ASSUME NEW layout, NEW claims, NEW claim, ClaimsOk(layout, claims), ClaimCellsValid(layout, claim),
         \A s \in ActiveClaims(claims) : ~ClaimsConflict(layout, s, claim),
         \A s \in claims \cup {claim} : \A p \in s.paths : IsPathText(p)
  PROVE  ClaimsOk(layout, claims \cup {claim})
<1> SUFFICES ASSUME NEW c \in ActiveClaims(claims \cup {claim}), NEW d \in ActiveClaims(claims \cup {claim}),
                    c.id # d.id, ClaimsConflict(layout, c, d)
             PROVE  FALSE
  BY DEF ClaimsOk
<1>1. c \in claims \cup {claim} /\ d \in claims \cup {claim} /\ (c \in claims => c \in ActiveClaims(claims))
      /\ (d \in claims => d \in ActiveClaims(claims))
  BY DEF ActiveClaims
<1>2. ~(c \in claims /\ d \in claims)
  BY <1>1 DEF ClaimsOk
<1>3. ~(c \in claims /\ d = claim)
  BY <1>1
<1>4. ~(c = claim /\ d \in claims)
  <2>1. ClaimsConflict(layout, d, c)
    BY <1>1, ConflictIsMutual
  <2> QED BY <1>1, <2>1
<1> QED BY <1>1, <1>2, <1>3, <1>4

LEMMA StoreKept == CommandsDecided => ClaimsAreKept
<1> SUFFICES ASSUME CommandsDecided, Is("claim command"), NEW async \in BOOLEAN, NEW w \in answer[async].effect
             PROVE  /\ w.previous = {e.claim : e \in input.entries}
                    /\ w.previous \subseteq w.next /\ Cardinality(w.next \ w.previous) = 1
                    /\ StaysClean(w, [claims \in {w.previous, w.next} |-> ClaimsOk(input.layout, claims)])
  BY DEF ClaimsAreKept
<1> DEFINE store == ReadStore(input, async)
           claim == ClaimOfRequest(input.request)
<1>1. /\ input \in ClaimCommandCases /\ input.cmd \in {"list", "check", "access", "create"}
      /\ \A e \in input.entries : \A p \in e.claim.paths : IsPathText(p)
      /\ input.cmd = "create" => \A p \in input.request.paths : IsPathText(p)
  BY ClaimCommandAssumption DEF CommandsDecided
<1>2. answer[async] = RunClaimCommand(input, async, store)
  BY DEF CommandsDecided, ClaimCommandForms
<1>3. /\ input.cmd = "create" /\ CreateAllowed(input, store) /\ w.previous = store.claims
      /\ w.next = {s \in store.claims : s.id # input.request.id} \cup {claim}
  <2>1. w \in RunClaimCommand(input, async, store).effect
    BY <1>2
  <2> HIDE DEF store, claim
  <2>2. IsCreateOf(input, store, w)
    BY <1>1, <2>1, OnlyCreatesWrite, Zenon
  <2> QED BY <2>2 DEF claim, IsCreateOf
<1>4. store.claims = {e.claim : e \in input.entries}
  BY <1>1, <1>3, KeptStore
<1>5. claim.id = input.request.id /\ claim.paths = input.request.paths
  BY DEF ClaimOfRequest
<1> HIDE DEF store, claim
<1>6. \A s \in store.claims : s.id # input.request.id
  BY <1>3 DEF CreateAllowed
<1>7. w.next = w.previous \cup {claim} /\ claim \notin w.previous
  BY <1>3, <1>5, <1>6
<1>8. Cardinality(w.next \ w.previous) = 1
  <2>1. w.next \ w.previous = {claim}
    BY <1>7
  <2> QED BY <2>1, FS_Singleton
<1>9. ClaimsOk(input.layout, w.previous) => ClaimsOk(input.layout, w.next)
  <2>1. ClaimCellsValid(input.layout, claim) /\ \A s \in ActiveClaims(w.previous) : ~ClaimsConflict(input.layout, s, claim)
    BY <1>3 DEF CreateAllowed, claim
  <2>2. \A s \in w.previous \cup {claim} : \A p \in s.paths : IsPathText(p)
    BY <1>1, <1>3, <1>4, <1>5
  <2>3. ClaimsOk(input.layout, w.previous) => ClaimsOk(input.layout, w.previous \cup {claim})
    BY <2>1, <2>2, OneMoreClaim, Zenon
  <2> QED BY <1>7, <2>3
<1>10. StaysClean(w, [claims \in {w.previous, w.next} |-> ClaimsOk(input.layout, claims)])
  BY <1>9 DEF StaysClean
<1> QED BY <1>3, <1>4, <1>7, <1>8, <1>10

LEMMA ReportsTrue == CommandsDecided => ClaimReportsAreTrue
<1> SUFFICES ASSUME CommandsDecided, Is("claim command"), NEW async \in BOOLEAN
             PROVE  ReportIsTrue(input, async, RunClaimCommand(input, async, ReadStore(input, async)))
  BY DEF ClaimReportsAreTrue, CommandsDecided, ClaimCommandForms
<1> DEFINE store == ReadStore(input, async)
           a == RunClaimCommand(input, async, store)
           done == IF CreateAllowed(input, store) THEN WriteStore(input, async, store)
                   ELSE CommandEnds("refused", store.claims)
<1>1. input.cmd \in {"list", "check", "access", "create"}
      /\ input.backend.promise \in BOOLEAN /\ input.backend.write \in {"ok", "conflict", "fails"}
  BY ClaimCommandAssumption DEF CommandsDecided
<1>2. store.clean => input.backend.read = "state" /\ \A e \in input.entries : e.whole
  BY DEF ReadStore, NothingRead
<1> HIDE DEF store
<1>3. /\ \A o, k : /\ CommandEnds(o, k).outcome = o /\ CommandEnds(o, k).effect = {}
                   /\ CommandEnds(o, k).created = FALSE
      /\ \A x : Verdict(x) = "ok" => x
  BY DEF CommandEnds, Verdict
<1>4. ASSUME input.cmd \in {"list", "check", "access"} PROVE ReportIsTrue(input, async, a)
  <2>1. /\ a.effect = {} /\ a.created = FALSE /\ (a.outcome = "ok" => store.clean)
    <3>1. \/ a = CommandEnds("refused", {}) \/ a = CommandEnds("configuration", {})
          \/ a = ListStored(input, store) \/ a = CheckStored(input, store) \/ a = AccessStored(input, store)
      BY <1>4 DEF RunClaimCommand
    <3> DEFINE harmless(x) == x.effect = {} /\ x.created = FALSE /\ (x.outcome = "ok" => store.clean)
    <3>2. harmless(CommandEnds("refused", {})) /\ harmless(CommandEnds("configuration", {}))
      BY DEF CommandEnds
    <3>3. harmless(ListStored(input, store))
      BY DEF ListStored, CommandEnds, Verdict
    <3>4. harmless(CheckStored(input, store))
      BY DEF CheckStored, CommandEnds, Verdict
    <3>5. harmless(AccessStored(input, store))
      BY DEF AccessStored, CommandEnds, Verdict
    <3> HIDE DEF a
    <3> QED BY <3>1, <3>2, <3>3, <3>4, <3>5
  <2> HIDE DEF a
  <2> QED BY <1>2, <1>4, <2>1 DEF ReportIsTrue
<1>5. ASSUME input.cmd = "create" PROVE ReportIsTrue(input, async, a)
  <2>1. /\ done.outcome = "ok" => store.clean /\ done.created = TRUE /\ done.effect # {}
        /\ done.effect # {} => done.created = TRUE \/ (input.backend.promise /\ ~async)
    BY <1>1, <1>3 DEF WriteStore, CommandEnds, CreateAllowed
  <2>2. \/ a.outcome # "ok" /\ a.effect = {}
        \/ a = done
        \/ a = [done EXCEPT !.outcome = "thrown", !.created = FALSE] /\ input.backend.release = "fails" /\ async
    <3>1. a = CommandEnds("refused", {}) \/ a = CommandEnds("configuration", {}) \/ a = CreateStored(input, async, store)
      BY <1>5 DEF RunClaimCommand
    <3>2. \/ CreateStored(input, async, store) = CommandEnds("refused", {})
          \/ CreateStored(input, async, store) = done
          \/ /\ CreateStored(input, async, store) = [done EXCEPT !.outcome = "thrown", !.created = FALSE]
             /\ input.backend.release = "fails" /\ async
      BY DEF CreateStored
    <3>3. \A o : o # "ok" => CommandEnds(o, {}).outcome # "ok" /\ CommandEnds(o, {}).effect = {}
      BY DEF CommandEnds
    <3> DEFINE made == CreateStored(input, async, store)
               thrown == [done EXCEPT !.outcome = "thrown", !.created = FALSE]
    <3>4. /\ CommandEnds("refused", {}).outcome # "ok" /\ CommandEnds("refused", {}).effect = {}
          /\ CommandEnds("configuration", {}).outcome # "ok" /\ CommandEnds("configuration", {}).effect = {}
      BY <3>3
    <3>5. a = CommandEnds("refused", {}) \/ a = CommandEnds("configuration", {}) \/ a = made
      BY <3>1
    <3>6. made = CommandEnds("refused", {}) \/ made = done \/ (made = thrown /\ input.backend.release = "fails" /\ async)
      BY <3>2
    <3> HIDE DEF a, done, made, thrown
    <3>7. (a.outcome # "ok" /\ a.effect = {}) \/ a = done \/ (a = thrown /\ input.backend.release = "fails" /\ async)
      BY <3>4, <3>5, <3>6, Zenon
    <3> QED BY <3>7, Zenon DEF thrown
  <2>3. [done EXCEPT !.outcome = "thrown", !.created = FALSE].outcome = "thrown"
    BY DEF WriteStore, CommandEnds
  <2> HIDE DEF a, done
  <2> QED BY <1>2, <1>5, <2>1, <2>2, <2>3 DEF ReportIsTrue
<1> QED BY <1>1, <1>4, <1>5 DEF store

LEMMA Agree == CommandsDecided => FormsAgree
<1> SUFFICES ASSUME CommandsDecided, Is("claim command"), ~input.backend.promise,
                    input.cmd = "create" => LockByFile(input)
             PROVE  answer[FALSE] = answer[TRUE]
  BY DEF FormsAgree
<1> DEFINE store == ReadStore(input, FALSE)
<1>1. ReadStore(input, TRUE) = store
  BY DEF ReadStore
<1>2. /\ answer[FALSE] = RunClaimCommand(input, FALSE, store)
      /\ answer[TRUE] = RunClaimCommand(input, TRUE, store)
      /\ input.cmd \in {"list", "check", "access", "create"}
  BY <1>1, ClaimCommandAssumption DEF CommandsDecided, ClaimCommandForms
<1> HIDE DEF store
<1>3. ASSUME input.cmd = "create" PROVE CreateStored(input, FALSE, store) = CreateStored(input, TRUE, store)
  <2>1. WriteStore(input, FALSE, store) = WriteStore(input, TRUE, store)
    BY DEF WriteStore
  <2>2. LockOutcome(input, FALSE) = input.fileLock
    BY DEF LockOutcome
  <2>3. ASSUME input.backend.id = "local-file" PROVE CreateStored(input, FALSE, store) = CreateStored(input, TRUE, store)
    <3>1. LockOutcome(input, TRUE) = input.fileLock
      BY <2>3 DEF LockOutcome
    <3> QED BY <2>1, <2>2, <2>3, <3>1 DEF CreateStored
  <2>4. ASSUME input.backend.id # "local-file" PROVE CreateStored(input, FALSE, store) = CreateStored(input, TRUE, store)
    <3>1. LockOutcome(input, TRUE) = "none" /\ input.fileLock = "held"
      BY <1>3, <2>4 DEF LockOutcome, LockByFile
    <3> QED BY <2>1, <2>2, <3>1 DEF CreateStored
  <2> QED BY <2>3, <2>4
<1>4. RunClaimCommand(input, FALSE, store) = RunClaimCommand(input, TRUE, store)
  BY <1>2, <1>3 DEF RunClaimCommand
<1> QED BY <1>2, <1>4

-----------------------------------------------------------------------------
(* Where a write goes                                                      *)

LEMMA WritesLand == WritePathsDecided => WritesLandWhereJudged
<1> DEFINE asked == IF input.request.absolute THEN input.request.path ELSE input.root \o input.request.path
           A == Seq(Letter)
           canonical == CanonicalPath(input.tree, ResolvePath(asked))
           root == CanonicalPath(input.tree, input.root)
<1> SUFFICES ASSUME WritePathsDecided, Is("write path"), answer.allowed, ~Contains(asked, DotDot),
                    \A p \in DOMAIN input.tree : PathExists(input.tree, p)
             PROVE  Reached(input.tree, asked) = Reached(input.tree, input.root) \o answer.path
  BY DEF WritesLandWhereJudged
<1>1. input \in WritePathCases /\ answer = NormalizeWritePath(input)
  BY DEF WritePathsDecided
<1>2. /\ input.root \in Seq(A) /\ input.request.path \in Seq(A)
      /\ ~Contains(input.root, Dot) /\ ~Contains(input.root, DotDot)
      /\ IsWholeTree(input.tree, A)
  BY <1>1, WritePathAssumption DEF IsPathText, IsWholeTree
<1>3. asked \in Seq(A)
  BY <1>2, ConcatProperties
<1>4. \A i \in 1..Len(asked) : asked[i] # DotDot
  <2> HIDE DEF asked
  <2> QED BY DEF Contains
<1>5. \A i \in 1..Len(input.root) : input.root[i] \notin {Dot, DotDot}
  BY <1>2 DEF Contains
<1>6. canonical = Reached(input.tree, asked)
  <2> HIDE DEF asked, A
  <2> QED BY <1>2, <1>3, <1>4, CanonicalIsReached
<1>7. ResolvePath(input.root) = input.root
  <2> HIDE DEF A
  <2> QED BY <1>2, <1>5, PlainPathStays
<1>8. root = Reached(input.tree, input.root)
  <2>1. CanonicalPath(input.tree, ResolvePath(input.root)) = Reached(input.tree, input.root)
    <3> HIDE DEF A
    <3> QED BY <1>2, <1>5, CanonicalIsReached
  <2> QED BY <1>7, <2>1
<1>9. answer = JudgePath(canonical, root)
  <2>1. answer.allowed # FALSE
    OBVIOUS
  <2> QED BY <1>1, <2>1 DEF NormalizeWritePath, TargetOf
<1>10. /\ Len(canonical) > Len(root) /\ SubSeq(canonical, 1, Len(root)) = root
       /\ answer.path = SubSeq(canonical, Len(root) + 1, Len(canonical))
  <2> HIDE DEF canonical, root
  <2> QED BY <1>9 DEF JudgePath
<1>11. canonical \in Seq(A) /\ root \in Seq(A)
  <2> HIDE DEF A, asked
  <2>1. input.tree \in [DOMAIN input.tree -> Seq(A)]
    BY <1>2 DEF IsWholeTree
  <2> QED BY <1>2, <1>3, <1>6, <1>8, <2>1, ReachedType
<1>12. canonical = root \o answer.path
  <2> HIDE DEF canonical, root, A
  <2> QED BY <1>10, <1>11, RestOfPath
<1> QED BY <1>6, <1>8, <1>12

-----------------------------------------------------------------------------
(* How long a claim lasts, and what a claim check looks at                 *)

LEMMA TtlIsBounded ==
  ASSUME NEW ttl, ttl.form = "plain" => ttl.amount \in Nat /\ ttl.unit \in DOMAIN MinutesOf
  PROVE  TtlMinutes(ttl) \in Nat /\ TtlMinutes(ttl) <= MaxClaimMinutes
<1>1. DOMAIN MinutesOf = {"m", "h", "d"} /\ MinutesOf["m"] = 1 /\ MinutesOf["h"] = 60 /\ MinutesOf["d"] = 1440
  BY DEF MinutesOf
<1>2. \A u \in DOMAIN MinutesOf : MinutesOf[u] \in {1, 60, 1440}
  BY <1>1
<1>3. \A n \in Nat, u \in DOMAIN MinutesOf : n * MinutesOf[u] \in Nat
  BY <1>2
<1>4. MaxClaimMinutes \in Nat
  BY <1>1 DEF MaxClaimMinutes
<1> QED BY <1>3, <1>4 DEF TtlMinutes

LEMMA WithinBound == \A t : t \in Nat /\ t <= MaxClaimMinutes /\ t > 0 => t \in 1..MaxClaimMinutes
<1>1. MaxClaimMinutes \in Nat
  BY DEF MaxClaimMinutes, MinutesOf
<1> QED BY <1>1

LEMMA RunOut == ExpiriesDecided => ClaimsRunOut
<1> SUFFICES ASSUME ExpiriesDecided, Is("claim expiry"), answer.valid, ~input.expires.given
             PROVE  answer.after \in 1..MaxClaimMinutes
  BY DEF ClaimsRunOut
<1> DEFINE ttl == IF input.ttl.form = "none" THEN DefaultTtl ELSE input.ttl
<1>1. answer = [valid |-> TtlMinutes(ttl) > 0, after |-> TtlMinutes(ttl)]
  BY DEF ExpiriesDecided, ClaimExpiry
<1>2. ttl.form = "plain" => ttl.amount \in Nat /\ ttl.unit \in DOMAIN MinutesOf
  BY ExpiryAssumption DEF ExpiriesDecided, DefaultTtl, MinutesOf
<1>3. TtlMinutes(ttl) \in Nat /\ TtlMinutes(ttl) <= MaxClaimMinutes
  BY <1>2, TtlIsBounded
<1>4. \A t : t \in Nat /\ t <= MaxClaimMinutes /\ t > 0 => t \in 1..MaxClaimMinutes
  BY WithinBound
<1> QED BY <1>1, <1>3, <1>4

LEMMA Swept == SweepsDecided => ChangesAreSwept
<1> SUFFICES ASSUME SweepsDecided, Is("claim sweep") PROVE ChangesAreSwept
  BY DEF ChangesAreSwept
<1>1. /\ answer = SweptFiles(input) /\ input.mode \in {"work tree", "range", "open range"}
      /\ DOMAIN input.base = DOMAIN input.tree /\ DOMAIN input.head = DOMAIN input.tree
      /\ DOMAIN input.index = DOMAIN input.tree
  BY SweepAssumption DEF SweepsDecided
<1>2. \A f \in DOMAIN input.tree : TrackedTree(input)[f] # input.tree[f] => f \in UntrackedFiles(input)
  BY DEF TrackedTree, UntrackedFiles
<1>3. ASSUME NEW old, NEW new, NEW f \in DOMAIN old, old[f] # new[f], f \notin MovedAway(old, new)
      PROVE  f \in DiffedFiles(old, new, TRUE) /\ (f \in DiffedFiles(old, new, FALSE) \/ f \in Retyped(old, new))
  BY <1>3 DEF DiffedFiles
<1>4. DOMAIN TrackedTree(input) = DOMAIN input.tree
  BY DEF TrackedTree
<1>5. ASSUME input.mode = "work tree" PROVE ChangesAreSwept
  BY <1>1, <1>2, <1>3, <1>4, <1>5 DEF ChangesAreSwept, SweptFiles
<1>6. ASSUME input.mode = "range" PROVE ChangesAreSwept
  BY <1>1, <1>3, <1>6 DEF ChangesAreSwept, SweptFiles
<1>7. ASSUME input.mode = "open range" PROVE ChangesAreSwept
  BY <1>1, <1>2, <1>3, <1>4, <1>7 DEF ChangesAreSwept, SweptFiles
<1> QED BY <1>1, <1>5, <1>6, <1>7

(* What the claim commands say is true and what they write is kept, an      *)
(* allowed write goes where it was judged, a claim by duration runs out and *)
(* a claim check looks at what changed, with the exceptions the properties  *)
(* name and no others.                                                      *)
THEOREM ClaimCommandsAreAlwaysTrue == Spec => []ClaimCommandsAreTrue
<1>1. Decided => ClaimCommandsAreTrue
  BY StoreKept, ReportsTrue, Agree, WritesLand, RunOut, Swept DEF Decided, ClaimCommandsAreTrue
<1> QED BY <1>1, AlwaysDecided, PTL
-----------------------------------------------------------------------------
(* Claims of precision *)

(* A claim passes only when it was earned.                                  *)
LEMMA EarnedClaim ==
  ASSUME ClaimsJudged
  PROVE  PassingClaimsAreEarned
<1> SUFFICES ASSUME Is("precision claim"), answer.status = "pass" PROVE PassingClaimsAreEarned
  BY DEF PassingClaimsAreEarned
<1> DEFINE b == input.bundle
           p == NormalizeProtocol(input.protocol)
           counted == ClaimFindings(b, p)
           dirs == input.worklists
           known == {f.findingId : f \in b.findings}
<1>1. input \in PrecisionCases /\ EvaluateClaim(input) = "pass"
  <2>1. \A x, y : [status |-> x, ready |-> y].status = x
    BY Zenon
  <2>2. \E x : answer = [status |-> EvaluateClaim(input), ready |-> x]
    BY Zenon DEF ClaimsJudged
  <2> QED BY <2>1, <2>2 DEF ClaimsJudged
<1>2. ClaimIsValid(input.protocol, p, b, dirs) /\ ClaimGates(p, b, dirs)
  BY <1>1, PassMeans
<1>3. ClaimStands(b, p, dirs, known)
  BY <1>1, PassStands
<1>4. b.harness = "clean" /\ b.commit = p.toolCommit
  BY <1>2 DEF ClaimIsValid, BundleMeetsProtocol, ClaimGates
<1>5. ASSUME NEW f \in counted
      PROVE  /\ FinalLabels(b.labels, f.findingId, p.raters) # {} /\ AdjudicatorsApart(b.labels, f.findingId)
             /\ p.external => ExternallyCovered(b.labels, f.findingId, p)
  <2> HIDE DEF p, b, dirs
  <2> QED BY <1>2 DEF ClaimIsValid, ClaimGates
<1> HIDE DEF known, dirs, p, b
<1>6. ASSUME NEW f \in counted
      PROVE  LET blind == BlindOn(b.labels, f.findingId)
             IN /\ Cardinality({l.rater : l \in blind}) = 2 /\ Cardinality(blind) = 2
                /\ {l.round : l \in blind} = BlindRounds
                /\ \A l \in RowsOn(b.labels, f.findingId) :
                     /\ \E k \in DOMAIN dirs : p.worklists[k] = dirs[k].seal /\ AssignedBy(dirs[k], l)
                     /\ l.reasoned /\ MetadataHolds(l, TRUE)
                /\ \A l \in blind : ~l.sawPeerLabels /\ ~l.sourceHasLabels
  BY <1>3, <1>5, BlindRowsSay
<1>7. ASSUME NEW f \in counted
      PROVE  LET blind == BlindOn(b.labels, f.findingId)
             IN /\ Cardinality({l.label : l \in blind}) = 2 =>
                     \E l \in RowsOn(b.labels, f.findingId) \ blind : l.sawPeerLabels /\ l.rater \notin {x.rater : x \in blind}
                /\ ExternallyCovered(b.labels, f.findingId, p) => \E l \in blind : l.raterType \in p.externalTypes
  BY <1>3, <1>5, OthersSay
<1>8. LET judged(labels) == {f \in counted : \E l \in DecisiveOn(b.labels, f.findingId) : l.label \in labels}
      IN /\ Cardinality(judged({"true_positive"})) * p.minimum[2] >= p.minimum[1] * Cardinality(judged(BlockingLabels))
         /\ \A f \in counted :
              10 * Cardinality({g \in counted : RepositoryOf(g) = RepositoryOf(f)}) <= Cardinality(counted)
  BY <1>1, PassCounts DEF p, b
<1> HIDE DEF counted
<1> QED BY <1>4, <1>5, <1>6, <1>7, <1>8, Zenon DEF PassingClaimsAreEarned, counted, b, p, dirs

(* Readiness and the claim agree.                                           *)
LEMMA ReadinessAgrees ==
  ASSUME ClaimsJudged
  PROVE  ReadinessAgreesWithClaim
<1> SUFFICES ASSUME Is("precision claim") PROVE ReadinessAgreesWithClaim
  BY DEF ReadinessAgreesWithClaim
<1> DEFINE b == input.bundle
           labels == b.labels
           dirs == input.worklists
           p == NormalizeProtocol(input.protocol)
           counted == ClaimFindings(b, p)
           sampled == {f \in b.findings : f.findingId \in b.sampled /\ f.precisionEligible}
           known == {f.findingId : f \in b.findings}
<1>1. input \in PrecisionCases
  BY DEF ClaimsJudged
<1>2. answer.status = EvaluateClaim(input)
  <2>1. \A x, y : [status |-> x, ready |-> y].status = x
    BY Zenon
  <2> QED BY <2>1, Zenon DEF ClaimsJudged
<1>3. answer.ready = LabelsAreReady(b, dirs)
  <2>1. \A x, y : [status |-> x, ready |-> y].ready = y
    BY Zenon
  <2> QED BY <2>1, Zenon DEF ClaimsJudged
<1>4. labels \in Seq(Range(labels))
  BY <1>1, PrecisionAssumption
<1>5. ASSUME EvaluateClaim(input) = "pass", counted = sampled
      PROVE  LabelsAreReady(b, dirs)
  <2>1. ClaimIsValid(input.protocol, p, b, dirs)
    BY <1>5, PassMeans
  <2> HIDE DEF p, b, dirs, labels, counted, sampled, known
  <2>2. RowsHold(b.labels, known, p.studyId) /\ b.studyId = p.studyId
    BY <2>1 DEF ClaimIsValid, BundleMeetsProtocol, known
  <2>3. WorklistsHold(b, p, dirs)
    BY <2>1 DEF ClaimIsValid
  <2>4. \A i \in DOMAIN dirs : WorklistVerifies(dirs[i], b.labels, Context(b))
    BY <2>2, <2>3, VerifiesWithLess DEF WorklistsHold
  <2>5. ASSUME NEW f \in sampled PROVE FindingIsLabeled(b.labels, f.findingId, 2)
    <3>1. f \in counted
      BY <1>5
    <3>2. FinalLabels(b.labels, f.findingId, p.raters) # {} /\ AdjudicatorsApart(b.labels, f.findingId)
      BY <2>1, <3>1 DEF ClaimIsValid, counted
    <3> QED BY <1>4, <2>2, <3>2, SettledIsLabeled DEF labels
  <2>6. \A f \in b.findings : f.findingId \in b.sampled /\ f.precisionEligible => FindingIsLabeled(b.labels, f.findingId, 2)
    BY <2>5, Zenon DEF sampled
  <2> QED BY <2>2, <2>3, <2>4, <2>6, Zenon DEF LabelsAreReady, WorklistsHold, known
<1>6. ASSUME LabelsAreReady(b, dirs), NEW f \in counted
      PROVE  FinalLabels(b.labels, f.findingId, 2) # {} /\ AdjudicatorsApart(b.labels, f.findingId)
  <2>1. f \in b.findings /\ f.findingId \in b.sampled /\ f.precisionEligible
    BY DEF ClaimFindings, Eligible
  <2>2. FindingIsLabeled(b.labels, f.findingId, 2)
    BY <1>6, <2>1 DEF LabelsAreReady
  <2> QED BY <1>4, <2>2, LabeledIsSettled
<1> QED BY <1>2, <1>3, <1>5, <1>6, Zenon DEF ReadinessAgreesWithClaim

(* Binding settles the digests of a protocol and nothing else.              *)
LEMMA BindingHoldsWhatItSays ==
  ASSUME ProtocolsBound
  PROVE  BindingSettles
<1> SUFFICES ASSUME Is("bind") PROVE BindingSettles
  BY DEF BindingSettles
<1> DEFINE p == input.protocol
           n == NormalizeProtocol(p)
<1>1. input \in BindCases /\ answer = BindWorklists(p, input.digests)
  BY DEF ProtocolsBound
<1>2. {"schema", "studyId", "claim", "top", "plan", "review", "share", "exclusions"} \subseteq DOMAIN p
      /\ <<>> \notin Range(input.digests)
  BY <1>1, BindAssumption
<1>3. NormalizeProtocol(answer) = [n EXCEPT !.worklists = input.digests]
  BY <1>1, <1>2, BoundReads
<1>4. answer.schema = p.schema /\ answer.exclusions = p.exclusions
  BY <1>1, <1>2, BoundKeeps
<1>5. ASSUME ProtocolHolds(p) PROVE ProtocolHolds(answer)
  <2>1. DOMAIN n = {"studyId", "metric", "toolCommit", "artifactSet", "preLabel", "rules", "severities", "exclusions",
                    "minimum", "confidence", "raters", "types", "nonHuman", "known", "external", "externalTypes",
                    "minimumExternal", "worklists", "manifestReview", "reviewerTypes", "share"}
    BY Zenon DEF NormalizeProtocol
  <2> HIDE DEF n
  <2> DEFINE a == NormalizeProtocol(answer)
  <2>2. /\ a.studyId = n.studyId /\ a.rules = n.rules /\ a.metric = n.metric /\ a.minimum = n.minimum
        /\ a.confidence = n.confidence /\ a.raters = n.raters /\ a.minimumExternal = n.minimumExternal
        /\ a.share = n.share /\ a.worklists = input.digests
    BY <1>3, <2>1
  <2> HIDE DEF a
  <2> QED BY <1>2, <1>4, <1>5, <2>2 DEF ProtocolHolds, a, n
<1> QED BY <1>3, <1>5 DEF BindingSettles

(* A claim of precision that passes was earned: two raters labelled every   *)
(* finding it counts, blind and from worklists its protocol seals, a third  *)
(* decided where they differ, and the labels that decide are true positives *)
(* as often as the protocol asks.                                           *)
THEOREM PassingClaimsAreAlwaysEarned == Spec => []PassingClaimsAreEarned
<1>1. Decided => PassingClaimsAreEarned
  BY EarnedClaim DEF Decided
<1> QED BY <1>1, AlwaysDecided, PTL

(* Readiness and the claim agree about every bundle, protocol and worklist. *)
THEOREM ReadinessAlwaysAgrees == Spec => []ReadinessAgreesWithClaim
<1>1. Decided => ReadinessAgreesWithClaim
  BY ReadinessAgrees DEF Decided
<1> QED BY <1>1, AlwaysDecided, PTL

(* Binding worklists to a protocol changes its digests and nothing else.    *)
THEOREM BindingAlwaysSettles == Spec => []BindingSettles
<1>1. Decided => BindingSettles
  BY BindingHoldsWhatItSays DEF Decided
<1> QED BY <1>1, AlwaysDecided, PTL

-----------------------------------------------------------------------------
(* The proxy                                                               *)

LEMMA LatestRules == LinesDecided => LatestDeclarationRules
<1> SUFFICES ASSUME LinesDecided, Is("line"), answer.status # "error" PROVE LatestDeclarationRules
  BY DEF LatestDeclarationRules
<1> DEFINE given == input.defaults \o Declarations(input.tokens)
           meant == {i \in DOMAIN given : SameName(given[i].name, input.tool)}
           paths == PathsFor(answer, input.tool, input.args)
<1>1. ParserHolds(input, answer, Declarations(input.tokens), Len(input.tokens)) /\ input.defaults \in Seq(Declaration)
  BY LineParsed, LineAssumption DEF LinesDecided
<1>2. given \in Seq(Declaration)
  BY <1>1, ConcatProperties DEF ParserHolds
<1>3. answer.writeTools \in Seq(Declaration) /\ AgreeOn(answer.writeTools, given, input.tool)
  BY <1>1 DEF ParserHolds
<1> HIDE DEF given
<1>4. DOMAIN given = 1..Len(given)
  BY <1>2, LenProperties
<1>5. ASSUME NEW i \in meant, \A j \in meant : j <= i
      PROVE  paths = UNION {input.args[k] : k \in given[i].keys}
  <2>1. LastDeclared(given, input.tool, given[i])
    <3>1. i \in 1..Len(given) /\ SameName(given[i].name, input.tool)
      BY <1>4
    <3>2. ASSUME NEW j \in 1..Len(given), j > i PROVE ~SameName(given[j].name, input.tool)
      BY <1>2, <1>4, <1>5, <3>1, <3>2, LenProperties
    <3> QED BY <3>1, <3>2 DEF LastDeclared
  <2>2. LastDeclared(answer.writeTools, input.tool, given[i])
    BY <1>3, <2>1 DEF AgreeOn
  <2>3. paths = Found(input.args, given[i].keys)
    BY <1>3, <2>2, PathsOfLatest
  <2> QED BY <2>3 DEF Found
<1>6. ASSUME meant = {} PROVE paths = Undefined
  <2>1. ~DeclaredFor(given, input.tool)
    BY <1>4, <1>6 DEF DeclaredFor
  <2>2. ~DeclaredFor(answer.writeTools, input.tool)
    BY <1>3, <2>1 DEF AgreeOn
  <2> QED BY <1>3, <2>2, PathsOfLatest
<1> HIDE DEF meant, paths
<1>7. /\ \A i \in meant : (\A j \in meant : j <= i) => paths = UNION {input.args[k] : k \in given[i].keys}
      /\ meant = {} => paths = Undefined
  BY <1>5, <1>6
<1> QED BY <1>7 DEF LatestDeclarationRules, given, meant, paths

LEMMA LenientByName == LinesDecided => LenientOnlyByName
<1> SUFFICES ASSUME LinesDecided, Is("line"), answer.status # "error",
                    NEW g \in Guards, answer[g] \in Lenient
             PROVE  \/ answer[g] = input.env[g]
                    \/ \E i \in DOMAIN input.tokens : NamedBy(SettingAt(input.tokens, i), g, answer[g])
  BY DEF LenientOnlyByName
<1>1. ParserHolds(input, answer, Declarations(input.tokens), Len(input.tokens)) /\ input.tokens \in Seq(TokenSet)
  BY LineParsed, LineAssumption DEF LinesDecided
<1>2. DOMAIN input.tokens = 1..Len(input.tokens)
  BY <1>1, LenProperties
<1> QED BY <1>1, <1>2 DEF ParserHolds

LEMMA Hidden == CallsDecided => HiddenIsDenied
<1> SUFFICES ASSUME CallsDecided, Is("call"), ~Exposed(input.options, input.tool)
             PROVE  ~answer.forward
  BY DEF HiddenIsDenied
<1> DEFINE o == input.options
<1>1. /\ o \in Options /\ o.mode = "enforce" /\ o.unknown = "deny"
      /\ ~IsWriteTool(o, input.tool) /\ ~IsReadTool(o, input.tool)
  BY LineAssumption DEF Exposed, CallsDecided, Options
<1>2. PathsFor(o, input.tool, input.args) = Undefined
  BY <1>1 DEF PathsFor
<1>3. Decide(o, input.tool, input.args, input.verdict) = Outcome(FALSE, "deny")
  BY <1>1, <1>2 DEF Decide, RefusedUnknown
<1> QED BY <1>3 DEF CallsDecided, Outcome

LEMMA DryRun == CallsDecided => DryRunForetells
<1> SUFFICES ASSUME CallsDecided, Is("call"), input.options.mode = "dry-run" PROVE DryRunForetells
  BY DEF DryRunForetells
<1> DEFINE o == input.options
           e == [o EXCEPT !.mode = "enforce", !.failMode = "closed"]
           enforced == Decide(e, input.tool, input.args, input.verdict)
<1>1. o \in Options /\ answer = Decide(o, input.tool, input.args, input.verdict)
  BY LineAssumption DEF CallsDecided
<1>2. e.mode = "enforce" /\ e.failMode = "closed" /\ e.unknown = o.unknown /\ e.writeTools = o.writeTools
      /\ e.readTools = o.readTools
  BY <1>1 DEF Options
<1> HIDE DEF e
<1>3. PathsFor(e, input.tool, input.args) = PathsFor(o, input.tool, input.args)
      /\ (IsReadTool(e, input.tool) <=> IsReadTool(o, input.tool))
  BY <1>2 DEF PathsFor, IsWriteTool, IsReadTool
<1> DEFINE paths == PathsFor(o, input.tool, input.args)
<1>4. answer = IF paths = Undefined
                 THEN IF o.unknown = "deny" /\ ~IsReadTool(o, input.tool)
                        THEN Outcome(TRUE, "dry-run-deny") ELSE Outcome(TRUE, "allow")
               ELSE IF paths # {} /\ input.verdict = "ok" THEN Outcome(TRUE, "allow")
               ELSE Outcome(TRUE, "dry-run-deny")
  BY <1>1 DEF Decide, RefusedUnknown, RefusedWrite
<1>5. enforced = IF paths = Undefined
                   THEN IF o.unknown = "deny" /\ ~IsReadTool(o, input.tool)
                          THEN Outcome(FALSE, "deny") ELSE Outcome(TRUE, "allow")
                 ELSE IF paths # {} /\ input.verdict = "ok" THEN Outcome(TRUE, "allow")
                 ELSE Outcome(FALSE, "deny")
  BY <1>2, <1>3 DEF Decide, RefusedUnknown, RefusedWrite
<1> HIDE DEF paths, enforced
<1>6. answer.forward /\ answer.audit = IF enforced.forward THEN "allow" ELSE "dry-run-deny"
  BY <1>4, <1>5 DEF Outcome
<1> QED BY <1>6 DEF DryRunForetells, enforced, e

(* The proxy: hidden tools are refused, a dry run foretells enforcement,    *)
(* the latest declaration of a tool counts, however long the line and       *)
(* however often the tool is declared, and nothing is lenient unless told   *)
(* so.                                                                      *)
THEOREM ProxyAlwaysDecides == Spec => []ProxyDecides
<1>1. Decided => ProxyDecides
  BY Hidden, DryRun, LatestRules, LenientByName DEF Decided, ProxyDecides
<1> QED BY <1>1, AlwaysDecided, PTL

-----------------------------------------------------------------------------
(* Documents and what is recorded                                          *)

LEMMA AcceptedStaysWorkable == DocumentsDecided => AcceptedIsWorkable
<1> SUFFICES ASSUME DocumentsDecided, Is("document"), input.type = "manifest", answer
             PROVE  AcceptedIsWorkable
  BY DEF AcceptedIsWorkable
<1> DEFINE v == input.value
           cells == At(v, "cells").list
           named(id) == {i \in DOMAIN cells : At(cells[i], "id") = id}
           listed(x, k) == IF Given(x, "externalDependencies") THEN Range(CopyOf(At(x, "externalDependencies"), k)) ELSE {}
<1>1. input \in DocumentCases /\ ValidManifest(v)
  BY DEF DocumentsDecided, Validated
<1>2. ManifestTaken(v)
  BY <1>1, ManifestsAreAccepted
<1> HIDE DEF v
<1>3. /\ cells \in Seq(Range(cells)) /\ CellsAgree(cells) /\ \A x \in Range(cells) : ValidCell(x)
  BY <1>2, Zenon DEF ManifestTaken, Each
<1> HIDE DEF cells
<1>4. Unique(IdsOfCells(cells))
  BY <1>3, Zenon DEF CellsAgree, IdsOfCells
<1>5. ASSUME NEW c \in Range(cells) PROVE Cardinality(named(At(c, "id"))) = 1
  <2>1. PICK i \in DOMAIN cells : cells[i] = c
    BY <1>5 DEF Range
  <2> QED BY <1>3, <1>4, <2>1, IdsInPlace
<1>6. ASSUME NEW c \in Range(cells), NEW u \in Range(CopyOf(c, "consumes")) PROVE Cardinality(named(At(u, "cell"))) = 1
  <2>1. Given(c, "consumes") /\ u \in Range(At(c, "consumes").list)
    <3>1. Range(<<>>) = {}
      BY DEF Range
    <3> QED BY <1>6, <3>1 DEF CopyOf
  <2>2. PICK d \in Range(cells) : At(d, "id") = At(u, "cell")
    BY <1>3, <2>1, Zenon DEF CellsAgree, Opt
  <2>3. Cardinality(named(At(d, "id"))) = 1
    BY <1>5
  <2> QED BY <2>2, <2>3
<1>7. ASSUME NEW c \in Range(cells), NEW d \in Range(cells) PROVE listed(c, "allow") \cap listed(d, "claim") = {}
  <2>1. ASSUME NEW x \in Range(cells), NEW k \in {"allow", "claim"} PROVE listed(x, k) \subseteq Listing(cells, k)
    <3>1. CASE Given(x, "externalDependencies") /\ Given(At(x, "externalDependencies"), k)
      BY <2>1, <3>1 DEF Listing, CopyOf
    <3>2. CASE ~Given(x, "externalDependencies")
      BY <3>2
    <3>3. CASE Given(x, "externalDependencies") /\ ~Given(At(x, "externalDependencies"), k)
      BY <3>3 DEF CopyOf, Range
    <3> QED BY <3>1, <3>2, <3>3
  <2>2. Listing(cells, "allow") \cap Listing(cells, "claim") = {}
    BY <1>3 DEF CellsAgree
  <2> HIDE DEF listed
  <2> QED BY <2>1, <2>2
<1>8. \A seal \in Seals : ValidBaseline(BaselineOf(v, seal))
  BY <1>2, BaselineIsValid
<1>9. \A c \in Range(cells) :
        /\ Cardinality(named(At(c, "id"))) = 1
        /\ \A u \in Range(CopyOf(c, "consumes")) : Cardinality(named(At(u, "cell"))) = 1
  BY <1>5, <1>6
<1>10. \A c, d \in Range(cells) : listed(c, "allow") \cap listed(d, "claim") = {}
  BY <1>7
<1> QED BY <1>8, <1>9, <1>10 DEF AcceptedIsWorkable, Seals, v, cells

LEMMA TracesAreHonest == TracesDecided => TraceIsHonest
<1> SUFFICES ASSUME TracesDecided, Is("trace") PROVE TraceIsHonest
  BY DEF TraceIsHonest
<1> DEFINE c == input
           n == Len(input.events)
           state == Trace(input)
           s == state[n]
           w == answer
<1>1. c \in TraceCases /\ w = s.written
  BY DEF TracesDecided
<1>2. /\ n \in Nat /\ DOMAIN c.events = 1..n /\ TraceHolds(c, state, n)
      /\ c.env.cap \in Nat \ {0} /\ c.env.disabled \in BOOLEAN
  BY <1>1, TraceAlwaysHolds, TraceAssumption
<1>3. /\ ~s.flushed => w = <<>>
      /\ s.flushed => WrittenHolds(c, state, n, w)
      /\ \A j \in 1..n : NotedAt(c, state, j) =>
           \A k \in (j + 1)..n : c.events[k].do \in {"beforeExit", "exit"} => s.flushed
  BY <1>1, <1>2, Zenon DEF TraceHolds
<1>4. s.flushed => w # <<>>
  <2> SUFFICES ASSUME s.flushed PROVE w # <<>>
    OBVIOUS
  <2>1. w = [cell |-> c.env.cell, commit |-> c.env.commit, status |-> w.status, accesses |-> w.accesses]
    BY <1>3, Zenon DEF WrittenHolds
  <2>2. DOMAIN [cell |-> c.env.cell, commit |-> c.env.commit, status |-> w.status, accesses |-> w.accesses] # {}
    OBVIOUS
  <2>3. DOMAIN <<>> = {}
    OBVIOUS
  <2> HIDE DEF w
  <2> QED BY <2>1, <2>2, <2>3
<1> HIDE DEF c, n, state, s, w
<1>5. (\E i, k \in 1..n : NotedAt(c, state, i) /\ i < k /\ c.events[k].do \in {"beforeExit", "exit"}) => w # <<>>
  <2> SUFFICES ASSUME NEW i \in 1..n, NEW k \in 1..n, NotedAt(c, state, i), i < k, c.events[k].do \in {"beforeExit", "exit"}
               PROVE  w # <<>>
    OBVIOUS
  <2>1. k \in (i + 1)..n
    BY <1>2
  <2> QED BY <1>3, <1>4, <2>1, Zenon
<1>6. ASSUME w # <<>>
      PROVE  /\ w.status = "active" =>
                  \A i \in 1..n : NotedAt(c, state, i) /\ ~state[i - 1].flushed => AccessAt(c, i) \in w.accesses
             /\ Cardinality(w.accesses) <= c.env.cap
             /\ c.env.disabled => w.status # "active"
             /\ \/ DerivedStatus(w.status, w.accesses, c.env.disabled, TRUE) = w.status
                \/ w.accesses = {}
                \/ c.env.disabled
             /\ WellNamed(w) => ValidEvidence(Written(w))
  <2>1. WrittenHolds(c, state, n, w)
    BY <1>3, <1>6, Zenon
  <2>2. /\ w.status = "active" =>
             \A i \in 1..n : NotedAt(c, state, i) /\ ~state[i - 1].flushed => AccessAt(c, i) \in w.accesses
        /\ Cardinality(w.accesses) <= c.env.cap
        /\ c.env.disabled => w.status # "active"
    BY <2>1, Zenon DEF WrittenHolds
  <2>3. /\ w.status \in {"active", "inactive", "incomplete"} /\ (w.status = "inactive" => c.env.disabled)
        /\ w.accesses \subseteq Access /\ IsFiniteSet(w.accesses)
    BY <2>1, Zenon DEF WrittenHolds
  <2>4. \/ DerivedStatus(w.status, w.accesses, c.env.disabled, TRUE) = w.status
        \/ w.accesses = {}
        \/ c.env.disabled
    BY <2>3 DEF DerivedStatus
  <2>5. \A a \in w.accesses : a.kind \in ResourceContractKind /\ a.access \in ResourceAccessMode
    BY <2>3 DEF Access
  <2>6. WellNamed(w) => ValidEvidence(Written(w))
    BY <2>3, <2>5, WrittenIsValid
  <2> QED BY <2>2, <2>4, <2>6
<1> QED BY <1>2, <1>5, <1>6, Zenon DEF TraceIsHonest, c, n, state, w, NotedAt, AccessAt

LEMMA SpansStayHonest == SpansDecided => SpansAreHonest
<1> SUFFICES ASSUME SpansDecided, Is("spans") PROVE SpansAreHonest
  BY DEF SpansAreHonest
<1> DEFINE kept == {x \in input.spans : KindOfSpan(x) # NoText /\ SelectorOfSpan(x) # NoText}
           f == [s \in kept |-> AccessOfSpan(input, s)]
<1>1. input \in SpanCases /\ answer.status = "active" /\ answer.accesses = {AccessOfSpan(input, s) : s \in kept}
  BY DEF SpansDecided, SpanEvidence
<1>2. IsFiniteSet(answer.accesses)
  <2>1. IsFiniteSet(kept)
    BY <1>1, TraceAssumption, FS_Subset
  <2>2. DOMAIN f = kept /\ answer.accesses = {f[s] : s \in kept}
    BY <1>1
  <2> HIDE DEF kept, f
  <2> QED BY <2>1, <2>2, ImageIsFinite
<1>3. ASSUME NEW s \in kept
      PROVE  LET a == AccessOfSpan(input, s)
             IN /\ a.kind = KindOfSpan(s) /\ a.access = NormalizeOperation(KindOfSpan(s), s.operation)
                /\ a.selector = SelectorOfSpan(s) /\ a.kind \in ResourceContractKind /\ a.access \in ResourceAccessMode
                /\ a \in answer.accesses
  BY <1>1, SpanFacts, ModeOfOperation DEF AccessOfSpan
<1> HIDE DEF kept
<1>4. \A a \in answer.accesses : a.kind \in ResourceContractKind /\ a.access \in ResourceAccessMode
  BY <1>1, <1>3
<1>5. WellNamed(answer) => ValidEvidence(Written(answer))
  BY <1>1, <1>2, <1>4, WrittenIsValid
<1>6. ASSUME NEW s \in input.spans, s.table # NoText \/ s.destination # NoText \/ s.route # NoText
      PROVE  /\ s \in kept
             /\ SelectorOfSpan(s) = FirstOf(<<s.selector, s.table, s.destination, s.route>>)
  <2>1. FirstOf(<<s.selector, s.table, s.destination, s.route>>) # NoText
    BY <1>6, FirstOfFour
  <2> QED BY <1>6, <2>1, SpanFacts DEF kept
<1>7. ASSUME NEW s \in input.spans, <<s.table, s.destination, s.route>> # <<NoText, NoText, NoText>>
      PROVE  \E a \in answer.accesses : a.selector = FirstOf(<<s.selector, s.table, s.destination, s.route>>)
  <2>1. s.table # NoText \/ s.destination # NoText \/ s.route # NoText
    BY <1>7
  <2> QED BY <1>3, <1>6, <2>1
<1>8. ASSUME NEW s \in input.spans, s.table # NoText, s.system \notin {"queue", "messaging", "http", "rpc", "file"},
             s.operation \in ChangingWords
      PROVE  \E a \in answer.accesses :
               a.kind = "database" /\ a.access = "write" /\ a.selector = FirstOf(<<s.selector, s.table>>)
  <2>1. s \in kept /\ SelectorOfSpan(s) = FirstOf(<<s.selector, s.table, s.destination, s.route>>)
    BY <1>6, <1>8
  <2>2. FirstOf(<<s.selector, s.table, s.destination, s.route>>) = FirstOf(<<s.selector, s.table>>)
    BY <1>8, FirstOfFour, FirstOfTwo
  <2>3. KindOfSpan(s) = "database" /\ NormalizeOperation("database", s.operation) = "write"
    BY <1>8, SpanFacts, ModeOfOperation DEF ResourceContractKind
  <2> QED BY <1>3, <2>1, <2>2, <2>3
<1> QED BY <1>5, <1>7, <1>8 DEF SpansAreHonest

LEMMA CallsStayReported == CallsByPatternDecided => PatternCallsAreReported
<1> SUFFICES ASSUME CallsByPatternDecided, Is("calls by pattern"),
                    NEW k \in input.calls, NEW i \in DOMAIN input.patterns, input.patterns[i].call = k.call
             PROVE  \E a \in answer : a.line = k.line /\ (a.unresolved \/ a.selector \in Range(k.args) \ {Dynamic, NoText})
  BY DEF PatternCallsAreReported
<1> DEFINE a == PatternAccess(input.patterns, k)
           p == input.patterns[SelectInSeq(input.patterns, LAMBDA x : x.call = k.call)]
           text == IF p.argument \in DOMAIN k.args /\ k.args[p.argument] # Dynamic THEN k.args[p.argument] ELSE NoText
<1>1. a \in answer
  BY DEF CallsByPatternDecided, PatternAccesses
<1>2. a.line = k.line /\ a.selector = text /\ a.unresolved = (text = NoText)
  BY DEF PatternAccess
<1>3. text # NoText => text \in Range(k.args) \ {Dynamic, NoText}
  BY DEF Range
<1> HIDE DEF a, text
<1>4. a.unresolved \/ a.selector \in Range(k.args) \ {Dynamic, NoText}
  BY <1>2, <1>3
<1> QED BY <1>1, <1>2, <1>4

(* The documents: an accepted manifest hangs together and its baseline,     *)
(* sealed or not, is accepted in turn; a trace, however many accesses it    *)
(* records, writes them all or says that it did not; spans become the       *)
(* accesses that they tell of; and a call that matches a pattern is         *)
(* reported.                                                                *)
THEOREM DocumentsAlwaysSound == Spec => []DocumentsAreSound
<1>1. Decided => DocumentsAreSound
  BY AcceptedStaysWorkable, TracesAreHonest, SpansStayHonest, CallsStayReported DEF Decided, DocumentsAreSound
<1> QED BY <1>1, AlwaysDecided, PTL

-----------------------------------------------------------------------------
(* The graph of a check: its nodes are told apart by their ids, its edges   *)
(* by what they join.                                                       *)

GraphOf(g, w, observations, found, defects) ==
  /\ g = EvidenceGraph(w, observations, found, defects)
  /\ Absent \notin SubjectFiles(w)
  /\ \A o \in observations : Has(o.file)
  /\ \A f \in found : ~Has(f.file) => Subjects(f) # {}

(* The fields of the four kinds of nodes.                                   *)
LEMMA NodeFields ==
  /\ \A p : /\ FileNode(p).id = FileId(p) /\ FileNode(p).kind = "subject-file"
            /\ FileNode(p).label = p /\ FileNode(p).file = p
  /\ \A o : /\ ObservationNode(o).id = <<"observation", o>> /\ ObservationNode(o).kind = "observation"
            /\ ObservationNode(o).label = o.status /\ ObservationNode(o).file = o.file
            /\ ObservationNode(o).family = o.family /\ ObservationNode(o).status = o.status
  /\ \A f : /\ FindingNode(f).id = <<"finding", f>> /\ FindingNode(f).kind = "finding"
            /\ FindingNode(f).label = f.rule /\ FindingNode(f).file = f.file
            /\ FindingNode(f).rule = f.rule /\ FindingNode(f).severity = f.severity
  /\ \A d : /\ DefectNode(d).id = <<"defect", d>> /\ DefectNode(d).kind = "evidence-defect"
            /\ DefectNode(d).label = d[1] /\ DefectNode(d).file = DefectFile(d)
<1>1. \A p : /\ FileNode(p).id = FileId(p) /\ FileNode(p).kind = "subject-file"
             /\ FileNode(p).label = p /\ FileNode(p).file = p
  BY DEF FileNode
<1>2. \A o : /\ ObservationNode(o).id = <<"observation", o>> /\ ObservationNode(o).kind = "observation"
             /\ ObservationNode(o).label = o.status /\ ObservationNode(o).file = o.file
             /\ ObservationNode(o).family = o.family /\ ObservationNode(o).status = o.status
  BY DEF ObservationNode
<1>3. \A f : /\ FindingNode(f).id = <<"finding", f>> /\ FindingNode(f).kind = "finding"
             /\ FindingNode(f).label = f.rule /\ FindingNode(f).file = f.file
             /\ FindingNode(f).rule = f.rule /\ FindingNode(f).severity = f.severity
  BY DEF FindingNode
<1>4. \A d : /\ DefectNode(d).id = <<"defect", d>> /\ DefectNode(d).kind = "evidence-defect"
             /\ DefectNode(d).label = d[1] /\ DefectNode(d).file = DefectFile(d)
  BY DEF DefectNode
<1> QED BY <1>1, <1>2, <1>3, <1>4, Zenon

(* What the graph consists of.                                              *)
LEMMA GraphParts ==
  ASSUME NEW g, NEW w, NEW observations, NEW found, NEW defects, GraphOf(g, w, observations, found, defects)
  PROVE  /\ g.snapshot = SubjectFiles(w)
         /\ g.nodes = {FileNode(p) : p \in GraphFiles(w, observations, found, defects)}
                      \cup {ObservationNode(o) : o \in observations}
                      \cup {FindingNode(f) : f \in found} \cup {DefectNode(d) : d \in defects}
         /\ g.witnesses = {WitnessOf(f) : f \in found}
BY DEF GraphOf, EvidenceGraph

(* The edges of the graph. *)
ObservedEdge(o) == GraphEdge(FileId(o.file), <<"observation", o>>, "observed-as", o.family)
ReportedEdge(f) == GraphEdge(FileId(f.file), <<"finding", f>>, "reported-finding", f.rule)
WitnessEdge(f) == GraphEdge(<<"finding", f>>, FileId(f.file), "witnesses", "filePath")
DefectEdge(d) == GraphEdge(FileId(DefectFile(d)), <<"defect", d>>, "has-defect", d[1])

(* What these edges join.                                                   *)
LEMMA RecordEdgeFields ==
  /\ \A o : /\ ObservedEdge(o).from = FileId(o.file) /\ ObservedEdge(o).to = <<"observation", o>>
            /\ ObservedEdge(o).kind = "observed-as" /\ ObservedEdge(o).label = o.family
  /\ \A f : /\ ReportedEdge(f).from = FileId(f.file) /\ ReportedEdge(f).to = <<"finding", f>>
            /\ ReportedEdge(f).kind = "reported-finding" /\ ReportedEdge(f).label = f.rule
  /\ \A f : /\ WitnessEdge(f).from = <<"finding", f>> /\ WitnessEdge(f).to = FileId(f.file)
            /\ WitnessEdge(f).kind = "witnesses"
  /\ \A d : /\ DefectEdge(d).from = FileId(DefectFile(d)) /\ DefectEdge(d).to = <<"defect", d>>
            /\ DefectEdge(d).kind = "has-defect" /\ DefectEdge(d).label = d[1]
<1>1. \A o : /\ ObservedEdge(o).from = FileId(o.file) /\ ObservedEdge(o).to = <<"observation", o>>
             /\ ObservedEdge(o).kind = "observed-as" /\ ObservedEdge(o).label = o.family
  BY DEF ObservedEdge, GraphEdge
<1>2. \A f : /\ ReportedEdge(f).from = FileId(f.file) /\ ReportedEdge(f).to = <<"finding", f>>
             /\ ReportedEdge(f).kind = "reported-finding" /\ ReportedEdge(f).label = f.rule
  BY DEF ReportedEdge, GraphEdge
<1>3. \A f : /\ WitnessEdge(f).from = <<"finding", f>> /\ WitnessEdge(f).to = FileId(f.file)
             /\ WitnessEdge(f).kind = "witnesses"
  BY DEF WitnessEdge, GraphEdge
<1>4. \A d : /\ DefectEdge(d).from = FileId(DefectFile(d)) /\ DefectEdge(d).to = <<"defect", d>>
             /\ DefectEdge(d).kind = "has-defect" /\ DefectEdge(d).label = d[1]
  BY DEF DefectEdge, GraphEdge
<1> QED BY <1>1, <1>2, <1>3, <1>4, Zenon

(* What an edge of the graph joins. *)
Joins(e, observations, found, defects) ==
  \/ \E o \in observations : e = ObservedEdge(o)
  \/ \E f \in found : Has(f.file) /\ e = ReportedEdge(f)
  \/ \E f \in found : Has(f.file) /\ e = WitnessEdge(f)
  \/ \E d \in defects : Has(DefectFile(d)) /\ e = DefectEdge(d)

(* The graph has these edges and no others.                                 *)
LEMMA GraphEdges ==
  ASSUME NEW g, NEW w, NEW observations, NEW found, NEW defects, GraphOf(g, w, observations, found, defects), NEW e
  PROVE  e \in g.edges <=> Joins(e, observations, found, defects)
<1>1. g.edges = {GraphEdge(FileId(o.file), ObservationNode(o).id, "observed-as", o.family) : o \in observations}
             \cup (UNION {{GraphEdge(FileId(f.file), FindingNode(f).id, "reported-finding", f.rule),
                          GraphEdge(FindingNode(f).id, FileId(f.file), "witnesses", "filePath")} : f \in {x \in found : Has(x.file)}})
             \cup {GraphEdge(FileId(DefectFile(d)), DefectNode(d).id, "has-defect", d[1]) : d \in {x \in defects : Has(DefectFile(x))}}
  BY DEF GraphOf, EvidenceGraph
<1>2. e \in g.edges <=>
           \/ \E o \in observations : e = GraphEdge(FileId(o.file), ObservationNode(o).id, "observed-as", o.family)
           \/ \E f \in found : Has(f.file) /\ e = GraphEdge(FileId(f.file), FindingNode(f).id, "reported-finding", f.rule)
           \/ \E f \in found : Has(f.file) /\ e = GraphEdge(FindingNode(f).id, FileId(f.file), "witnesses", "filePath")
           \/ \E d \in defects : Has(DefectFile(d)) /\ e = GraphEdge(FileId(DefectFile(d)), DefectNode(d).id, "has-defect", d[1])
  BY <1>1
<1>3. /\ \A o : ObservationNode(o).id = <<"observation", o>>
      /\ \A f : FindingNode(f).id = <<"finding", f>>
      /\ \A d : DefectNode(d).id = <<"defect", d>>
  BY NodeFields
<1> QED BY <1>2, <1>3 DEF Joins, ObservedEdge, ReportedEdge, WitnessEdge, DefectEdge

(* An id is that of one node.                                               *)
LEMMA NodeById ==
  ASSUME NEW g, NEW w, NEW observations, NEW found, NEW defects, GraphOf(g, w, observations, found, defects),
         NEW n \in g.nodes
  PROVE  /\ \A p : n.id = FileId(p) => n = FileNode(p)
         /\ \A o : n.id = <<"observation", o>> => n = ObservationNode(o)
         /\ \A f : n.id = <<"finding", f>> => n = FindingNode(f)
         /\ \A d : n.id = <<"defect", d>> => n = DefectNode(d)
<1>1. \A x, y : /\ <<"file", x>> # <<"observation", y>> /\ <<"file", x>> # <<"finding", y>> /\ <<"file", x>> # <<"defect", y>>
                /\ <<"observation", x>> # <<"finding", y>> /\ <<"observation", x>> # <<"defect", y>>
                /\ <<"finding", x>> # <<"defect", y>>
  OBVIOUS
<1>2. \A x, y : /\ <<"file", x>> = <<"file", y>> => x = y
                /\ <<"observation", x>> = <<"observation", y>> => x = y
                /\ <<"finding", x>> = <<"finding", y>> => x = y
                /\ <<"defect", x>> = <<"defect", y>> => x = y
  OBVIOUS
<1>3. CASE n \in {FileNode(p) : p \in GraphFiles(w, observations, found, defects)}
  <2>1. PICK p \in GraphFiles(w, observations, found, defects) : n = FileNode(p)
    BY <1>3, Zenon
  <2>2. n.id = <<"file", p>>
    BY <2>1, NodeFields DEF FileId
  <2> QED BY <1>1, <1>2, <2>1, <2>2 DEF FileId
<1>4. CASE n \in {ObservationNode(o) : o \in observations}
  <2>1. PICK o \in observations : n = ObservationNode(o)
    BY <1>4, Zenon
  <2>2. n.id = <<"observation", o>>
    BY <2>1, NodeFields
  <2> QED BY <1>1, <1>2, <2>1, <2>2 DEF FileId
<1>5. CASE n \in {FindingNode(f) : f \in found}
  <2>1. PICK f \in found : n = FindingNode(f)
    BY <1>5, Zenon
  <2>2. n.id = <<"finding", f>>
    BY <2>1, NodeFields
  <2> QED BY <1>1, <1>2, <2>1, <2>2 DEF FileId
<1>6. CASE n \in {DefectNode(d) : d \in defects}
  <2>1. PICK d \in defects : n = DefectNode(d)
    BY <1>6, Zenon
  <2>2. n.id = <<"defect", d>>
    BY <2>1, NodeFields
  <2> QED BY <1>1, <1>2, <2>1, <2>2 DEF FileId
<1>7. g.nodes = {FileNode(p) : p \in GraphFiles(w, observations, found, defects)}
                 \cup {ObservationNode(o) : o \in observations}
                 \cup {FindingNode(f) : f \in found} \cup {DefectNode(d) : d \in defects}
  BY GraphParts
<1> QED BY <1>3, <1>4, <1>5, <1>6, <1>7, Zenon

(* The nodes of a kind are those made for it.                               *)
LEMMA NodesOfKind ==
  ASSUME NEW g, NEW w, NEW observations, NEW found, NEW defects, GraphOf(g, w, observations, found, defects)
  PROVE  /\ NodesOf(g, "subject-file") = {FileNode(p) : p \in GraphFiles(w, observations, found, defects)}
         /\ NodesOf(g, "observation") = {ObservationNode(o) : o \in observations}
         /\ NodesOf(g, "finding") = {FindingNode(f) : f \in found}
         /\ NodesOf(g, "evidence-defect") = {DefectNode(d) : d \in defects}
         /\ GraphPaths(g) = GraphFiles(w, observations, found, defects)
<1> DEFINE files == GraphFiles(w, observations, found, defects)
<1>1. g.nodes = {FileNode(p) : p \in files} \cup {ObservationNode(o) : o \in observations}
                 \cup {FindingNode(f) : f \in found} \cup {DefectNode(d) : d \in defects}
  BY GraphParts
<1> HIDE DEF files
<1>2. /\ \A n \in {FileNode(p) : p \in files} : n.kind = "subject-file"
      /\ \A n \in {ObservationNode(o) : o \in observations} : n.kind = "observation"
      /\ \A n \in {FindingNode(f) : f \in found} : n.kind = "finding"
      /\ \A n \in {DefectNode(d) : d \in defects} : n.kind = "evidence-defect"
  <2>1. /\ \A p : FileNode(p).kind = "subject-file"
        /\ \A o : ObservationNode(o).kind = "observation"
        /\ \A f : FindingNode(f).kind = "finding"
        /\ \A d : DefectNode(d).kind = "evidence-defect"
    BY NodeFields
  <2> QED BY <2>1, Zenon
<1>3. /\ NodesOf(g, "subject-file") = {FileNode(p) : p \in files}
      /\ NodesOf(g, "observation") = {ObservationNode(o) : o \in observations}
      /\ NodesOf(g, "finding") = {FindingNode(f) : f \in found}
      /\ NodesOf(g, "evidence-defect") = {DefectNode(d) : d \in defects}
  BY <1>1, <1>2 DEF NodesOf
<1>4. GraphPaths(g) = files
  <2>1. \A p : FileNode(p).file = p
    BY NodeFields
  <2>2. GraphPaths(g) = {n.file : n \in {FileNode(p) : p \in files}}
    BY <1>3, Zenon DEF GraphPaths
  <2>3. ASSUME NEW p \in files PROVE p \in {n.file : n \in {FileNode(q) : q \in files}}
    <3>1. FileNode(p) \in {FileNode(q) : q \in files}
      OBVIOUS
    <3> QED BY <2>1, <3>1
  <2>4. ASSUME NEW n \in {FileNode(q) : q \in files} PROVE n.file \in files
    BY <2>1
  <2> QED BY <2>2, <2>3, <2>4
<1> QED BY <1>3, <1>4 DEF files

(* The kinds of nodes that an edge joins.                                   *)
LEMMA KindsOfEnds ==
  /\ EndKinds("observed-as") = <<"subject-file", "observation">>
  /\ EndKinds("reported-finding") = <<"subject-file", "finding">>
  /\ EndKinds("has-defect") = <<"subject-file", "evidence-defect">>
  /\ EndKinds("witnesses") = <<"finding", "subject-file">>
BY DEF EndKinds

(* What the engine writes has no structural defect.                         *)
LEMMA EdgesOfGraph ==
  ASSUME NEW g, NEW w, NEW observations, NEW found, NEW defects, GraphOf(g, w, observations, found, defects)
  PROVE  EdgeDefects(g) = {}
<1> DEFINE from(e) == {n \in g.nodes : n.id = e.from}
           to(e) == {n \in g.nodes : n.id = e.to}
           files == GraphFiles(w, observations, found, defects)
<1>1. /\ \A p \in files : FileNode(p) \in g.nodes
      /\ \A o \in observations : ObservationNode(o) \in g.nodes
      /\ \A f \in found : FindingNode(f) \in g.nodes
      /\ \A d \in defects : DefectNode(d) \in g.nodes
  BY GraphParts
<1>2. /\ \A o \in observations : o.file \in files
      /\ \A f \in found : Has(f.file) => f.file \in files
      /\ \A d \in defects : Has(DefectFile(d)) => DefectFile(d) \in files
  BY DEF GraphOf, GraphFiles, Has
<1>3. ASSUME NEW e \in g.edges
      PROVE  /\ from(e) # {} /\ to(e) # {}
             /\ \A x \in from(e), y \in to(e) : WellShaped(e, x, y)
  <2>1. CASE \E o \in observations : e = ObservedEdge(o)
    <3>1. PICK o \in observations : e = ObservedEdge(o)
      BY <2>1
    <3>2. e.from = FileId(o.file) /\ e.to = <<"observation", o>> /\ e.kind = "observed-as" /\ e.label = o.family
      BY <3>1, RecordEdgeFields
    <3>3. FileNode(o.file) \in from(e) /\ ObservationNode(o) \in to(e)
      BY <1>1, <1>2, <3>2, NodeFields
    <3>4. \A x \in from(e), y \in to(e) : x = FileNode(o.file) /\ y = ObservationNode(o)
      BY <3>2, NodeById
    <3>5. WellShaped(e, FileNode(o.file), ObservationNode(o))
      BY <3>2, NodeFields, KindsOfEnds DEF WellShaped
    <3> QED BY <3>3, <3>4, <3>5
  <2>2. CASE \E f \in found : Has(f.file) /\ e = ReportedEdge(f)
    <3>1. PICK f \in found : Has(f.file) /\ e = ReportedEdge(f)
      BY <2>2
    <3>2. e.from = FileId(f.file) /\ e.to = <<"finding", f>> /\ e.kind = "reported-finding" /\ e.label = f.rule
      BY <3>1, RecordEdgeFields
    <3>3. FileNode(f.file) \in from(e) /\ FindingNode(f) \in to(e)
      BY <1>1, <1>2, <3>1, <3>2, NodeFields
    <3>4. \A x \in from(e), y \in to(e) : x = FileNode(f.file) /\ y = FindingNode(f)
      BY <3>2, NodeById
    <3>5. WellShaped(e, FileNode(f.file), FindingNode(f))
      BY <3>2, NodeFields, KindsOfEnds DEF WellShaped
    <3> QED BY <3>3, <3>4, <3>5
  <2>3. CASE \E f \in found : Has(f.file) /\ e = WitnessEdge(f)
    <3>1. PICK f \in found : Has(f.file) /\ e = WitnessEdge(f)
      BY <2>3
    <3>2. e.from = <<"finding", f>> /\ e.to = FileId(f.file) /\ e.kind = "witnesses"
      BY <3>1, RecordEdgeFields
    <3>3. FindingNode(f) \in from(e) /\ FileNode(f.file) \in to(e)
      BY <1>1, <1>2, <3>1, <3>2, NodeFields
    <3>4. \A x \in from(e), y \in to(e) : x = FindingNode(f) /\ y = FileNode(f.file)
      BY <3>2, NodeById
    <3>5. WellShaped(e, FindingNode(f), FileNode(f.file))
      BY <3>2, NodeFields, KindsOfEnds DEF WellShaped
    <3> QED BY <3>3, <3>4, <3>5
  <2>4. CASE \E d \in defects : Has(DefectFile(d)) /\ e = DefectEdge(d)
    <3>1. PICK d \in defects : Has(DefectFile(d)) /\ e = DefectEdge(d)
      BY <2>4
    <3>2. e.from = FileId(DefectFile(d)) /\ e.to = <<"defect", d>> /\ e.kind = "has-defect" /\ e.label = d[1]
      BY <3>1, RecordEdgeFields
    <3>3. FileNode(DefectFile(d)) \in from(e) /\ DefectNode(d) \in to(e)
      BY <1>1, <1>2, <3>1, <3>2, NodeFields
    <3>4. \A x \in from(e), y \in to(e) : x = FileNode(DefectFile(d)) /\ y = DefectNode(d)
      BY <3>2, NodeById
    <3>5. WellShaped(e, FileNode(DefectFile(d)), DefectNode(d))
      BY <3>2, NodeFields, KindsOfEnds DEF WellShaped
    <3> QED BY <3>3, <3>4, <3>5
  <2>5. \/ \E o \in observations : e = ObservedEdge(o)
        \/ \E f \in found : Has(f.file) /\ e = ReportedEdge(f)
        \/ \E f \in found : Has(f.file) /\ e = WitnessEdge(f)
        \/ \E d \in defects : Has(DefectFile(d)) /\ e = DefectEdge(d)
    <3>1. Joins(e, observations, found, defects)
      BY GraphEdges, Zenon
    <3> QED BY <3>1, Zenon DEF Joins
  <2> HIDE DEF from, to
  <2> QED BY <2>1, <2>2, <2>3, <2>4, <2>5, Zenon
<1> HIDE DEF from, to
<1>4. ASSUME NEW e \in g.edges
      PROVE  /\ {<<"UNKNOWN_EDGE_FROM", e.kind>> : x \in {from(e)} \cap {{}}} = {}
             /\ {<<"UNKNOWN_EDGE_TO", e.kind>> : x \in {to(e)} \cap {{}}} = {}
             /\ {<<"INVALID_EDGE_SHAPE", e.kind>> : x \in {y \in from(e) \X to(e) : ~WellShaped(e, y[1], y[2])}} = {}
  BY <1>3
<1>5. EdgeDefects(g) = UNION {{<<"UNKNOWN_EDGE_FROM", e.kind>> : x \in {from(e)} \cap {{}}}
                             \cup {<<"UNKNOWN_EDGE_TO", e.kind>> : x \in {to(e)} \cap {{}}}
                             \cup {<<"INVALID_EDGE_SHAPE", e.kind>> : x \in {y \in from(e) \X to(e) : ~WellShaped(e, y[1], y[2])}}
                               : e \in g.edges}
  BY DEF EdgeDefects, from, to
<1> QED BY <1>4, <1>5

(* What a witness says of a finding.                                        *)
LEMMA WitnessFields ==
  ASSUME NEW f
  PROVE  /\ WitnessOf(f).rule = f.rule /\ WitnessOf(f).severity = f.severity
         /\ WitnessOf(f).file = f.file /\ WitnessOf(f).subjects = Subjects(f)
BY DEF WitnessOf

(* The witness of a finding is that of its node.                            *)
LEMMA OwnWitness == \A f : WitnessMatches(WitnessOf(f), FindingNode(f))
BY NodeFields, WitnessFields DEF WitnessMatches

(* Every witness is about a node of the graph and names a file or a         *)
(* subject.                                                                 *)
LEMMA WitnessesOfGraph ==
  ASSUME NEW g, NEW w, NEW observations, NEW found, NEW defects, GraphOf(g, w, observations, found, defects)
  PROVE  WitnessDefects(g) = {}
<1>1. GraphPaths(g) = GraphFiles(w, observations, found, defects)
  BY NodesOfKind
<1>2. ASSUME NEW x \in g.witnesses
      PROVE  (Has(x.file) => x.file \in GraphPaths(g)) /\ (~Has(x.file) => x.subjects # {})
  <2>1. PICK f \in found : x = WitnessOf(f)
    BY GraphParts
  <2>2. x.file = f.file /\ x.subjects = Subjects(f)
    BY <2>1, WitnessFields
  <2> QED BY <1>1, <2>2 DEF GraphOf, GraphFiles, Has
<1> QED BY <1>2 DEF WitnessDefects

(* Every node is anchored: its file is in the graph and an edge leads       *)
(* there, and a finding has its witness.                                    *)
LEMMA NodesOfGraph ==
  ASSUME NEW g, NEW w, NEW observations, NEW found, NEW defects, GraphOf(g, w, observations, found, defects)
  PROVE  NodeDefects(g) = {}
<1> DEFINE path(n) == Has(n.file) /\ n.file \notin GraphPaths(g)
           reached(n, kind) == \E e \in g.edges : e.from = FileId(n.file) /\ e.to = n.id /\ e.kind = kind
           reaches(n) == \E e \in g.edges : e.from = n.id /\ e.to = FileId(n.file) /\ e.kind = "witnesses"
           unreached(kind, edge) == {n \in NodesOf(g, kind) : Has(n.file) /\ ~path(n) /\ ~reached(n, edge)}
           matched(n) == \E x \in g.witnesses : WitnessMatches(x, n)
           files == GraphFiles(w, observations, found, defects)
<1>1. /\ \A o \in observations : o.file \in files
      /\ \A f \in found : Has(f.file) => f.file \in files
      /\ \A d \in defects : Has(DefectFile(d)) => DefectFile(d) \in files
  BY DEF GraphOf, GraphFiles, Has
<1>2. GraphPaths(g) = files
  BY NodesOfKind
<1> HIDE DEF files
<1>3. ASSUME NEW n \in g.nodes PROVE ~path(n)
  <2>1. g.nodes = {FileNode(p) : p \in files} \cup {ObservationNode(o) : o \in observations}
                 \cup {FindingNode(f) : f \in found} \cup {DefectNode(d) : d \in defects}
    BY GraphParts DEF files
  <2>2. /\ \A p : FileNode(p).file = p
        /\ \A o : ObservationNode(o).file = o.file
        /\ \A f : FindingNode(f).file = f.file
        /\ \A d : DefectNode(d).file = DefectFile(d)
    BY NodeFields
  <2> QED BY <1>1, <1>2, <2>1, <2>2
<1>4. ASSUME NEW n \in NodesOf(g, "observation") PROVE reached(n, "observed-as")
  <2>1. PICK o \in observations : n = ObservationNode(o)
    BY NodesOfKind
  <2>2. ObservedEdge(o) \in g.edges
    BY GraphEdges DEF Joins
  <2>3. n.file = o.file /\ n.id = <<"observation", o>>
    BY <2>1, NodeFields
  <2> QED BY <2>2, <2>3, RecordEdgeFields
<1>5. ASSUME NEW n \in NodesOf(g, "finding"), Has(n.file) PROVE reached(n, "reported-finding") /\ reaches(n)
  <2>1. PICK f \in found : n = FindingNode(f)
    BY NodesOfKind
  <2>2. n.file = f.file /\ n.id = <<"finding", f>>
    BY <2>1, NodeFields
  <2>3. /\ ReportedEdge(f) \in g.edges
        /\ WitnessEdge(f) \in g.edges
    BY <1>5, <2>2, GraphEdges DEF Joins
  <2> QED BY <2>2, <2>3, RecordEdgeFields
<1>6. ASSUME NEW n \in NodesOf(g, "evidence-defect"), Has(n.file) PROVE reached(n, "has-defect")
  <2>1. PICK d \in defects : n = DefectNode(d)
    BY NodesOfKind
  <2>2. n.file = DefectFile(d) /\ n.id = <<"defect", d>>
    BY <2>1, NodeFields
  <2>3. DefectEdge(d) \in g.edges
    BY <1>6, <2>2, GraphEdges DEF Joins
  <2> QED BY <2>2, <2>3, RecordEdgeFields
<1>7. ASSUME NEW n \in NodesOf(g, "finding") PROVE matched(n)
  <2>1. PICK f \in found : n = FindingNode(f)
    BY NodesOfKind
  <2>2. WitnessOf(f) \in g.witnesses
    BY GraphParts
  <2> QED BY <2>1, <2>2, OwnWitness
<1>8. ASSUME NEW x \in g.witnesses PROVE \E n \in NodesOf(g, "finding") : WitnessMatches(x, n)
  <2>1. PICK f \in found : x = WitnessOf(f)
    BY GraphParts
  <2>2. FindingNode(f) \in NodesOf(g, "finding")
    BY NodesOfKind
  <2> QED BY <2>1, <2>2, OwnWitness
<1> HIDE DEF path, reached, reaches, matched
<1>9. /\ {n \in g.nodes : path(n)} = {}
      /\ unreached("observation", "observed-as") = {} /\ unreached("evidence-defect", "has-defect") = {}
      /\ unreached("finding", "reported-finding") = {}
      /\ {x \in NodesOf(g, "finding") : Has(x.file) /\ ~path(x) /\ ~reaches(x)} = {}
      /\ {x \in NodesOf(g, "finding") : ~matched(x)} = {}
      /\ {x \in g.witnesses : ~\E n \in NodesOf(g, "finding") : WitnessMatches(x, n)} = {}
  BY <1>3, <1>4, <1>5, <1>6, <1>7, <1>8
<1> HIDE DEF unreached
<1>10. NodeDefects(g) =
     {<<"FILE_NOT_IN_GRAPH", n.kind>> : n \in {x \in g.nodes : path(x)}}
     \cup {<<"OBSERVATION_WITHOUT_OBSERVED_AS_EDGE", n.label>> : n \in unreached("observation", "observed-as")}
     \cup {<<"DEFECT_WITHOUT_HAS_DEFECT_EDGE", n.label>> : n \in unreached("evidence-defect", "has-defect")}
     \cup {<<"FINDING_WITHOUT_REPORTED_FINDING_EDGE", n.label>> : n \in unreached("finding", "reported-finding")}
     \cup {<<"FINDING_WITHOUT_WITNESSES_EDGE", n.label>> :
             n \in {x \in NodesOf(g, "finding") : Has(x.file) /\ ~path(x) /\ ~reaches(x)}}
     \cup {<<"FINDING_NODE_WITHOUT_WITNESS_RECORD", n.label>> : n \in {x \in NodesOf(g, "finding") : ~matched(x)}}
     \cup {<<"WITNESS_WITHOUT_FINDING_NODE", x.rule>> : x \in {x \in g.witnesses : ~\E n \in NodesOf(g, "finding") : WitnessMatches(x, n)}}
  BY DEF NodeDefects, path, reached, reaches, unreached, matched
<1> QED BY <1>9, <1>10

(* So the verifier finds nothing wrong with such a graph.                   *)
LEMMA GraphStands ==
  ASSUME NEW g, NEW w, NEW observations, NEW found, NEW defects, GraphOf(g, w, observations, found, defects)
  PROVE  GraphDefects(g) = {}
BY EdgesOfGraph, WitnessesOfGraph, NodesOfGraph DEF GraphDefects

-----------------------------------------------------------------------------
(* What the verifier sees in any graph.                                     *)

(* An edge that misses an end is reported.                                  *)
LEMMA EdgeIntoNothing ==
  ASSUME NEW g, NEW e \in g.edges, \/ ~\E n \in g.nodes : n.id = e.from
                                   \/ ~\E n \in g.nodes : n.id = e.to
  PROVE  GraphDefects(g) # {}
<1> DEFINE from == {n \in g.nodes : n.id = e.from}
           to == {n \in g.nodes : n.id = e.to}
           D(d) == {<<"UNKNOWN_EDGE_FROM", d.kind>> : x \in {{n \in g.nodes : n.id = d.from}} \cap {{}}}
                   \cup {<<"UNKNOWN_EDGE_TO", d.kind>> : x \in {{n \in g.nodes : n.id = d.to}} \cap {{}}}
                   \cup {<<"INVALID_EDGE_SHAPE", d.kind>> :
                           x \in {y \in {n \in g.nodes : n.id = d.from} \X {n \in g.nodes : n.id = d.to} : ~WellShaped(d, y[1], y[2])}}
<1>1. from = {} \/ to = {}
  OBVIOUS
<1>2. D(e) \subseteq EdgeDefects(g)
  <2>1. EdgeDefects(g) = UNION {D(d) : d \in g.edges}
    BY DEF EdgeDefects
  <2> HIDE DEF D
  <2> QED BY <2>1
<1>3. D(e) # {}
  <2> HIDE DEF from, to
  <2>1. CASE from = {}
    <3>1. <<"UNKNOWN_EDGE_FROM", e.kind>> \in {<<"UNKNOWN_EDGE_FROM", e.kind>> : x \in {from} \cap {{}}}
      BY <2>1
    <3> QED BY <3>1
  <2>2. CASE to = {}
    <3>1. <<"UNKNOWN_EDGE_TO", e.kind>> \in {<<"UNKNOWN_EDGE_TO", e.kind>> : x \in {to} \cap {{}}}
      BY <2>2
    <3> QED BY <3>1
  <2> QED BY <1>1, <2>1, <2>2
<1> QED BY <1>2, <1>3 DEF GraphDefects

(* So is a node whose file is not in the graph.                             *)
LEMMA FileOutOfGraph ==
  ASSUME NEW g, NEW n \in g.nodes, Has(n.file), n.file \notin GraphPaths(g)
  PROVE  GraphDefects(g) # {}
<1>1. <<"FILE_NOT_IN_GRAPH", n.kind>> \in NodeDefects(g)
  BY Zenon DEF NodeDefects
<1> QED BY <1>1 DEF GraphDefects

(* So is a node that the edge from its file does not reach.                 *)
LEMMA NodeUnreached ==
  ASSUME NEW g, NEW n, Has(n.file), n.file \in GraphPaths(g), NEW kind, NEW edge, n \in NodesOf(g, kind),
         <<kind, edge>> \in {<<"observation", "observed-as">>, <<"evidence-defect", "has-defect">>, <<"finding", "reported-finding">>},
         ~\E e \in g.edges : e.from = FileId(n.file) /\ e.to = n.id /\ e.kind = edge
  PROVE  GraphDefects(g) # {}
<1>1. \/ kind = "observation" /\ edge = "observed-as"
      \/ kind = "evidence-defect" /\ edge = "has-defect"
      \/ kind = "finding" /\ edge = "reported-finding"
  OBVIOUS
<1>2. CASE kind = "observation" /\ edge = "observed-as"
  <2>1. <<"OBSERVATION_WITHOUT_OBSERVED_AS_EDGE", n.label>> \in NodeDefects(g)
    BY <1>2, Zenon DEF NodeDefects
  <2> QED BY <2>1 DEF GraphDefects
<1>3. CASE kind = "evidence-defect" /\ edge = "has-defect"
  <2>1. <<"DEFECT_WITHOUT_HAS_DEFECT_EDGE", n.label>> \in NodeDefects(g)
    BY <1>3, Zenon DEF NodeDefects
  <2> QED BY <2>1 DEF GraphDefects
<1>4. CASE kind = "finding" /\ edge = "reported-finding"
  <2>1. <<"FINDING_WITHOUT_REPORTED_FINDING_EDGE", n.label>> \in NodeDefects(g)
    BY <1>4, Zenon DEF NodeDefects
  <2> QED BY <2>1 DEF GraphDefects
<1> QED BY <1>1, <1>2, <1>3, <1>4

(* So is a finding without the edge to its file.                            *)
LEMMA FindingReachesNothing ==
  ASSUME NEW g, NEW n \in NodesOf(g, "finding"), Has(n.file), n.file \in GraphPaths(g),
         ~\E e \in g.edges : e.from = n.id /\ e.to = FileId(n.file) /\ e.kind = "witnesses"
  PROVE  GraphDefects(g) # {}
<1>1. <<"FINDING_WITHOUT_WITNESSES_EDGE", n.label>> \in NodeDefects(g)
  BY Zenon DEF NodeDefects
<1> QED BY <1>1 DEF GraphDefects

(* So is a finding that no witness is about.                                *)
LEMMA FindingUnwitnessed ==
  ASSUME NEW g, NEW n \in NodesOf(g, "finding"), ~\E x \in g.witnesses : WitnessMatches(x, n)
  PROVE  GraphDefects(g) # {}
<1>1. <<"FINDING_NODE_WITHOUT_WITNESS_RECORD", n.label>> \in NodeDefects(g)
  BY Zenon DEF NodeDefects
<1> QED BY <1>1 DEF GraphDefects

(* So is a witness that is about no finding.                                *)
LEMMA WitnessOfNothing ==
  ASSUME NEW g, NEW x \in g.witnesses, ~\E n \in NodesOf(g, "finding") : WitnessMatches(x, n)
  PROVE  GraphDefects(g) # {}
<1>1. <<"WITNESS_WITHOUT_FINDING_NODE", x.rule>> \in NodeDefects(g)
  BY Zenon DEF NodeDefects
<1> QED BY <1>1 DEF GraphDefects

-----------------------------------------------------------------------------
(* What is cut out of the graph of a check is missed.                       *)

(* What is left when something is cut out.                                  *)
LEMMA CutFields ==
  ASSUME NEW g, NEW w, NEW observations, NEW found, NEW defects, GraphOf(g, w, observations, found, defects), NEW x
  PROVE  /\ Without(g, "edges", x).edges = g.edges \ {x}
         /\ Without(g, "edges", x).nodes = g.nodes /\ Without(g, "edges", x).witnesses = g.witnesses
         /\ Without(g, "nodes", x).nodes = g.nodes \ {x}
         /\ Without(g, "nodes", x).edges = g.edges /\ Without(g, "nodes", x).witnesses = g.witnesses
         /\ Without(g, "witnesses", x).witnesses = g.witnesses \ {x}
         /\ Without(g, "witnesses", x).nodes = g.nodes /\ Without(g, "witnesses", x).edges = g.edges
<1>1. g = [snapshot |-> g.snapshot, nodes |-> g.nodes, edges |-> g.edges, witnesses |-> g.witnesses]
  BY DEF GraphOf, EvidenceGraph
<1> QED BY <1>1 DEF Without

(* The kind of an edge tells what it joins.                                 *)
LEMMA JoinKinds ==
  ASSUME NEW e, NEW observations, NEW found, NEW defects, Joins(e, observations, found, defects)
  PROVE  /\ e.kind = "observed-as" =>
              \E o \in observations : e = ObservedEdge(o)
         /\ e.kind = "reported-finding" =>
              \E f \in found : Has(f.file) /\ e = ReportedEdge(f)
         /\ e.kind = "witnesses" =>
              \E f \in found : Has(f.file) /\ e = WitnessEdge(f)
         /\ e.kind = "has-defect" =>
              \E d \in defects : Has(DefectFile(d)) /\ e = DefectEdge(d)
<1>1. /\ \A o : ObservedEdge(o).kind = "observed-as"
      /\ \A f : ReportedEdge(f).kind = "reported-finding" /\ WitnessEdge(f).kind = "witnesses"
      /\ \A d : DefectEdge(d).kind = "has-defect"
  BY RecordEdgeFields
<1>2. /\ "observed-as" # "reported-finding" /\ "observed-as" # "witnesses" /\ "observed-as" # "has-defect"
      /\ "reported-finding" # "witnesses" /\ "reported-finding" # "has-defect" /\ "witnesses" # "has-defect"
  OBVIOUS
<1>3. \/ e.kind = "observed-as" /\ \E o \in observations : e = ObservedEdge(o)
      \/ e.kind = "reported-finding" /\ \E f \in found : Has(f.file) /\ e = ReportedEdge(f)
      \/ e.kind = "witnesses" /\ \E f \in found : Has(f.file) /\ e = WitnessEdge(f)
      \/ /\ e.kind = "has-defect"
         /\ \E d \in defects : Has(DefectFile(d)) /\ e = DefectEdge(d)
  <2>1. CASE \E o \in observations : e = ObservedEdge(o)
    BY <1>1, <2>1, Zenon
  <2>2. CASE \E f \in found : Has(f.file) /\ e = ReportedEdge(f)
    BY <1>1, <2>2, Zenon
  <2>3. CASE \E f \in found : Has(f.file) /\ e = WitnessEdge(f)
    BY <1>1, <2>3, Zenon
  <2>4. CASE \E d \in defects : Has(DefectFile(d)) /\ e = DefectEdge(d)
    BY <1>1, <2>4, Zenon
  <2> QED BY <2>1, <2>2, <2>3, <2>4, Zenon DEF Joins
<1> QED BY <1>2, <1>3, Zenon

(* Two edges of one kind between the same nodes are one.                    *)
LEMMA EdgeIsOne ==
  ASSUME NEW g, NEW w, NEW observations, NEW found, NEW defects, GraphOf(g, w, observations, found, defects),
         NEW e \in g.edges, NEW d \in g.edges, e.from = d.from, e.to = d.to, e.kind = d.kind
  PROVE  e = d
<1>1. Joins(e, observations, found, defects) /\ Joins(d, observations, found, defects)
  BY GraphEdges, Zenon
<1>2. \A x, y : /\ <<"observation", x>> = <<"observation", y>> => x = y
                /\ <<"finding", x>> = <<"finding", y>> => x = y
                /\ <<"defect", x>> = <<"defect", y>> => x = y
  OBVIOUS
<1>3. CASE \E o \in observations : e = ObservedEdge(o)
  <2>1. PICK o \in observations : e = ObservedEdge(o)
    BY <1>3
  <2>2. e.kind = "observed-as" /\ e.to = <<"observation", o>>
    BY <2>1, RecordEdgeFields
  <2>3. PICK y \in observations : d = ObservedEdge(y)
    <3>1. d.kind = "observed-as" /\ Joins(d, observations, found, defects)
      BY <1>1, <2>2
    <3>2. \E y \in observations : d = ObservedEdge(y)
      BY <3>1, JoinKinds
    <3> QED BY <3>2
  <2>4. d.to = <<"observation", y>>
    BY <2>3, RecordEdgeFields
  <2> QED BY <1>2, <2>1, <2>2, <2>3, <2>4
<1>4. CASE \E f \in found : Has(f.file) /\ e = ReportedEdge(f)
  <2>1. PICK f \in found : e = ReportedEdge(f)
    BY <1>4
  <2>2. e.kind = "reported-finding" /\ e.to = <<"finding", f>>
    BY <2>1, RecordEdgeFields
  <2>3. PICK y \in found : d = ReportedEdge(y)
    <3>1. d.kind = "reported-finding" /\ Joins(d, observations, found, defects)
      BY <1>1, <2>2
    <3>2. \E y \in found : d = ReportedEdge(y)
      BY <3>1, JoinKinds
    <3> QED BY <3>2
  <2>4. d.to = <<"finding", y>>
    BY <2>3, RecordEdgeFields
  <2> QED BY <1>2, <2>1, <2>2, <2>3, <2>4
<1>5. CASE \E f \in found : Has(f.file) /\ e = WitnessEdge(f)
  <2>1. PICK f \in found : e = WitnessEdge(f)
    BY <1>5
  <2>2. e.kind = "witnesses" /\ e.from = <<"finding", f>>
    BY <2>1, RecordEdgeFields
  <2>3. PICK y \in found : d = WitnessEdge(y)
    <3>1. d.kind = "witnesses" /\ Joins(d, observations, found, defects)
      BY <1>1, <2>2
    <3>2. \E y \in found : d = WitnessEdge(y)
      BY <3>1, JoinKinds
    <3> QED BY <3>2
  <2>4. d.from = <<"finding", y>>
    BY <2>3, RecordEdgeFields
  <2> QED BY <1>2, <2>1, <2>2, <2>3, <2>4
<1>6. CASE \E x \in defects : Has(DefectFile(x)) /\ e = DefectEdge(x)
  <2>1. PICK x \in defects : e = DefectEdge(x)
    BY <1>6
  <2>2. e.kind = "has-defect" /\ e.to = <<"defect", x>>
    BY <2>1, RecordEdgeFields
  <2>3. PICK y \in defects : d = DefectEdge(y)
    <3>1. d.kind = "has-defect" /\ Joins(d, observations, found, defects)
      BY <1>1, <2>2
    <3>2. \E y \in defects : d = DefectEdge(y)
      BY <3>1, JoinKinds
    <3> QED BY <3>2
  <2>4. d.to = <<"defect", y>>
    BY <2>3, RecordEdgeFields
  <2> QED BY <1>2, <2>1, <2>2, <2>3, <2>4
<1> QED BY <1>1, <1>3, <1>4, <1>5, <1>6, Zenon DEF Joins

(* An edge that is cut out is missed.                                       *)
LEMMA EdgeCutIsSeen ==
  ASSUME NEW g, NEW w, NEW observations, NEW found, NEW defects, GraphOf(g, w, observations, found, defects), NEW e \in g.edges
  PROVE  GraphDefects(Without(g, "edges", e)) # {}
<1> DEFINE h == Without(g, "edges", e)
           files == GraphFiles(w, observations, found, defects)
<1>1. h.edges = g.edges \ {e} /\ h.nodes = g.nodes
  BY CutFields
<1> HIDE DEF h
<1>2. GraphPaths(h) = files /\ \A kind : NodesOf(h, kind) = NodesOf(g, kind)
  <2>1. \A kind : NodesOf(h, kind) = NodesOf(g, kind)
    BY <1>1 DEF NodesOf
  <2> QED BY <2>1, NodesOfKind DEF GraphPaths
<1>3. ~\E d \in h.edges : d.from = e.from /\ d.to = e.to /\ d.kind = e.kind
  BY <1>1, EdgeIsOne
<1>4. /\ \A o \in observations : o.file \in files
      /\ \A f \in found : Has(f.file) => f.file \in files
      /\ \A d \in defects : Has(DefectFile(d)) => DefectFile(d) \in files
  BY DEF GraphOf, GraphFiles, Has
<1> HIDE DEF files
<1>5. CASE \E o \in observations : e = ObservedEdge(o)
  <2>1. PICK o \in observations : e = ObservedEdge(o)
    BY <1>5
  <2>2. e.from = FileId(o.file) /\ e.to = <<"observation", o>> /\ e.kind = "observed-as"
    BY <2>1, RecordEdgeFields
  <2> DEFINE n == ObservationNode(o)
  <2>3. n \in NodesOf(h, "observation") /\ n.file = o.file /\ n.id = <<"observation", o>> /\ Has(n.file)
    <3>1. n \in NodesOf(g, "observation")
      BY NodesOfKind
    <3>2. Has(o.file)
      BY DEF GraphOf
    <3> QED BY <1>2, <3>1, <3>2, NodeFields
  <2> HIDE DEF n
  <2>4. ~\E d \in h.edges : d.from = FileId(n.file) /\ d.to = n.id /\ d.kind = "observed-as"
    BY <1>3, <2>2, <2>3
  <2>5. n.file \in GraphPaths(h)
    BY <1>2, <1>4, <2>3
  <2> QED BY <2>3, <2>4, <2>5, NodeUnreached DEF h
<1>6. CASE \E f \in found : Has(f.file) /\ e = ReportedEdge(f)
  <2>1. PICK f \in found : Has(f.file) /\ e = ReportedEdge(f)
    BY <1>6
  <2>2. e.from = FileId(f.file) /\ e.to = <<"finding", f>> /\ e.kind = "reported-finding"
    BY <2>1, RecordEdgeFields
  <2> DEFINE n == FindingNode(f)
  <2>3. n \in NodesOf(h, "finding") /\ n.file = f.file /\ n.id = <<"finding", f>>
    <3>1. n \in NodesOf(g, "finding")
      BY NodesOfKind
    <3> QED BY <1>2, <3>1, NodeFields
  <2> HIDE DEF n
  <2> QED BY <1>2, <1>3, <1>4, <2>1, <2>2, <2>3, NodeUnreached DEF h
<1>7. CASE \E f \in found : Has(f.file) /\ e = WitnessEdge(f)
  <2>1. PICK f \in found : Has(f.file) /\ e = WitnessEdge(f)
    BY <1>7
  <2>2. e.from = <<"finding", f>> /\ e.to = FileId(f.file) /\ e.kind = "witnesses"
    BY <2>1, RecordEdgeFields
  <2> DEFINE n == FindingNode(f)
  <2>3. n \in NodesOf(h, "finding") /\ n.file = f.file /\ n.id = <<"finding", f>>
    <3>1. n \in NodesOf(g, "finding")
      BY NodesOfKind
    <3> QED BY <1>2, <3>1, NodeFields
  <2> HIDE DEF n
  <2> QED BY <1>2, <1>3, <1>4, <2>1, <2>2, <2>3, FindingReachesNothing DEF h
<1>8. CASE \E d \in defects : Has(DefectFile(d)) /\ e = DefectEdge(d)
  <2>1. PICK d \in defects : Has(DefectFile(d)) /\ e = DefectEdge(d)
    BY <1>8
  <2>2. e.from = FileId(DefectFile(d)) /\ e.to = <<"defect", d>> /\ e.kind = "has-defect"
    BY <2>1, RecordEdgeFields
  <2> DEFINE n == DefectNode(d)
  <2>3. n \in NodesOf(h, "evidence-defect") /\ n.file = DefectFile(d) /\ n.id = <<"defect", d>>
    <3>1. n \in NodesOf(g, "evidence-defect")
      BY NodesOfKind
    <3> QED BY <1>2, <3>1, NodeFields
  <2> HIDE DEF n
  <2> QED BY <1>2, <1>3, <1>4, <2>1, <2>2, <2>3, NodeUnreached DEF h
<1>9. Joins(e, observations, found, defects)
  BY GraphEdges, Zenon
<1> QED BY <1>5, <1>6, <1>7, <1>8, <1>9, Zenon DEF Joins

(* What nothing else tells of a node.                                       *)
Untied(g, n) ==
  \/ n.kind = "evidence-defect" /\ ~Has(n.file)
  \/ /\ n.kind = "finding" /\ ~Has(n.file)
     /\ \E m \in NodesOf(g, "finding") \ {n} : <<m.rule, m.severity, m.file>> = <<n.rule, n.severity, n.file>>
  \/ n.kind = "subject-file" /\ ~\E m \in g.nodes \ {n} : m.file = n.file

(* A node that is cut out is missed, if anything else tells of it.          *)
LEMMA NodeCutIsSeen ==
  ASSUME NEW g, NEW w, NEW observations, NEW found, NEW defects, GraphOf(g, w, observations, found, defects),
         NEW n \in g.nodes, ~Untied(g, n)
  PROVE  GraphDefects(Without(g, "nodes", n)) # {}
<1> DEFINE h == Without(g, "nodes", n)
           files == GraphFiles(w, observations, found, defects)
<1>1. h.nodes = g.nodes \ {n} /\ h.edges = g.edges /\ h.witnesses = g.witnesses
  BY CutFields
<1> SUFFICES GraphDefects(h) # {}
  OBVIOUS
<1> HIDE DEF h
<1>2. \A kind : NodesOf(h, kind) = NodesOf(g, kind) \ {n}
  BY <1>1 DEF NodesOf
<1>3. ASSUME NEW e \in g.edges, e.to = n.id, \A m \in g.nodes : m.id = n.id => m = n
      PROVE  GraphDefects(h) # {}
  <2>1. ~\E m \in h.nodes : m.id = e.to
    BY <1>1, <1>3
  <2> QED BY <1>1, <2>1, EdgeIntoNothing
<1>4. CASE n \in {FileNode(p) : p \in files}
  <2>1. PICK p \in files : n = FileNode(p)
    BY <1>4
  <2>2. n.kind = "subject-file" /\ n.file = p
    BY <2>1, NodeFields
  <2>3. Has(p)
    BY <2>1 DEF GraphOf, GraphFiles, Has
  <2>4. PICK m \in g.nodes \ {n} : m.file = n.file
    BY <2>2 DEF Untied
  <2>5. p \notin GraphPaths(h)
    <3>1. SUFFICES ASSUME NEW q \in NodesOf(h, "subject-file"), q.file = p PROVE FALSE
      BY DEF GraphPaths
    <3>2. q \in NodesOf(g, "subject-file") /\ q # n
      BY <1>2
    <3>3. PICK r \in files : q = FileNode(r)
      BY <3>2, NodesOfKind
    <3>4. r = p
      BY <3>1, <3>3, NodeFields
    <3> QED BY <2>1, <3>2, <3>3, <3>4
  <2> QED BY <1>1, <2>2, <2>3, <2>4, <2>5, FileOutOfGraph
<1>5. CASE n \in {ObservationNode(o) : o \in observations}
  <2>1. PICK o \in observations : n = ObservationNode(o)
    BY <1>5
  <2>2. n.id = <<"observation", o>>
    BY <2>1, NodeFields
  <2>3. ObservedEdge(o) \in g.edges /\ ObservedEdge(o).to = n.id
    BY <2>2, GraphEdges, RecordEdgeFields DEF Joins
  <2>4. \A m \in g.nodes : m.id = n.id => m = n
    BY <2>1, <2>2, NodeById
  <2> QED BY <1>3, <2>3, <2>4
<1>6. CASE n \in {FindingNode(f) : f \in found}
  <2>1. PICK f \in found : n = FindingNode(f)
    BY <1>6
  <2>2. n.id = <<"finding", f>> /\ n.file = f.file /\ n.rule = f.rule /\ n.severity = f.severity /\ n.kind = "finding"
    BY <2>1, NodeFields
  <2>3. CASE Has(f.file)
    <3>1. ReportedEdge(f) \in g.edges /\ ReportedEdge(f).to = n.id
      BY <2>2, <2>3, GraphEdges, RecordEdgeFields DEF Joins
    <3>2. \A m \in g.nodes : m.id = n.id => m = n
      BY <2>1, <2>2, NodeById
    <3> QED BY <1>3, <3>1, <3>2
  <2>4. CASE ~Has(f.file)
    <3>1. WitnessOf(f) \in h.witnesses
      BY <1>1, GraphParts
    <3>2. ASSUME NEW m \in NodesOf(h, "finding"), WitnessMatches(WitnessOf(f), m) PROVE FALSE
      <4>1. m \in NodesOf(g, "finding") /\ m # n
        BY <1>2
      <4>2. m.rule = f.rule /\ m.severity = f.severity /\ (Has(m.file) => f.file = m.file)
        BY <3>2, WitnessFields DEF WitnessMatches
      <4>3. m.file = f.file
        BY <2>4, <4>2 DEF Has
      <4> QED BY <2>2, <2>4, <4>1, <4>2, <4>3 DEF Untied
    <3> QED BY <3>1, <3>2, WitnessOfNothing
  <2> QED BY <2>3, <2>4
<1>7. CASE n \in {DefectNode(d) : d \in defects}
  <2>1. PICK d \in defects : n = DefectNode(d)
    BY <1>7
  <2>2. n.id = <<"defect", d>> /\ n.file = DefectFile(d) /\ n.kind = "evidence-defect"
    BY <2>1, NodeFields
  <2>3. Has(DefectFile(d))
    BY <2>2 DEF Untied
  <2>4. DefectEdge(d) \in g.edges /\ DefectEdge(d).to = n.id
    BY <2>2, <2>3, GraphEdges, RecordEdgeFields DEF Joins
  <2>5. \A m \in g.nodes : m.id = n.id => m = n
    BY <2>1, <2>2, NodeById
  <2> QED BY <1>3, <2>4, <2>5
<1>8. g.nodes = {FileNode(p) : p \in files} \cup {ObservationNode(o) : o \in observations}
                 \cup {FindingNode(f) : f \in found} \cup {DefectNode(d) : d \in defects}
  BY GraphParts
<1> HIDE DEF files
<1> QED BY <1>4, <1>5, <1>6, <1>7, <1>8, Zenon

(* A witness that is cut out is missed, unless another is taken for it.     *)
LEMMA WitnessCutIsSeen ==
  ASSUME NEW g, NEW w, NEW observations, NEW found, NEW defects, GraphOf(g, w, observations, found, defects),
         NEW x \in g.witnesses,
         \A v \in g.witnesses \ {x} : <<v.rule, v.severity>> = <<x.rule, x.severity>> => Has(x.file) /\ v.file # x.file
  PROVE  GraphDefects(Without(g, "witnesses", x)) # {}
<1> DEFINE h == Without(g, "witnesses", x)
<1>1. h.nodes = g.nodes /\ h.witnesses = g.witnesses \ {x}
  BY CutFields
<1> HIDE DEF h
<1>2. PICK f \in found : x = WitnessOf(f)
  BY GraphParts
<1>3. x.rule = f.rule /\ x.severity = f.severity /\ x.file = f.file
  BY <1>2, WitnessFields
<1> DEFINE n == FindingNode(f)
<1>4. n \in NodesOf(h, "finding")
  <2>1. n \in NodesOf(g, "finding")
    BY NodesOfKind
  <2> QED BY <1>1, <2>1 DEF NodesOf
<1>5. n.rule = f.rule /\ n.severity = f.severity /\ n.file = f.file
  BY NodeFields
<1> HIDE DEF n
<1>6. ASSUME NEW v \in h.witnesses, WitnessMatches(v, n) PROVE FALSE
  <2>1. v \in g.witnesses \ {x}
    BY <1>1
  <2>2. v.rule = x.rule /\ v.severity = x.severity /\ (Has(n.file) => v.file = n.file)
    BY <1>3, <1>5, <1>6 DEF WitnessMatches
  <2>3. Has(x.file) /\ v.file # x.file
    BY <2>1, <2>2
  <2> QED BY <1>3, <1>5, <2>2, <2>3
<1> QED BY <1>4, <1>6, FindingUnwitnessed DEF h

-----------------------------------------------------------------------------
(* The checks whose evidence is written.                                    *)

(* A finding with the severity that the check gives it.                     *)
ReportedAs(c, f) ==
  [f EXCEPT !.severity = IF f.rule \in RequiredRules(c) THEN "error"
                         ELSE IF ConfiguredSeverity(c, f) = Absent THEN f.severity ELSE ConfiguredSeverity(c, f)]

(* No required rule is switched off where the configuration weakens none.   *)
LEMMA RequiredStaysOn ==
  ASSUME NEW c, Configured(c), ConfigurationFindings(c) = {}, NEW f \in Range(c.found), f.rule \in RequiredRules(c)
  PROVE  ConfiguredSeverity(c, f) # "off"
<1> DEFINE given == {i \in DOMAIN c.overrides : f.file \in c.overrides[i].files /\ f.rule \in DOMAIN c.overrides[i].rules}
           last == CHOOSE i \in given : \A j \in given : j <= i
           weak(rules) == {r \in DOMAIN rules \cap RequiredRules(c) : rules[r] # "error"}
<1>1. given # {} => last \in given
  <2>1. DOMAIN c.overrides = 1..Len(c.overrides) /\ Len(c.overrides) \in Nat
    BY DEF Configured
  <2> QED BY <2>1, LastExists
<1>2. /\ {Weakened("repo", Absent, Absent, r) : r \in weak(c.repo)} = {}
      /\ \A cell \in DOMAIN c.cells : {Weakened("cell", cell, Absent, r) : r \in weak(c.cells[cell])} = {}
      /\ \A i \in DOMAIN c.overrides : {Weakened("override", Absent, Absent, r) : r \in weak(c.overrides[i].rules)} = {}
      /\ {Weakened("cli", Absent, Absent, r) : r \in weak(c.cli)} = {}
  <2> DEFINE R == {Weakened("repo", Absent, Absent, r) : r \in weak(c.repo)}
             C(cell) == {Weakened("cell", cell, Absent, r) : r \in weak(c.cells[cell])}
             O(i) == {Weakened("override", Absent, Absent, r) : r \in weak(c.overrides[i].rules)}
             L == {Weakened("cli", Absent, Absent, r) : r \in weak(c.cli)}
  <2>1. R \cup (UNION {C(cell) : cell \in DOMAIN c.cells}) \cup (UNION {O(i) : i \in DOMAIN c.overrides}) \cup L = {}
    BY DEF ConfigurationFindings
  <2> HIDE DEF R, C, O, L
  <2>2. R = {} /\ L = {} /\ (\A cell \in DOMAIN c.cells : C(cell) = {}) /\ (\A i \in DOMAIN c.overrides : O(i) = {})
    BY <2>1
  <2> QED BY <2>2, Zenon DEF R, C, O, L
<1>3. /\ weak(c.repo) = {} /\ weak(c.cli) = {}
      /\ \A cell \in DOMAIN c.cells : weak(c.cells[cell]) = {}
      /\ \A i \in DOMAIN c.overrides : weak(c.overrides[i].rules) = {}
  BY <1>2, Zenon
<1>4. /\ f.rule \in DOMAIN c.repo => c.repo[f.rule] = "error"
      /\ f.rule \in DOMAIN c.cli => c.cli[f.rule] = "error"
      /\ \A cell \in DOMAIN c.cells : f.rule \in DOMAIN c.cells[cell] => c.cells[cell][f.rule] = "error"
      /\ \A i \in DOMAIN c.overrides : f.rule \in DOMAIN c.overrides[i].rules => c.overrides[i].rules[f.rule] = "error"
  BY <1>3
<1>5. f.cell \in DOMAIN c.cells
  BY DEF Configured
<1>6. given # {} => c.overrides[last].rules[f.rule] = "error"
  BY <1>1, <1>4
<1> HIDE DEF weak
<1> QED BY <1>4, <1>5, <1>6 DEF ConfiguredSeverity, Absent

(* Then what is active is what was found, with the severity given to it.    *)
LEMMA ActiveIsGiven ==
  ASSUME NEW c \in RecordCases
  PROVE  /\ RawFindings(c) = Range(c.found)
         /\ \A a \in ApplyWaivers(c, ApplySeverities(c, RawFindings(c))) : \E f \in Range(c.found) : a = ReportedAs(c, f) /\ ReportedAs(c, f).severity \in {"error", "warning"}
<1>1. Configured(c) /\ ConfigurationFindings(c) = {}
  BY RecordsAssumption
<1>2. RawFindings(c) = Range(c.found)
  BY <1>1 DEF RawFindings
<1>3. ApplyWaivers(c, ApplySeverities(c, RawFindings(c))) \subseteq ApplySeverities(c, RawFindings(c))
  <2>1. \A n \in WaiverLines(c) : n \in ValidLines(c) /\ ~Astray(c, n)
    BY RecordsAssumption
  <2>2. WaiverLines(c) \ ValidLines(c) = {} /\ {m \in ValidLines(c) : Astray(c, m)} = {}
    BY <2>1 DEF ValidLines
  <2> QED BY <2>2 DEF ApplyWaivers
<1>4. ASSUME NEW f \in Range(c.found), NEW a \in Adjusted(c, f)
      PROVE  a = ReportedAs(c, f) /\ ReportedAs(c, f).severity \in {"error", "warning"}
  <2>1. ConfiguredSeverity(c, f) # "off"
    BY <1>1, <1>4, RequiredStaysOn DEF Adjusted
  <2>2. a = ReportedAs(c, f)
    BY <1>4, <2>1 DEF Adjusted, ReportedAs
  <2>3. ConfiguredSeverity(c, f) \in {"error", "warning", Absent} /\ f.severity \in {"error", "warning"}
    <3>1. ConfiguredSeverity(c, f) \in Severities \cup {Absent}
      BY <1>1, ConfiguredIsSeverity
    <3> QED BY <1>1, <2>1, <3>1 DEF Configured, Severities
  <2>4. "severity" \in DOMAIN f
    <3>1. ReportedIn(c, f)
      BY RecordsAssumption
    <3>2. DOMAIN [f EXCEPT !.severity = "error", !.what = "x"] = DOMAIN f
      OBVIOUS
    <3>3. "severity" \in DOMAIN [f EXCEPT !.severity = "error", !.what = "x"]
      BY <3>1, ZenonT(60) DEF ReportedIn, UnresolvedImport, UnownedTarget, PrivateImport, UndeclaredConsumer, UndeclaredArtifact, UndeclaredAccess,
         SymbolMismatch, UnownedSource, RatchetFinding, FindingOf
    <3> QED BY <3>2, <3>3
  <2> QED BY <2>2, <2>3, <2>4 DEF ReportedAs
<1> QED BY <1>2, <1>3, <1>4 DEF ApplySeverities

(* What the graph looks at of a finding, but for its severity.              *)
Alike(a, f) ==
  /\ a.rule = f.rule /\ a.file = f.file /\ a.cell = f.cell /\ a.producer = f.producer /\ a.details = f.details

(* The fields of what is found.                                             *)
LEMMA FindingFields ==
  ASSUME NEW rule, NEW cell, NEW producer, NEW file, NEW details
  PROVE  LET f == FindingOf(rule, cell, producer, file, details) IN
         /\ {"rule", "file", "cell", "producer", "details", "severity", "what"} \subseteq DOMAIN f
         /\ f.rule = rule /\ f.file = file /\ f.cell = cell /\ f.producer = producer /\ f.details = details
BY DEF FindingOf

(* A finding is what its rule reports.                                      *)
LEMMA ReportedForm ==
  ASSUME NEW c \in RecordCases, NEW f \in Range(c.found)
  PROVE  /\ {"rule", "file", "cell", "producer", "details"} \subseteq DOMAIN f
         /\ LET sources == c.sources \cap c.present IN
            \/ f.file \in sources /\ Alike(f, UnresolvedImport(f.file))
            \/ f.file \in sources /\ Has(f.cell) /\ Alike(f, UnownedTarget(f.cell, f.file))
            \/ f.file \in sources /\ Has(f.cell) /\ Has(f.producer) /\ Alike(f, PrivateImport(f.cell, f.producer, f.file))
            \/ f.file \in sources /\ Has(f.cell) /\ Has(f.producer) /\ Alike(f, UndeclaredConsumer(f.cell, f.producer, f.file))
            \/ f.file \in sources /\ Has(f.cell) /\ Has(f.producer) /\ Alike(f, UndeclaredArtifact(f.cell, f.producer, f.file))
            \/ /\ f.file \in sources \cup (c.evidence \cap c.present)
               /\ Has(f.cell) /\ Alike(f, UndeclaredAccess(f.cell, f.file))
            \/ /\ Has(f.file) /\ (f.file \in c.sources => f.file \in sources \cap c.entries)
               /\ Has(f.cell) /\ Alike(f, SymbolMismatch(f.cell, f.file))
            \/ Has(f.file) /\ Alike(f, UnownedSource(f.file))
            \/ /\ f.rule \in DOMAIN RatchetDetails /\ Has(c.baseline)
               /\ Has(f.cell) /\ Alike(f, RatchetFinding(f.rule, f.cell))
<1> DEFINE g == [f EXCEPT !.severity = "error", !.what = "x"]
           sources == c.sources \cap c.present
<1>1. ReportedIn(c, f)
  BY RecordsAssumption
<1>2. ASSUME NEW rule, NEW cell, NEW producer, NEW file, NEW details, g = FindingOf(rule, cell, producer, file, details)
      PROVE  {"rule", "file", "cell", "producer", "details"} \subseteq DOMAIN f /\ Alike(f, g)
  <2> DEFINE h == FindingOf(rule, cell, producer, file, details)
  <2>1. {"rule", "file", "cell", "producer", "details"} \subseteq DOMAIN h
    BY DEF FindingOf
  <2>2. DOMAIN g = DOMAIN f
    OBVIOUS
  <2>3. h = g
    BY <1>2
  <2> HIDE DEF h
  <2> QED BY <2>1, <2>2, <2>3 DEF Alike
<1>3. \/ f.file \in sources /\ g = UnresolvedImport(f.file)
      \/ f.file \in sources /\ Has(f.cell) /\ g = UnownedTarget(f.cell, f.file)
      \/ f.file \in sources /\ Has(f.cell) /\ Has(f.producer) /\ g = PrivateImport(f.cell, f.producer, f.file)
      \/ f.file \in sources /\ Has(f.cell) /\ Has(f.producer) /\ g = UndeclaredConsumer(f.cell, f.producer, f.file)
      \/ f.file \in sources /\ Has(f.cell) /\ Has(f.producer) /\ g = UndeclaredArtifact(f.cell, f.producer, f.file)
      \/ /\ f.file \in sources \cup (c.evidence \cap c.present)
         /\ Has(f.cell) /\ g = UndeclaredAccess(f.cell, f.file)
      \/ /\ Has(f.file) /\ (f.file \in c.sources => f.file \in sources \cap c.entries)
         /\ Has(f.cell) /\ g = SymbolMismatch(f.cell, f.file)
      \/ Has(f.file) /\ g = UnownedSource(f.file)
      \/ /\ f.rule \in DOMAIN RatchetDetails /\ Has(c.baseline)
         /\ Has(f.cell) /\ g = RatchetFinding(f.rule, f.cell)
  <2> HIDE DEF g
  <2>1. {PrivateImport(f.cell, f.producer, f.file), UndeclaredConsumer(f.cell, f.producer, f.file),
              UndeclaredArtifact(f.cell, f.producer, f.file)} =
        {PrivateImport(f.cell, f.producer, f.file)} \cup {UndeclaredConsumer(f.cell, f.producer, f.file)} \cup {UndeclaredArtifact(f.cell, f.producer, f.file)}
    OBVIOUS
  <2> QED BY <1>1, <2>1 DEF ReportedIn, g
<1> HIDE DEF g
<1>4. {"rule", "file", "cell", "producer", "details"} \subseteq DOMAIN f /\ Alike(f, g)
  BY <1>2, <1>3, Zenon DEF UnresolvedImport, UnownedTarget, PrivateImport, UndeclaredConsumer, UndeclaredArtifact, UndeclaredAccess,
     SymbolMismatch, UnownedSource, RatchetFinding
<1> QED BY <1>3, <1>4, Zenon

(* And it keeps all but its severity.                                       *)
LEMMA GivenAlike ==
  ASSUME NEW c \in RecordCases, NEW f \in Range(c.found)
  PROVE  Alike(ReportedAs(c, f), f)
<1>1. {"rule", "file", "cell", "producer", "details"} \subseteq DOMAIN f
  BY ReportedForm, Zenon
<1> QED BY <1>1 DEF Alike, ReportedAs

(* The subjects of a witness.                                               *)
LEMMA SubjectsOfFinding ==
  ASSUME NEW a
  PROVE  /\ \A keys : keys \subseteq a.details => Detail(keys) \subseteq Subjects(a)
         /\ Has(a.file) => <<"file", "filePath">> \in Subjects(a)
         /\ Has(a.cell) => CellSubject \in Subjects(a)
         /\ Has(a.producer) => ProducerSubject \in Subjects(a)
BY DEF Subjects, Detail, Has

(* An observation is of a file of the snapshot, with one of four statuses.  *)
LEMMA ObservationFields ==
  ASSUME NEW w, NEW raw, NEW o \in Observations(w, raw)
  PROVE  o.file \in SubjectFiles(w) /\ o.status \in {"processed", "parse-error", "unsupported", "not-applicable"}
<1> DEFINE at(q) ==
      LET role == RoleOf(w, q) IN
         CASE role = "manifest" -> {Observed(q, "manifest", "processed"), Observed(q, "ownership", "processed")}
           [] role = "baseline" -> {Observed(q, "baseline", "processed")}
           [] role = "runtime-evidence" -> {Observed(q, "resources", DiagnosedStatus(q, "resources", raw))}
           [] role = "config" -> {Observed(q, "imports", "not-applicable")}
           [] role = "source" -> {Observed(q, f, SourceStatus(w, q, f, raw)) : f \in {"imports", "public-surface", "resources"}}
<1>1. Observations(w, raw) = UNION {at(q) : q \in SubjectFiles(w)}
  BY DEF Observations
<1>2. PICK q \in SubjectFiles(w) : o \in at(q)
  BY <1>1
<1>3. RoleOf(w, q) \in {"manifest", "baseline", "config", "runtime-evidence", "source"}
  BY DEF RoleOf
<1>4. \A family : DiagnosedStatus(q, family, raw) \in {"processed", "parse-error", "unsupported"}
  BY DEF DiagnosedStatus
<1>5. \A family : SourceStatus(w, q, family, raw) \in {"processed", "parse-error", "unsupported", "not-applicable"}
  BY <1>4 DEF SourceStatus
<1> QED BY <1>2, <1>3, <1>4, <1>5 DEF Observed

(* Evidence without defects: what was required of a file and of a family was*)
(* processed.                                                               *)
LEMMA RequiredIsProcessed ==
  ASSUME NEW w, NEW raw, EvidenceDefects(w, Observations(w, raw)) = {}
  PROVE  /\ \A r \in RequiredObservations(w) :
              \E o \in Observations(w, raw) : o.status = "processed" /\ o.file = r[1] /\ o.family = r[2]
         /\ \A family \in RequiredFamilies(w) :
              \E o \in Observations(w, raw) : o.status = "processed" /\ o.family = family
<1> DEFINE observations == Observations(w, raw)
           done == {o \in observations : o.status # "not-applicable"}
           absent == {<<"missing family", f>> : f \in RequiredFamilies(w) \ {o.family : o \in done}}
<1>1. \A o \in done : o.status = "processed"
  <2>1. \A o \in observations : o.status \notin {"parse-error", "unsupported"}
    BY NoDefects, Zenon
  <2> QED BY <2>1, ObservationFields
<1>2. \A r \in RequiredObservations(w) : \E o \in done : o.file = r[1] /\ o.family = r[2]
  <2>1. \A r \in RequiredObservations(w) : \E o \in observations : o.status # "not-applicable" /\ o.file = r[1] /\ o.family = r[2]
    BY NoDefects, Zenon
  <2> QED BY <2>1
<1>3. \A family \in RequiredFamilies(w) : \E o \in done : o.family = family
  <2>1. absent = {}
    BY Zenon DEF EvidenceDefects
  <2> QED BY <2>1
<1> QED BY <1>1, <1>2, <1>3

(* The profile of a policy rule holds of what its rule reports: the witness *)
(* has the subjects, and the evidence that it rests on is required.         *)
Backed(c, a, profile) ==
  /\ profile.allOf \subseteq Subjects(a)
  /\ profile.anyOf = {} \/ profile.anyOf \cap Subjects(a) # {}
  /\ \/ profile.sameFile = TRUE /\ Has(a.file) /\ <<a.file, profile.family>> \in RequiredObservations(c)
     \/ profile.sameFile = FALSE /\ profile.family \in RequiredFamilies(c)
     \/ a.rule = "PUBLIC_SYMBOL_MISMATCH" /\ a.file \notin c.sources

(* What is required of a source and of an evidence file that are there.     *)
LEMMA RequiredOfFile ==
  ASSUME NEW c \in RecordCases
  PROVE  /\ \A p \in c.sources \cap c.present :
              /\ Has(p) /\ {<<p, "imports">>, <<p, "resources">>} \subseteq RequiredObservations(c)
              /\ p \in c.entries => <<p, "public-surface">> \in RequiredObservations(c)
         /\ \A p \in c.evidence \cap c.present : Has(p) /\ <<p, "resources">> \in RequiredObservations(c)
<1> DEFINE at(p) ==
         LET role == RoleOf(c, p) IN
         {<<p, f>> : f \in CASE role = "manifest" -> {"manifest", "ownership"}
                             [] role = "baseline" -> {"baseline"}
                             [] role = "runtime-evidence" -> {"resources"}
                             [] role = "config" -> {}
                             [] role = "source" -> {"imports", "resources"} \cup (IF p \in c.entries THEN {"public-surface"} ELSE {})}
<1>1. RequiredObservations(c) = UNION {at(p) : p \in SubjectFiles(c)}
  BY DEF RequiredObservations
<1>2. /\ Absent \notin c.present /\ c.evidence \cap c.sources = {}
      /\ {c.manifest, c.baseline, ConfigFile} \cap (c.evidence \cup c.sources) = {}
  BY RecordsAssumption
<1>3. ASSUME NEW p \in c.sources \cap c.present
      PROVE  /\ Has(p) /\ {<<p, "imports">>, <<p, "resources">>} \subseteq RequiredObservations(c)
             /\ p \in c.entries => <<p, "public-surface">> \in RequiredObservations(c)
  <2>1. RoleOf(c, p) = "source" /\ p \in SubjectFiles(c) /\ Has(p)
    BY <1>2 DEF RoleOf, SubjectFiles, Has
  <2>2. at(p) = {<<p, f>> : f \in {"imports", "resources"} \cup (IF p \in c.entries THEN {"public-surface"} ELSE {})}
    BY <2>1
  <2> HIDE DEF at
  <2>3. at(p) \subseteq RequiredObservations(c)
    BY <1>1, <2>1
  <2> QED BY <2>1, <2>2, <2>3
<1>4. ASSUME NEW p \in c.evidence \cap c.present
      PROVE  Has(p) /\ <<p, "resources">> \in RequiredObservations(c)
  <2>1. RoleOf(c, p) = "runtime-evidence" /\ p \in SubjectFiles(c) /\ Has(p)
    BY <1>2 DEF RoleOf, SubjectFiles, Has
  <2>2. at(p) = {<<p, f>> : f \in {"resources"}}
    BY <2>1
  <2> HIDE DEF at
  <2>3. at(p) \subseteq RequiredObservations(c)
    BY <1>1, <2>1
  <2> QED BY <2>1, <2>2, <2>3
<1> QED BY <1>3, <1>4

(* The profiles of the rules that compare with a baseline.                  *)
LEMMA RatchetRules ==
  ASSUME NEW rule \in DOMAIN RatchetDetails, rule \in DOMAIN PolicyRuleProfiles
  PROVE  /\ PolicyRuleProfiles[rule].family = "baseline" /\ PolicyRuleProfiles[rule].sameFile = FALSE
         /\ PolicyRuleProfiles[rule].anyOf = {}
         /\ PolicyRuleProfiles[rule].allOf \subseteq {CellSubject} \cup Detail(RatchetDetails[rule])
<1>1. rule \in {"RATCHET_CELL_SET_GROWTH", "RATCHET_PUBLIC_ENTRY_CHANGE", "RATCHET_OWNERSHIP_SCOPE_CHANGE",
                "RATCHET_PUBLIC_SYMBOL_SET_CHANGE", "RATCHET_DEPENDENCY_EDGE_CHANGE", "RATCHET_ARTIFACT_CONTRACT_CHANGE",
                "RATCHET_PUBLIC_SURFACE_SIGNATURE_CHANGE", "RATCHET_OWNED_PATH_GROWTH", "RATCHET_PUBLIC_SYMBOL_GROWTH",
                "RATCHET_PUBLIC_SURFACE_LINE_GROWTH", "RATCHET_CROSS_CELL_DEPENDENCY_GROWTH"}
  BY DEF RatchetDetails, PolicyRuleProfiles
<1>2. \E keys : PolicyRuleProfiles[rule] = RatchetProfile(keys) /\ keys \subseteq RatchetDetails[rule]
  BY <1>1 DEF RatchetDetails, PolicyRuleProfiles
<1>3. PICK keys : PolicyRuleProfiles[rule] = RatchetProfile(keys) /\ keys \subseteq RatchetDetails[rule]
  BY <1>2
<1> QED BY <1>3 DEF RatchetProfile, Profile, Detail

(* The profiles of the other rules.                                         *)
LEMMA RuleProfiles ==
  /\ PolicyRuleProfiles["UNRESOLVED_IMPORT"] = Profile("imports", TRUE, Detail({"specifier"}), {})
  /\ PolicyRuleProfiles["UNOWNED_IMPORT_TARGET"] = Profile("imports", TRUE, Detail({"targetPath"}), {})
  /\ PolicyRuleProfiles["PRIVATE_IMPORT"] = Profile("imports", TRUE, Detail({"targetPath"}), {})
  /\ PolicyRuleProfiles["UNDECLARED_CONSUMER"] =
       Profile("imports", TRUE, {CellSubject, ProducerSubject} \cup Detail({"specifier"}), {})
  /\ PolicyRuleProfiles["UNDECLARED_ARTIFACT"] =
       Profile("imports", TRUE, {CellSubject, ProducerSubject} \cup Detail({"specifier", "artifactLaneId"}), {})
  /\ PolicyRuleProfiles["UNDECLARED_RESOURCE_ACCESS"] =
       Profile("resources", TRUE, {CellSubject} \cup Detail({"kind", "access", "selector"}), {})
  /\ PolicyRuleProfiles["PUBLIC_SYMBOL_MISMATCH"] =
       Profile("public-surface", TRUE, {CellSubject}, Detail({"missingSymbols", "undeclaredSymbols"}))
  /\ PolicyRuleProfiles["UNOWNED_SOURCE"] =
       Profile("ownership", FALSE, {}, {<<"detail", "path">>, <<"file", "filePath">>})
BY DEF PolicyRuleProfiles

(* A finding about a file rests on an observation of that file.             *)
LEMMA BackedByFile ==
  ASSUME NEW c \in RecordCases, NEW a, NEW family, NEW allOf, NEW anyOf, NEW profile,
         profile = Profile(family, TRUE, allOf, anyOf),
         Has(a.file), <<a.file, family>> \in RequiredObservations(c), allOf \subseteq Subjects(a),
         anyOf = {} \/ anyOf \cap Subjects(a) # {}
  PROVE  Backed(c, a, profile)
<1>1. profile.family = family /\ profile.sameFile = TRUE /\ profile.allOf = allOf /\ profile.anyOf = anyOf
  BY DEF Profile
<1> QED BY <1>1 DEF Backed

(* The policy profile of its rule holds of every finding.                   *)
LEMMA FindingIsBacked ==
  ASSUME NEW c \in RecordCases, NEW f \in Range(c.found), NEW a, Alike(a, f), a.rule \in DOMAIN PolicyRuleProfiles
  PROVE  Backed(c, a, PolicyRuleProfiles[a.rule])
<1> DEFINE sources == c.sources \cap c.present
<1>1. a.rule = f.rule /\ a.file = f.file /\ a.cell = f.cell /\ a.producer = f.producer /\ a.details = f.details
  BY DEF Alike
<1>2. CASE f.file \in sources /\ Alike(f, UnresolvedImport(f.file))
  <2>1. a.rule = "UNRESOLVED_IMPORT" /\ a.details = {"line", "specifier"}
    BY <1>1, <1>2, FindingFields DEF Alike, UnresolvedImport
  <2>2. Detail({"specifier"}) \subseteq Subjects(a)
    BY <2>1, SubjectsOfFinding
  <2>3. Has(a.file) /\ <<a.file, "imports">> \in RequiredObservations(c)
    BY <1>1, <1>2, RequiredOfFile
  <2>4. PolicyRuleProfiles[a.rule] = Profile("imports", TRUE, Detail({"specifier"}), {})
    BY <2>1, RuleProfiles
  <2> QED BY <2>2, <2>3, <2>4, BackedByFile, Zenon
<1>3. CASE f.file \in sources /\ Has(f.cell) /\ Alike(f, UnownedTarget(f.cell, f.file))
  <2>1. a.rule = "UNOWNED_IMPORT_TARGET" /\ a.details = {"specifier", "targetPath", "line"}
    BY <1>1, <1>3, FindingFields DEF Alike, UnownedTarget
  <2>2. Detail({"targetPath"}) \subseteq Subjects(a)
    BY <2>1, SubjectsOfFinding
  <2>3. Has(a.file) /\ <<a.file, "imports">> \in RequiredObservations(c)
    BY <1>1, <1>3, RequiredOfFile
  <2>4. PolicyRuleProfiles[a.rule] = Profile("imports", TRUE, Detail({"targetPath"}), {})
    BY <2>1, RuleProfiles
  <2> QED BY <2>2, <2>3, <2>4, BackedByFile, Zenon
<1>4. CASE f.file \in sources /\ Has(f.cell) /\ Has(f.producer) /\ Alike(f, PrivateImport(f.cell, f.producer, f.file))
  <2>1. a.rule = "PRIVATE_IMPORT" /\ a.details = {"specifier", "targetPath", "line"}
    BY <1>1, <1>4, FindingFields DEF Alike, PrivateImport
  <2>2. Detail({"targetPath"}) \subseteq Subjects(a)
    BY <2>1, SubjectsOfFinding
  <2>3. Has(a.file) /\ <<a.file, "imports">> \in RequiredObservations(c)
    BY <1>1, <1>4, RequiredOfFile
  <2>4. PolicyRuleProfiles[a.rule] = Profile("imports", TRUE, Detail({"targetPath"}), {})
    BY <2>1, RuleProfiles
  <2> QED BY <2>2, <2>3, <2>4, BackedByFile, Zenon
<1>5. CASE f.file \in sources /\ Has(f.cell) /\ Has(f.producer) /\ Alike(f, UndeclaredConsumer(f.cell, f.producer, f.file))
  <2>1. a.rule = "UNDECLARED_CONSUMER" /\ a.details = {"specifier", "line", "kind", "typeOnly"}
    BY <1>1, <1>5, FindingFields DEF Alike, UndeclaredConsumer
  <2>2. {CellSubject, ProducerSubject} \cup Detail({"specifier"}) \subseteq Subjects(a)
    <3>1. Detail({"specifier"}) \subseteq Subjects(a)
      BY <2>1, SubjectsOfFinding
    <3> QED BY <1>1, <1>5, <3>1, SubjectsOfFinding
  <2>3. Has(a.file) /\ <<a.file, "imports">> \in RequiredObservations(c)
    BY <1>1, <1>5, RequiredOfFile
  <2>4. PolicyRuleProfiles[a.rule] = Profile("imports", TRUE, {CellSubject, ProducerSubject} \cup Detail({"specifier"}), {})
    BY <2>1, RuleProfiles
  <2> QED BY <2>2, <2>3, <2>4, BackedByFile, Zenon
<1>6. CASE f.file \in sources /\ Has(f.cell) /\ Has(f.producer) /\ Alike(f, UndeclaredArtifact(f.cell, f.producer, f.file))
  <2>1. a.rule = "UNDECLARED_ARTIFACT" /\ a.details = {"specifier", "artifactLaneId", "line"}
    BY <1>1, <1>6, FindingFields DEF Alike, UndeclaredArtifact
  <2>2. {CellSubject, ProducerSubject} \cup Detail({"specifier", "artifactLaneId"}) \subseteq Subjects(a)
    <3>1. Detail({"specifier", "artifactLaneId"}) \subseteq Subjects(a)
      BY <2>1, SubjectsOfFinding
    <3> QED BY <1>1, <1>6, <3>1, SubjectsOfFinding
  <2>3. Has(a.file) /\ <<a.file, "imports">> \in RequiredObservations(c)
    BY <1>1, <1>6, RequiredOfFile
  <2>4. PolicyRuleProfiles[a.rule] = Profile("imports", TRUE, {CellSubject, ProducerSubject} \cup Detail({"specifier", "artifactLaneId"}), {})
    BY <2>1, RuleProfiles
  <2> QED BY <2>2, <2>3, <2>4, BackedByFile, Zenon
<1>7. CASE f.file \in sources \cup (c.evidence \cap c.present) /\ Has(f.cell) /\ Alike(f, UndeclaredAccess(f.cell, f.file))
  <2>1. /\ a.rule = "UNDECLARED_RESOURCE_ACCESS"
        /\ a.details = {"kind", "access", "selector", "line", "source", "detectedBy", "confidence"}
    BY <1>1, <1>7, FindingFields DEF Alike, UndeclaredAccess
  <2>2. {CellSubject} \cup Detail({"kind", "access", "selector"}) \subseteq Subjects(a)
    <3>1. Detail({"kind", "access", "selector"}) \subseteq Subjects(a)
      BY <2>1, SubjectsOfFinding
    <3> QED BY <1>1, <1>7, <3>1, SubjectsOfFinding
  <2>3. Has(a.file) /\ <<a.file, "resources">> \in RequiredObservations(c)
    BY <1>1, <1>7, RequiredOfFile
  <2>4. PolicyRuleProfiles[a.rule] = Profile("resources", TRUE, {CellSubject} \cup Detail({"kind", "access", "selector"}), {})
    BY <2>1, RuleProfiles
  <2> QED BY <2>2, <2>3, <2>4, BackedByFile, Zenon
<1>8. CASE /\ Has(f.file) /\ (f.file \in c.sources => f.file \in sources \cap c.entries)
           /\ Has(f.cell) /\ Alike(f, SymbolMismatch(f.cell, f.file))
  <2>1. a.rule = "PUBLIC_SYMBOL_MISMATCH" /\ a.details = {"missingSymbols", "undeclaredSymbols", "line"}
    BY <1>1, <1>8, FindingFields DEF Alike, SymbolMismatch
  <2> DEFINE subjects == Detail({"missingSymbols", "undeclaredSymbols"})
  <2>2. {CellSubject} \subseteq Subjects(a) /\ subjects \cap Subjects(a) # {}
    <3>1. subjects \subseteq Subjects(a)
      BY <2>1, SubjectsOfFinding
    <3>2. <<"detail", "missingSymbols">> \in subjects
      BY DEF Detail
    <3> QED BY <1>1, <1>8, <3>1, <3>2, SubjectsOfFinding
  <2>3. CASE f.file \in c.sources
    <3>1. Has(a.file) /\ <<a.file, "public-surface">> \in RequiredObservations(c)
      BY <1>1, <1>8, <2>3, RequiredOfFile
    <3>2. PolicyRuleProfiles[a.rule] = Profile("public-surface", TRUE, {CellSubject}, subjects)
      BY <2>1, RuleProfiles
    <3> HIDE DEF subjects
    <3> QED BY <2>2, <3>1, <3>2, BackedByFile, Zenon
  <2>4. CASE f.file \notin c.sources
    <3> HIDE DEF subjects
    <3>1. PolicyRuleProfiles[a.rule] = Profile("public-surface", TRUE, {CellSubject}, subjects)
      BY <2>1, RuleProfiles DEF subjects
    <3>2. PolicyRuleProfiles[a.rule].allOf = {CellSubject} /\ PolicyRuleProfiles[a.rule].anyOf = subjects
      BY <3>1 DEF Profile
    <3> QED BY <1>1, <2>1, <2>2, <2>4, <3>2 DEF Backed
  <2> QED BY <2>3, <2>4
<1>9. CASE Has(f.file) /\ Alike(f, UnownedSource(f.file))
  <2>1. a.rule = "UNOWNED_SOURCE" /\ <<"file", "filePath">> \in Subjects(a)
    BY <1>1, <1>9, FindingFields, SubjectsOfFinding DEF Alike, UnownedSource
  <2>2. "ownership" \in RequiredFamilies(c)
    BY DEF RequiredFamilies
  <2>3. PolicyRuleProfiles[a.rule] = Profile("ownership", FALSE, {}, {<<"detail", "path">>, <<"file", "filePath">>})
    BY <2>1, RuleProfiles
  <2> DEFINE profile == PolicyRuleProfiles[a.rule]
  <2>4. /\ profile.allOf = {} /\ profile.anyOf = {<<"detail", "path">>, <<"file", "filePath">>}
        /\ profile.sameFile = FALSE /\ profile.family = "ownership"
    BY <2>3 DEF Profile
  <2> HIDE DEF profile
  <2>5. Backed(c, a, profile)
    BY <2>1, <2>2, <2>4 DEF Backed
  <2> QED BY <2>5 DEF profile
<1>10. CASE f.rule \in DOMAIN RatchetDetails /\ Has(c.baseline) /\ Has(f.cell) /\ Alike(f, RatchetFinding(f.rule, f.cell))
  <2>1. a.rule \in DOMAIN RatchetDetails /\ a.details = RatchetDetails[a.rule]
    BY <1>1, <1>10, FindingFields DEF Alike, RatchetFinding
  <2>2. {CellSubject} \cup Detail(RatchetDetails[a.rule]) \subseteq Subjects(a)
    BY <1>1, <1>10, <2>1, SubjectsOfFinding
  <2>3. "baseline" \in RequiredFamilies(c)
    BY <1>10 DEF RequiredFamilies, Has
  <2> QED BY <2>1, <2>2, <2>3, RatchetRules DEF Backed
<1> QED BY <1>2, <1>3, <1>4, <1>5, <1>6, <1>7, <1>8, <1>9, <1>10, ReportedForm, Zenon

(* What checkRepository writes of a check.                                  *)
ActiveOf(c) == ApplyWaivers(c, ApplySeverities(c, RawFindings(c)))
StatusesOf(c) == Observations(c, RawFindings(c))
DefectsOf(c) == EvidenceDefects(c, StatusesOf(c))
GraphOfCheck(c) == EvidenceGraph(c, StatusesOf(c), ActiveOf(c), DefectsOf(c))

(* An active finding is of a rule that reports it.                          *)
LEMMA ActiveForm ==
  ASSUME NEW c \in RecordCases, NEW a \in ActiveOf(c)
  PROVE  /\ a.severity \in {"error", "warning"}
         /\ \E f \in Range(c.found) : a = ReportedAs(c, f) /\ Alike(a, f)
<1>1. PICK f \in Range(c.found) : a = ReportedAs(c, f) /\ ReportedAs(c, f).severity \in {"error", "warning"}
  BY ActiveIsGiven DEF ActiveOf
<1> QED BY <1>1, GivenAlike

(* Its graph is one that stands: whatever it refers to has a file or, when  *)
(* it compares with a baseline, a cell.                                     *)
LEMMA GraphOfRecord ==
  ASSUME NEW c \in RecordCases
  PROVE  GraphOf(GraphOfCheck(c), c, StatusesOf(c), ActiveOf(c), DefectsOf(c))
<1>1. Absent \notin SubjectFiles(c)
  BY RecordsAssumption DEF SubjectFiles
<1>2. \A o \in StatusesOf(c) : Has(o.file)
  BY <1>1, ObservationFields DEF StatusesOf, Has
<1>3. ASSUME NEW a \in ActiveOf(c), ~Has(a.file) PROVE Subjects(a) # {}
  <2>1. PICK f \in Range(c.found) : Alike(a, f)
    BY ActiveForm
  <2>2. a.file = f.file /\ a.cell = f.cell
    BY <2>1 DEF Alike
  <2>3. f.file \notin c.sources \cap c.present /\ f.file \notin c.evidence \cap c.present
    BY <1>3, <2>2, RequiredOfFile
  <2>4. Has(f.cell)
    BY <1>3, <2>2, <2>3, ReportedForm, Zenon
  <2> QED BY <2>2, <2>4, SubjectsOfFinding
<1> QED BY <1>1, <1>2, <1>3 DEF GraphOf, GraphOfCheck

(* With complete evidence, only a mismatch of an entry that is no source is *)
(* without an observation.                                                  *)
LEMMA PoliciesAreBacked ==
  ASSUME NEW c \in RecordCases, DefectsOf(c) = {}, NEW d \in PolicyDefects(GraphOfCheck(c))
  PROVE  \E f \in Range(c.found) : f.rule = d[2] /\ f.rule = "PUBLIC_SYMBOL_MISMATCH" /\ f.file \notin c.sources
<1> DEFINE g == GraphOfCheck(c)
           profileOf(w) == PolicyRuleProfiles[w.rule]
           of(w) == {<<"POLICY_WITNESS_MISSING_OBSERVATION", w.rule>> : x \in {y \in {w} : ~ObservationPresent(g, y, profileOf(w))}}
                    \cup {<<"POLICY_WITNESS_MISSING_SUBJECT", w.rule>> : x \in profileOf(w).allOf \ w.subjects}
                    \cup {<<"POLICY_WITNESS_MISSING_ALTERNATIVE_SUBJECT", w.rule>> :
                            x \in {y \in {profileOf(w).anyOf} \ {{}} : y \cap w.subjects = {}}}
<1>0. GraphOf(g, c, StatusesOf(c), ActiveOf(c), DefectsOf(c))
  BY GraphOfRecord
<1>1. PICK w \in g.witnesses : w.rule \in DOMAIN PolicyRuleProfiles /\ d \in of(w)
  <2>1. PolicyDefects(g) = UNION {of(w) : w \in {x \in g.witnesses : x.rule \in DOMAIN PolicyRuleProfiles}}
    BY DEF PolicyDefects
  <2> HIDE DEF of, g
  <2>2. d \in PolicyDefects(g)
    BY DEF g
  <2> QED BY <2>1, <2>2
<1> HIDE DEF g
<1>2. PICK a \in ActiveOf(c) : w = WitnessOf(a)
  <2>1. g.witnesses = {WitnessOf(a) : a \in ActiveOf(c)}
    BY <1>0, GraphParts
  <2> QED BY <2>1
<1>3. w.rule = a.rule /\ w.file = a.file /\ w.subjects = Subjects(a)
  BY <1>2, WitnessFields
<1>4. PICK f \in Range(c.found) : Alike(a, f)
  BY ActiveForm
<1> DEFINE profile == PolicyRuleProfiles[w.rule]
<1>5. Backed(c, a, profile)
  BY <1>1, <1>3, <1>4, FindingIsBacked
<1> HIDE DEF profile
<1>6. profile.allOf \ w.subjects = {} /\ {y \in {profile.anyOf} \ {{}} : y \cap w.subjects = {}} = {}
  BY <1>3, <1>5 DEF Backed
<1>7. d = <<"POLICY_WITNESS_MISSING_OBSERVATION", w.rule>> /\ ~ObservationPresent(g, w, profile)
  BY <1>1, <1>6 DEF profile
<1>8. \A o \in StatusesOf(c) : ObservationNode(o) \in NodesOf(g, "observation")
  <2>1. NodesOf(g, "observation") = {ObservationNode(o) : o \in StatusesOf(c)}
    BY <1>0, NodesOfKind
  <2> QED BY <2>1
<1>9. ~(profile.sameFile = TRUE /\ Has(a.file) /\ <<a.file, profile.family>> \in RequiredObservations(c))
  <2> SUFFICES ASSUME profile.sameFile = TRUE, Has(a.file), <<a.file, profile.family>> \in RequiredObservations(c)
               PROVE  FALSE
    OBVIOUS
  <2>1. PICK o \in StatusesOf(c) : o.status = "processed" /\ o.file = a.file /\ o.family = profile.family
    BY RequiredIsProcessed DEF DefectsOf, StatusesOf
  <2>2. /\ ObservationNode(o).status = "processed" /\ ObservationNode(o).family = profile.family
        /\ ObservationNode(o).file = w.file
    BY <1>3, <2>1, NodeFields
  <2>3. ObservationPresent(g, w, profile)
    BY <1>3, <1>8, <2>2, Zenon DEF ObservationPresent
  <2> QED BY <1>7, <2>3
<1>10. ~(profile.sameFile = FALSE /\ profile.family \in RequiredFamilies(c))
  <2> SUFFICES ASSUME profile.sameFile = FALSE, profile.family \in RequiredFamilies(c)
               PROVE  FALSE
    OBVIOUS
  <2>1. PICK o \in StatusesOf(c) : o.status = "processed" /\ o.family = profile.family
    BY RequiredIsProcessed DEF DefectsOf, StatusesOf
  <2>2. ObservationNode(o).status = "processed" /\ ObservationNode(o).family = profile.family
    BY <2>1, NodeFields
  <2>3. ObservationPresent(g, w, profile)
    BY <1>8, <2>2, Zenon DEF ObservationPresent
  <2> QED BY <1>7, <2>3
<1>11. a.rule = "PUBLIC_SYMBOL_MISMATCH" /\ a.file \notin c.sources
  BY <1>5, <1>9, <1>10 DEF Backed
<1>12. d[2] = a.rule
  BY <1>3, <1>7
<1> QED BY <1>4, <1>11, <1>12 DEF Alike

-----------------------------------------------------------------------------
(* The acceptance record of a check.                                        *)
BodyOf(c) == RecordBody(c, ActiveOf(c), DefectsOf(c), <<GraphOfCheck(c)>>)

(* What the record says.                                                    *)
LEMMA BodyFields ==
  ASSUME NEW c, NEW body, body = BodyOf(c)
  PROVE  /\ body.controls.graphDigest = <<GraphOfCheck(c)>>
         /\ body.evidence.snapshot = SubjectFiles(c) /\ body.evidence.status = Complete(DefectsOf(c))
         /\ body.evidence.defects = DefectsOf(c)
         /\ body.decision.gate = GateDecision(DefectsOf(c), ActiveOf(c)) /\ body.decision.input = "VALID"
         /\ body.decision.evidence = Complete(DefectsOf(c))
         /\ body.decision.rules = RuleResults(c, ActiveOf(c), DefectsOf(c))
         /\ body.decision.assurance = Assurance(RuleResults(c, ActiveOf(c), DefectsOf(c)))
         /\ body.findings.errors = Cardinality(Errors(ActiveOf(c)))
BY DEF BodyOf, RecordBody

(* A record that says ALLOW and less than that everything is in order has a *)
(* defect.                                                                  *)
LEMMA AllowIsContradicted ==
  ASSUME NEW body, body.decision.gate = "ALLOW",
         \/ body.decision.evidence # "COMPLETE" \/ body.decision.assurance # "SATISFIED"
         \/ body.evidence.defects # {} \/ body.findings.errors # 0
  PROVE  AllowDefects(body) # {}
<1>1. CASE body.decision.evidence # "COMPLETE"
  <2>1. "ALLOW_WITH_INCOMPLETE_DECISION_EVIDENCE" \in AllowDefects(body)
    BY <1>1, Zenon DEF AllowDefects
  <2> QED BY <2>1
<1>2. CASE body.decision.assurance # "SATISFIED"
  <2>1. "ALLOW_WITH_UNSATISFIED_ASSURANCE" \in AllowDefects(body)
    BY <1>2, Zenon DEF AllowDefects
  <2> QED BY <2>1
<1>3. CASE body.evidence.defects # {}
  <2>1. "ALLOW_WITH_EVIDENCE_DEFECTS" \in AllowDefects(body)
    BY <1>3, Zenon DEF AllowDefects
  <2> QED BY <2>1
<1>4. CASE body.findings.errors # 0
  <2>1. "ALLOW_WITH_ERROR_FINDINGS" \in AllowDefects(body)
    BY <1>4, Zenon DEF AllowDefects
  <2> QED BY <2>1
<1> QED BY <1>1, <1>2, <1>3, <1>4

(* The active errors of a check can be counted.                             *)
LEMMA ErrorsAreCounted ==
  ASSUME NEW c \in RecordCases
  PROVE  /\ Errors(ActiveOf(c)) = {a \in ActiveOf(c) : a.severity = "error"}
         /\ Cardinality(Errors(ActiveOf(c))) = 0 <=> Errors(ActiveOf(c)) = {}
<1> DEFINE n == Len(c.found)
           F == [i \in 1..n |-> ReportedAs(c, c.found[i])]
           T == {F[i] : i \in 1..n}
<1>1. c.found \in Seq(Range(c.found))
  BY RecordsAssumption DEF Configured
<1>2. n \in Nat /\ DOMAIN c.found = 1..n
  BY <1>1
<1>3. ActiveOf(c) \subseteq T
  <2> SUFFICES ASSUME NEW a \in ActiveOf(c) PROVE a \in T
    OBVIOUS
  <2>1. PICK f \in Range(c.found) : a = ReportedAs(c, f)
    BY ActiveForm
  <2>2. PICK i \in 1..n : f = c.found[i]
    BY <1>2 DEF Range
  <2> QED BY <2>1, <2>2
<1>4. IsFiniteSet(T)
  <2>1. IsFiniteSet(1..n)
    BY <1>2, FS_Interval
  <2>2. F \in [1..n -> T] /\ \A t \in T : \E i \in 1..n : F[i] = t
    BY DEF T
  <2>3. F \in Surjection(1..n, T)
    BY <2>2 DEF Surjection
  <2> HIDE DEF F, T
  <2> QED BY <2>1, <2>3, FS_Surjection
<1> HIDE DEF T
<1>5. IsFiniteSet(Errors(ActiveOf(c)))
  BY <1>3, <1>4, FS_Subset DEF Errors
<1>6. \A a \in ActiveOf(c) : a.severity \in {"error", "warning"}
  BY ActiveForm
<1> QED BY <1>5, <1>6, FS_EmptySet DEF Errors

(* The statuses of the rules: an error violates its rule, and without one   *)
(* and with all evidence every required rule is satisfied.                  *)
LEMMA AssuranceOf ==
  ASSUME NEW w, NEW active, NEW defects
  PROVE  /\ Errors(active) # {} => Assurance(RuleResults(w, active, defects)) = "VIOLATED"
         /\ Errors(active) = {} /\ defects = {} =>
              /\ Assurance(RuleResults(w, active, defects)) = "SATISFIED"
              /\ \A r \in RuleResults(w, active, defects) : r.status = "SATISFIED"
<1> DEFINE results == RuleResults(w, active, defects)
<1>1. CASE Errors(active) # {}
  <2>1. PICK f \in Errors(active) : TRUE
    BY <1>1
  <2>2. [rule |-> f.rule, status |-> "VIOLATED"] \in results
    BY <2>1 DEF RuleResults
  <2> HIDE DEF results
  <2>3. [rule |-> f.rule, status |-> "VIOLATED"].status = "VIOLATED"
    OBVIOUS
  <2>4. "VIOLATED" \in {r.status : r \in results}
    BY <2>2, <2>3, Zenon
  <2>5. Assurance(results) = "VIOLATED"
    BY <2>4 DEF Assurance
  <2> QED BY <1>1, <2>5 DEF results
<1>2. CASE Errors(active) = {} /\ defects = {}
  <2>1. \A r \in results : r.status = "SATISFIED"
    BY <1>2 DEF RuleResults
  <2> HIDE DEF results
  <2>2. Assurance(results) = "SATISFIED"
    BY <2>1 DEF Assurance
  <2> QED BY <1>2, <2>1, <2>2 DEF results
<1> QED BY <1>1, <1>2

(* A record verifies against its graph.                                     *)
LEMMA RecordStands ==
  ASSUME NEW c \in RecordCases
  PROVE  RecordDefects(SealedRecord(BodyOf(c)), <<GraphOfCheck(c)>>) = {}
<1> DEFINE body == BodyOf(c)
           record == SealedRecord(body)
           graph == GraphOfCheck(c)
<1>1. record.body = body /\ record.digest = <<body>>
  BY DEF SealedRecord
<1>2. /\ body.controls.graphDigest = <<graph>> /\ body.evidence.snapshot = SubjectFiles(c)
      /\ graph.snapshot = SubjectFiles(c)
  <2>1. graph.snapshot = SubjectFiles(c)
    BY DEF GraphOfCheck, EvidenceGraph
  <2> QED BY <2>1, BodyFields
<1>3. body.decision.gate = "ALLOW" => AllowDefects(body) = {}
  <2> SUFFICES ASSUME body.decision.gate = "ALLOW" PROVE AllowDefects(body) = {}
    OBVIOUS
  <2>1. GateDecision(DefectsOf(c), ActiveOf(c)) = "ALLOW"
    BY BodyFields
  <2>2. DefectsOf(c) = {} /\ ~\E a \in ActiveOf(c) : a.severity = "error"
    BY <2>1 DEF GateDecision
  <2>3. Errors(ActiveOf(c)) = {} /\ Cardinality(Errors(ActiveOf(c))) = 0
    BY <2>2, ErrorsAreCounted
  <2>4. /\ body.evidence.status = "COMPLETE" /\ body.evidence.defects = {}
        /\ body.decision.input = "VALID" /\ body.decision.evidence = "COMPLETE"
        /\ body.findings.errors = 0
    BY <2>2, <2>3, BodyFields DEF Complete
  <2>5. body.decision.assurance = "SATISFIED" /\ \A r \in body.decision.rules : r.status = "SATISFIED"
    BY <2>2, <2>3, AssuranceOf, BodyFields
  <2> HIDE DEF body
  <2>6. {r \in body.decision.rules : r.status \in {"VIOLATED", "UNKNOWN"}} = {}
    BY <2>5
  <2> QED BY <2>4, <2>5, <2>6 DEF AllowDefects
<1> HIDE DEF body, record, graph
<1>4. AllowDefects(body) = {}
  BY <1>3 DEF AllowDefects
<1>5. GraphDigestDefects(body, <<graph>>) = {}
  BY <1>2 DEF GraphDigestDefects
<1>6. RecordDefects(record, <<graph>>) = {}
  BY <1>1, <1>4, <1>5 DEF RecordDefects
<1> QED BY <1>6 DEF record, graph, body

(* And with no other graph does it.                                         *)
LEMMA OtherGraphIsSeen ==
  ASSUME NEW c \in RecordCases, NEW other, other # GraphOfCheck(c)
  PROVE  RecordDefects(SealedRecord(BodyOf(c)), <<other>>) # {}
<1> DEFINE body == BodyOf(c)
<1>1. body.controls.graphDigest = <<GraphOfCheck(c)>>
  BY BodyFields
<1>2. SealedRecord(body).body = body
  BY DEF SealedRecord
<1> HIDE DEF body
<1>3. "EVIDENCE_GRAPH_DIGEST_MISMATCH" \in GraphDigestDefects(body, <<other>>)
  <2> DEFINE given == <<other>>
             noted == body.controls.graphDigest
  <2>1. given # <<>> /\ noted # <<>> /\ given # noted
    BY <1>1
  <2> HIDE DEF given, noted
  <2>2. "EVIDENCE_GRAPH_DIGEST_MISMATCH" \in {"EVIDENCE_GRAPH_DIGEST_MISMATCH" : x \in {y \in {given} : y # noted}}
    BY <2>1
  <2>3. "EVIDENCE_GRAPH_DIGEST_MISMATCH" \in GraphDigestDefects(body, given)
    BY <2>1, <2>2, Zenon DEF GraphDigestDefects, noted
  <2> QED BY <2>3 DEF given
<1>4. RecordDefects(SealedRecord(body), <<other>>) # {}
  BY <1>2, <1>3 DEF RecordDefects
<1> QED BY <1>4 DEF body

(* A BLOCK whose decision and one section are rewritten is found out.       *)
LEMMA BlockStays ==
  ASSUME NEW c \in RecordCases, GateDecision(DefectsOf(c), ActiveOf(c)) = "BLOCK"
  PROVE  LET body == BodyOf(c)
             allowed == [body EXCEPT !.decision.gate = "ALLOW"]
             clean == [gate |-> "ALLOW", input |-> "VALID", evidence |-> "COMPLETE", assurance |-> "SATISFIED", rules |-> {}]
         IN \A forged \in {allowed, [allowed EXCEPT !.decision = clean], [allowed EXCEPT !.findings.errors = 0],
                           [allowed EXCEPT !.evidence.status = "COMPLETE", !.evidence.defects = {}]} :
              RecordDefects(SealedRecord(forged), <<>>) # {}
<1> DEFINE body == BodyOf(c)
           allowed == [body EXCEPT !.decision.gate = "ALLOW"]
           clean == [gate |-> "ALLOW", input |-> "VALID", evidence |-> "COMPLETE", assurance |-> "SATISFIED", rules |-> {}]
           judged == [allowed EXCEPT !.decision = clean]
           counted == [allowed EXCEPT !.findings.errors = 0]
           completed == [allowed EXCEPT !.evidence.status = "COMPLETE", !.evidence.defects = {}]
<1>1. /\ body = [controls |-> body.controls, evidence |-> body.evidence, decision |-> body.decision, findings |-> body.findings]
      /\ body.evidence = [snapshot |-> body.evidence.snapshot, status |-> body.evidence.status, defects |-> body.evidence.defects]
      /\ body.decision = [gate |-> body.decision.gate, input |-> body.decision.input, evidence |-> body.decision.evidence,
                          assurance |-> body.decision.assurance, rules |-> body.decision.rules]
      /\ body.findings = [errors |-> body.findings.errors, warnings |-> body.findings.warnings]
  BY DEF BodyOf, RecordBody
<1>2. \/ body.evidence.defects # {} /\ body.decision.evidence # "COMPLETE"
      \/ body.findings.errors # 0 /\ body.decision.assurance # "SATISFIED"
  <2>1. CASE DefectsOf(c) # {}
    BY <2>1, BodyFields DEF Complete
  <2>2. CASE DefectsOf(c) = {}
    <3>1. Errors(ActiveOf(c)) # {}
      BY <2>2, ErrorsAreCounted DEF GateDecision
    <3> QED BY <3>1, AssuranceOf, ErrorsAreCounted, BodyFields
  <2> QED BY <2>1, <2>2
<1> HIDE DEF body
<1>3. /\ allowed.decision.gate = "ALLOW" /\ judged.decision.gate = "ALLOW" /\ counted.decision.gate = "ALLOW"
      /\ completed.decision.gate = "ALLOW"
  BY <1>1
<1>4. /\ allowed.evidence.defects = body.evidence.defects /\ allowed.findings.errors = body.findings.errors
      /\ judged.evidence.defects = body.evidence.defects /\ judged.findings.errors = body.findings.errors
      /\ counted.decision.evidence = body.decision.evidence /\ counted.decision.assurance = body.decision.assurance
      /\ completed.decision.evidence = body.decision.evidence /\ completed.decision.assurance = body.decision.assurance
  BY <1>1
<1> HIDE DEF allowed, judged, counted, completed
<1>5. /\ AllowDefects(allowed) # {} /\ AllowDefects(judged) # {} /\ AllowDefects(counted) # {}
      /\ AllowDefects(completed) # {}
  BY <1>2, <1>3, <1>4, AllowIsContradicted
<1>6. \A forged : AllowDefects(forged) # {} => RecordDefects(SealedRecord(forged), <<>>) # {}
  <2> SUFFICES ASSUME NEW forged, AllowDefects(forged) # {} PROVE RecordDefects(SealedRecord(forged), <<>>) # {}
    OBVIOUS
  <2>1. SealedRecord(forged).body = forged
    BY DEF SealedRecord
  <2> QED BY <2>1 DEF RecordDefects
<1>7. \A forged \in {allowed, judged, counted, completed} : RecordDefects(SealedRecord(forged), <<>>) # {}
  BY <1>5, <1>6
<1> QED BY <1>7 DEF allowed, judged, counted, completed, body

-----------------------------------------------------------------------------
(* The evidence of a check *)

(* The answer of a written check, field by field.                           *)
LEMMA RecordAnswer ==
  ASSUME RecordsDecided, Is("records")
  PROVE  /\ input \in RecordCases
         /\ answer.graph = GraphOfCheck(input) /\ answer.defects = DefectsOf(input)
         /\ answer.record = SealedRecord(BodyOf(input))
BY DEF RecordsDecided, GraphOfCheck, BodyOf, ActiveOf, StatusesOf, DefectsOf

(* The verifier is content with what checkRepository writes, but for the    *)
(* policy profile of a public symbol mismatch whose entry is no source.     *)
LEMMA RecordsVerify == RecordsDecided => GraphsVerify
<1> SUFFICES ASSUME RecordsDecided, Is("records")
             PROVE  /\ GraphDefects(answer.graph) = {}
                    /\ answer.defects = {} =>
                         \A d \in PolicyDefects(answer.graph) :
                           \E f \in Range(input.found) :
                             f.rule = d[2] /\ f.rule = "PUBLIC_SYMBOL_MISMATCH" /\ f.file \notin input.sources
  BY DEF GraphsVerify
<1>1. /\ input \in RecordCases /\ answer.graph = GraphOfCheck(input) /\ answer.defects = DefectsOf(input)
  BY RecordAnswer
<1>2. GraphDefects(answer.graph) = {}
  BY <1>1, GraphOfRecord, GraphStands
<1>3. ASSUME answer.defects = {}, NEW d \in PolicyDefects(answer.graph)
      PROVE  \E f \in Range(input.found) : f.rule = d[2] /\ f.rule = "PUBLIC_SYMBOL_MISMATCH" /\ f.file \notin input.sources
  BY <1>1, <1>3, PoliciesAreBacked
<1> QED BY <1>2, <1>3

(* Whatever is cut out of the graph is missed, unless nothing else tells of *)
(* it.                                                                      *)
LEMMA CutsSeen == RecordsDecided => CutsAreSeen
<1> SUFFICES ASSUME RecordsDecided, Is("records")
             PROVE  LET g == answer.graph IN
                    /\ \A e \in g.edges : GraphDefects(Without(g, "edges", e)) # {}
                    /\ \A n \in g.nodes : ~Untied(g, n) => GraphDefects(Without(g, "nodes", n)) # {}
                    /\ \A w \in g.witnesses :
                         (\A v \in g.witnesses \ {w} : <<v.rule, v.severity>> = <<w.rule, w.severity>> => Has(w.file) /\ v.file # w.file) =>
                           GraphDefects(Without(g, "witnesses", w)) # {}
  BY DEF CutsAreSeen, Untied
<1>1. /\ input \in RecordCases /\ answer.graph = GraphOfCheck(input)
  BY RecordAnswer
<1>2. GraphOf(answer.graph, input, StatusesOf(input), ActiveOf(input), DefectsOf(input))
  BY <1>1, GraphOfRecord, SMTT(30)
<1> QED BY <1>2, EdgeCutIsSeen, NodeCutIsSeen, WitnessCutIsSeen

(* The record of a check stands, not with another graph, and a record that  *)
(* was blocked cannot be made to say ALLOW.                                 *)
LEMMA RecordsHold == RecordsDecided => RecordsCannotBeTurned
<1> SUFFICES ASSUME RecordsDecided, Is("records") PROVE RecordsCannotBeTurned
  BY DEF RecordsCannotBeTurned
<1>1. /\ input \in RecordCases /\ answer.graph = GraphOfCheck(input) /\ answer.record = SealedRecord(BodyOf(input))
  BY RecordAnswer
<1>2. answer.record.body = BodyOf(input)
  BY <1>1 DEF SealedRecord
<1>3. RecordDefects(answer.record, <<answer.graph>>) = {}
  BY <1>1, RecordStands
<1>4. ASSUME NEW w \in answer.graph.witnesses
      PROVE  RecordDefects(answer.record, <<Without(answer.graph, "witnesses", w)>>) # {}
  <2>1. GraphOf(answer.graph, input, StatusesOf(input), ActiveOf(input), DefectsOf(input))
    BY <1>1, GraphOfRecord
  <2>2. Without(answer.graph, "witnesses", w).witnesses = answer.graph.witnesses \ {w}
    BY <2>1, CutFields
  <2>3. Without(answer.graph, "witnesses", w) # answer.graph
    BY <1>4, <2>2
  <2> QED BY <1>1, <2>3, OtherGraphIsSeen
<1>5. GateDecision(DefectsOf(input), ActiveOf(input)) = BodyOf(input).decision.gate
  BY BodyFields
<1> QED BY <1>1, <1>2, <1>3, <1>4, <1>5, BlockStays DEF RecordsCannotBeTurned

(* What a check writes, verifies: evidence-graph-verify finds no defect in  *)
(* the graph (verifyEvidenceGraph) and, where the evidence is complete,     *)
(* none against the policy profiles but that of a mismatch whose entry is   *)
(* no source.                                                               *)
THEOREM RecordsAlwaysVerify == Spec => []GraphsVerify
<1>1. Decided => GraphsVerify
  BY RecordsVerify DEF Decided
<1> QED BY <1>1, AlwaysDecided, PTL

(* An edge, a node or a witness that is cut out of the graph of a check is  *)
(* missed by evidence-graph-verify, unless nothing else tells of it.        *)
THEOREM CutsAreAlwaysSeen == Spec => []CutsAreSeen
<1>1. Decided => CutsAreSeen
  BY CutsSeen DEF Decided
<1> QED BY <1>1, AlwaysDecided, PTL

(* The acceptance record of a check passes acceptance-record-verify with    *)
(* its own graph only, and one that was blocked cannot be sealed again as   *)
(* ALLOW without a contradiction that the verifier reports.                 *)
THEOREM RecordsAreNeverTurned == Spec => []RecordsCannotBeTurned
<1>1. Decided => RecordsCannotBeTurned
  BY RecordsHold DEF Decided
<1> QED BY <1>1, AlwaysDecided, PTL

-----------------------------------------------------------------------------
(* The sample                                                              *)

(* The first few of some places are all of them or as many as were asked.  *)
LEMMA FirstFewAreEnough ==
  ASSUME NEW findings, findings \in Seq(Range(findings)),
         \A i, k \in DOMAIN findings : findings[i] = findings[k] => i = k,
         NEW places \in SUBSET DOMAIN findings, NEW n \in Int
  PROVE  LET few == FirstFew(findings, places, n)
         IN /\ few \subseteq {findings[i] : i \in places}
            /\ {findings[i] : i \in places} \subseteq few \/ Cardinality(few) >= n
<1> DEFINE before(k) == {h \in places : h < k}
           taken == {k \in places : Cardinality(before(k)) < n}
           few == FirstFew(findings, places, n)
<1>1. few = {findings[i] : i \in taken}
  BY DEF FirstFew
<1>2. DOMAIN findings = 1..Len(findings) /\ Len(findings) \in Nat
  OBVIOUS
<1>3. IsFiniteSet(places) /\ \A S \in SUBSET places : IsFiniteSet(S) /\ Cardinality(S) \in Nat
  <2>1. IsFiniteSet(1..Len(findings))
    BY <1>2, FS_Interval
  <2>2. IsFiniteSet(places)
    BY <1>2, <2>1, FS_Subset
  <2> QED BY <2>2, FS_Subset, FS_CardinalityType
<1>4. Cardinality(few) = Cardinality(taken)
  <2>1. taken \subseteq DOMAIN findings /\ IsFiniteSet(taken)
    BY <1>3
  <2> HIDE DEF taken
  <2> QED BY <1>1, <2>1, ImageCount
<1>5. few \subseteq {findings[i] : i \in places}
  BY <1>1
<1>7. CASE taken = places
  BY <1>1, <1>5, <1>7
<1>6. CASE taken # places
  <2> DEFINE others == places \ taken
  <2>1. others \in SUBSET Nat /\ others # {}
    <3>1. taken \subseteq places /\ places \subseteq Nat
      BY <1>2
    <3> HIDE DEF taken
    <3> QED BY <1>6, <3>1
  <2>2. PICK k \in others : \A j \in others : k <= j
    BY <2>1, LeastNumber
  <2>3. Cardinality(before(k)) \in Nat /\ ~(Cardinality(before(k)) < n)
    BY <1>3, <2>2
  <2>4. before(k) \subseteq taken
    <3>1. ASSUME NEW h \in before(k) PROVE h \in taken
      <4>1. h \in places /\ h < k /\ h \in Nat /\ k \in Nat
        BY <1>2, <2>2, <3>1
      <4>2. ~(k <= h)
        BY <4>1
      <4>3. h \notin others
        BY <2>2, <4>2
      <4> QED BY <4>1, <4>3
    <3> QED BY <3>1
  <2>5. IsFiniteSet(taken) /\ Cardinality(taken) \in Nat
    BY <1>3
  <2> HIDE DEF taken, before
  <2>6. Cardinality(before(k)) <= Cardinality(taken)
    BY <2>4, <2>5, FS_Subset
  <2>7. Cardinality(taken) >= n
    BY <2>3, <2>5, <2>6
  <2>8. Cardinality(few) >= n
    BY <1>4, <2>7
  <2> QED BY <1>5, <2>8
<1> QED BY <1>6, <1>7

(* The findings of the corpus, as they are ranked. *)
IsSampled(c) ==
  /\ {"findings", "cap", "perRepository", "share", "rules", "exclusions"} \subseteq DOMAIN c
  /\ c.findings \in Seq(Range(c.findings))
  /\ \A i, k \in DOMAIN c.findings : c.findings[i] = c.findings[k] => i = k
  /\ c.perRepository \in Nat /\ c.cap \in Nat
  /\ c.share # <<>> => c.share[1] \in (Nat \ {0}) \X (Nat \ {0})

FromRepository(S, r) == {f \in S : RepositoryOf(f) = r}
MaySample(c) == {f \in Range(c.findings) : ~IsExcluded(f, c.exclusions)}

LEMMA EligibleAreFinite ==
  ASSUME NEW c, IsSampled(c)
  PROVE  /\ IsFiniteSet(Range(c.findings)) /\ IsFiniteSet(MaySample(c))
         /\ MaySample(c) = {c.findings[i] : i \in Candidates(c)}
         /\ Candidates(c) \subseteq DOMAIN c.findings
<1>1. DOMAIN c.findings = 1..Len(c.findings) /\ Len(c.findings) \in Nat
  BY DEF IsSampled
<1>2. IsFiniteSet(DOMAIN c.findings)
  <2>1. 1 \in Int /\ Len(c.findings) \in Int
    BY <1>1
  <2>2. IsFiniteSet(1..Len(c.findings))
    BY <2>1, FS_Interval
  <2> QED BY <1>1, <2>2
<1>3. Range(c.findings) = {c.findings[i] : i \in DOMAIN c.findings}
  BY DEF Range
<1>4. IsFiniteSet(Range(c.findings))
  BY <1>2, <1>3, ImageIsFinite
<1>5. MaySample(c) \subseteq Range(c.findings)
  BY DEF MaySample
<1>6. IsFiniteSet(MaySample(c))
  BY <1>4, <1>5, FS_Subset
<1>7. MaySample(c) = {c.findings[i] : i \in Candidates(c)}
  BY <1>3 DEF MaySample, Candidates
<1>8. Candidates(c) \subseteq DOMAIN c.findings
  BY DEF Candidates
<1> QED BY <1>4, <1>6, <1>7, <1>8

(* What is drawn is of the candidates, and every repository has its minimum*)
(* of them or all it has.                                                  *)
LEMMA DrawnHasMinimum ==
  ASSUME NEW c, IsSampled(c)
  PROVE  /\ Drawn(c) \subseteq MaySample(c)
         /\ IsFiniteSet(Drawn(c))
         /\ \A f \in MaySample(c) :
              \/ Cardinality(FromRepository(Drawn(c), RepositoryOf(f))) >= c.perRepository
              \/ FromRepository(MaySample(c), RepositoryOf(f)) \subseteq Drawn(c)
<1> DEFINE findings == c.findings
           places == Candidates(c)
           sample == SampledByRule(findings, places, c.cap)
           short(r) == c.perRepository - Cardinality({f \in sample : RepositoryOf(f) = r})
           more(r) == FirstFew(findings, Wanting(findings, places, sample, r), short(r))
           repositories == {RepositoryOf(findings[i]) : i \in places}
<1>1. Drawn(c) = sample \cup UNION {more(r) : r \in repositories}
  BY DEF Drawn, FilledUp
<1>2. /\ IsFiniteSet(MaySample(c))
      /\ MaySample(c) = {findings[i] : i \in places} /\ places \subseteq DOMAIN findings
  BY EligibleAreFinite
<1>3. findings \in Seq(Range(findings)) /\ c.perRepository \in Nat
      /\ \A i, k \in DOMAIN findings : findings[i] = findings[k] => i = k
  BY DEF IsSampled
<1>4. sample \subseteq MaySample(c)
  <2>1. \A rule : FirstFew(findings, {i \in places : findings[i].ruleId = rule}, c.cap)
                    \subseteq {findings[i] : i \in places}
    BY DEF FirstFew
  <2> QED BY <1>2, <2>1 DEF SampledByRule
<1>5. \A S \in SUBSET MaySample(c) : IsFiniteSet(S) /\ Cardinality(S) \in Nat
  BY <1>2, FS_Subset, FS_CardinalityType
<1>6. ASSUME NEW r
      PROVE  LET W == Wanting(findings, places, sample, r)
             IN /\ W \subseteq places
                /\ more(r) \subseteq {findings[i] : i \in W}
                /\ {findings[i] : i \in W} \subseteq more(r) \/ Cardinality(more(r)) >= short(r)
                /\ \A f \in more(r) : f \in MaySample(c) /\ RepositoryOf(f) = r /\ f \notin sample
                /\ \A f \in MaySample(c) : RepositoryOf(f) = r /\ f \notin sample => f \in {findings[i] : i \in W}
                /\ short(r) \in Int
  <2> DEFINE W == Wanting(findings, places, sample, r)
  <2>1. {f \in sample : RepositoryOf(f) = r} \in SUBSET MaySample(c)
    BY <1>4
  <2>2. short(r) \in Int
    <3>1. Cardinality({f \in sample : RepositoryOf(f) = r}) \in Nat
      BY <1>5, <2>1
    <3> QED BY <1>3, <3>1
  <2>3. W \subseteq places /\ W \in SUBSET DOMAIN findings
    BY <1>2 DEF Wanting
  <2>4. \A f \in MaySample(c) : RepositoryOf(f) = r /\ f \notin sample => f \in {findings[i] : i \in W}
    BY <1>2 DEF Wanting
  <2>5. \A i \in W : findings[i] \in MaySample(c) /\ RepositoryOf(findings[i]) = r /\ findings[i] \notin sample
    BY <1>2 DEF Wanting
  <2> HIDE DEF W, short, sample, places, findings
  <2>6. /\ FirstFew(findings, W, short(r)) \subseteq {findings[i] : i \in W}
        /\ \/ {findings[i] : i \in W} \subseteq FirstFew(findings, W, short(r))
           \/ Cardinality(FirstFew(findings, W, short(r))) >= short(r)
    BY <1>3, <2>2, <2>3, FirstFewAreEnough
  <2>7. more(r) = FirstFew(findings, W, short(r))
    BY DEF W
  <2> HIDE DEF more
  <2>8. \A f \in more(r) : f \in MaySample(c) /\ RepositoryOf(f) = r /\ f \notin sample
    BY <2>5, <2>6, <2>7
  <2> QED BY <2>2, <2>3, <2>4, <2>6, <2>7, <2>8 DEF W
<1> HIDE DEF sample, more, short
<1>7. Drawn(c) \subseteq MaySample(c)
  BY <1>1, <1>4, <1>6
<1>8. ASSUME NEW f \in MaySample(c)
      PROVE  \/ Cardinality(FromRepository(Drawn(c), RepositoryOf(f))) >= c.perRepository
             \/ FromRepository(MaySample(c), RepositoryOf(f)) \subseteq Drawn(c)
  <2> DEFINE r == RepositoryOf(f)
             own == {x \in sample : RepositoryOf(x) = r}
             W == Wanting(findings, places, sample, r)
  <2>1. r \in repositories
    BY <1>2
  <2>2. more(r) \subseteq Drawn(c) /\ sample \subseteq Drawn(c)
    BY <1>1, <2>1
  <2>3. CASE {findings[i] : i \in W} \subseteq more(r)
    <3>1. \A x \in MaySample(c) : RepositoryOf(x) = r => x \in sample \/ x \in more(r)
      BY <1>6, <2>3
    <3> QED BY <2>2, <3>1 DEF FromRepository
  <2>4. CASE Cardinality(more(r)) >= short(r)
    <3>1. own \in SUBSET MaySample(c) /\ more(r) \in SUBSET MaySample(c)
          /\ FromRepository(Drawn(c), r) \in SUBSET MaySample(c)
      BY <1>4, <1>6, <1>7 DEF FromRepository
    <3>2. own \cap more(r) = {} /\ own \cup more(r) \subseteq FromRepository(Drawn(c), r)
      BY <1>6, <2>2 DEF FromRepository
    <3>3. short(r) = c.perRepository - Cardinality(own)
      BY DEF short
    <3> DEFINE both == own \cup more(r)
               all == FromRepository(Drawn(c), r)
               extra == more(r)
               need == c.perRepository
    <3>4. IsFiniteSet(own) /\ IsFiniteSet(extra) /\ IsFiniteSet(all)
          /\ Cardinality(own) \in Nat /\ Cardinality(extra) \in Nat /\ Cardinality(all) \in Nat
      BY <1>5, <3>1
    <3>5. own \cap extra = {} /\ own \cup extra \in SUBSET all
      BY <3>2
    <3>6. Cardinality(extra) >= need - Cardinality(own) /\ need \in Nat
      BY <1>3, <2>4, <3>3
    <3> HIDE DEF own, extra, all, need
    <3>7. Cardinality(own \cup extra) = Cardinality(own) + Cardinality(extra) - 0
      BY <3>4, <3>5, FS_Union, FS_EmptySet
    <3>8. Cardinality(own \cup extra) <= Cardinality(all)
      BY <3>4, <3>5, FS_Subset
    <3>9. Cardinality(all) >= need
      BY <3>4, <3>6, <3>7, <3>8
    <3> QED BY <3>9 DEF all, need
  <2> QED BY <1>6, <2>3, <2>4
<1>9. IsFiniteSet(Drawn(c))
  BY <1>5, <1>7
<1> QED BY <1>7, <1>8, <1>9

(* What is over its share has more than one, where every repository has one *)
(* and there are enough of them.                                            *)
LEMMA OverHasTwo ==
  ASSUME NEW n \in Nat, NEW total \in Nat, NEW many \in Nat, NEW a \in Nat, NEW b \in Nat,
         many * a >= b, many <= total, n * b > total * a
  PROVE  n >= 2
<1>1. total * a >= many * a
  <2>1. \E d \in Nat : total = many + d
    <3>1. total - many \in Nat /\ total = many + (total - many)
      OBVIOUS
    <3> QED BY <3>1
  <2>2. PICK d \in Nat : total = many + d
    BY <2>1
  <2>3. (many + d) * a = many * a + d * a /\ d * a \in Nat
    OBVIOUS
  <2>4. many * a \in Nat
    OBVIOUS
  <2> QED BY <2>2, <2>3, <2>4
<1>2. many * a \in Nat /\ total * a \in Nat /\ n * b \in Nat
  OBVIOUS
<1>3. n * b > b
  BY <1>1, <1>2
<1>4. CASE n = 0
  BY <1>3, <1>4
<1>5. CASE n = 1
  BY <1>3, <1>5
<1> QED BY <1>4, <1>5

(* The shares count the findings of every repository. *)
LEMMA SharesCount ==
  ASSUME NEW B, IsFiniteSet(B)
  PROVE  /\ DOMAIN SharesOf(B) = {RepositoryOf(f) : f \in B}
         /\ IsFiniteSet({RepositoryOf(f) : f \in B})
         /\ Cardinality({RepositoryOf(f) : f \in B}) <= Cardinality(B)
         /\ \A r \in {RepositoryOf(f) : f \in B} :
              SharesOf(B)[r] = Cardinality(FromRepository(B, r)) /\ SharesOf(B)[r] \in Nat
<1> DEFINE R == {RepositoryOf(f) : f \in B}
           g == [f \in B |-> RepositoryOf(f)]
<1>1. g \in Surjection(B, R)
  <2>1. g \in [B -> R]
    OBVIOUS
  <2>2. \A t \in R : \E x \in B : g[x] = t
    OBVIOUS
  <2> QED BY <2>1, <2>2 DEF Surjection
<1>2. IsFiniteSet(R) /\ Cardinality(R) <= Cardinality(B)
  <2> HIDE DEF g, R
  <2> QED BY <1>1, FS_Surjection
<1>3. DOMAIN SharesOf(B) = R /\ \A r \in R : SharesOf(B)[r] = Cardinality(FromRepository(B, r))
  BY DEF SharesOf, FromRepository
<1>4. ASSUME NEW r \in R PROVE Cardinality(FromRepository(B, r)) \in Nat
  <2>1. FromRepository(B, r) \in SUBSET B
    BY DEF FromRepository
  <2> QED BY <2>1, FS_Subset, FS_CardinalityType
<1> QED BY <1>2, <1>3, <1>4

(* Of finitely many repositories one is heaviest. *)
LEMMA HeaviestExists ==
  ASSUME NEW B, IsFiniteSet(B), B # {}
  PROVE  Heaviest(B) # {}
<1> DEFINE R == {RepositoryOf(f) : f \in B}
           N == Cardinality(B)
           W == {SharesOf(B)[r] : r \in R}
           T == {N - w : w \in W}
<1>1. N \in Nat
  BY FS_CardinalityType
<1>2. \A r \in R : SharesOf(B)[r] \in Nat /\ SharesOf(B)[r] <= N
  <2>1. \A r : FromRepository(B, r) \in SUBSET B
    BY DEF FromRepository
  <2>2. \A r : Cardinality(FromRepository(B, r)) <= N
    BY <2>1, FS_Subset
  <2> QED BY <2>2, SharesCount
<1>3. T \in SUBSET Nat /\ T # {}
  <2>1. R # {}
    OBVIOUS
  <2>2. W # {} /\ \A w \in W : w \in Nat /\ w <= N
    BY <1>2, <2>1
  <2> HIDE DEF W, N
  <2>3. \A w \in W : N - w \in Nat
    BY <1>1, <2>2
  <2> QED BY <2>2, <2>3
<1>4. PICK t \in T : \A j \in T : t <= j
  BY <1>3, LeastNumber
<1>5. PICK r \in R : t = N - SharesOf(B)[r]
  BY <1>4
<1>6. ASSUME NEW q \in R PROVE SharesOf(B)[q] <= SharesOf(B)[r]
  <2>1. N - SharesOf(B)[q] \in T
    OBVIOUS
  <2>2. N - SharesOf(B)[r] <= N - SharesOf(B)[q]
    BY <1>4, <1>5, <2>1
  <2>3. SharesOf(B)[q] \in Nat /\ SharesOf(B)[r] \in Nat
    BY <1>2
  <2> QED BY <1>1, <2>2, <2>3
<1>7. DOMAIN SharesOf(B) = R
  BY SharesCount
<1> HIDE DEF R
<1>8. r \in Heaviest(B)
  BY <1>6, <1>7 DEF Heaviest
<1> QED BY <1>8

(* What balancing takes away is counted, and its repository is one of the   *)
(* heaviest.                                                                *)
LEMMA RemovedIsHeaviest ==
  ASSUME NEW c, IsSampled(c), NEW B \in SUBSET MaySample(c), B # {}
  PROVE  Removed(c, B) \in B /\ RepositoryOf(Removed(c, B)) \in Heaviest(B)
<1> DEFINE repository == CHOOSE r \in Heaviest(B) : TRUE
           theirs == {i \in DOMAIN c.findings : c.findings[i] \in B /\ RepositoryOf(c.findings[i]) = repository}
           priority(i) == Removable(B, c.findings[i], c.cap)
           most == {i \in theirs : \A k \in theirs : priority(k) <= priority(i)}
<1>1. Removed(c, B) = c.findings[Max(most)]
  BY DEF Removed
<1>2. IsFiniteSet(B)
  BY EligibleAreFinite, FS_Subset
<1>3. repository \in Heaviest(B)
  BY <1>2, HeaviestExists
<1>4. theirs # {}
  <2>1. repository \in DOMAIN SharesOf(B)
    BY <1>3 DEF Heaviest
  <2>2. repository \in {RepositoryOf(f) : f \in B}
    BY <1>2, <2>1, SharesCount
  <2>3. PICK f \in B : RepositoryOf(f) = repository
    BY <2>2
  <2>4. f \in Range(c.findings)
    BY DEF MaySample
  <2>5. PICK i \in DOMAIN c.findings : f = c.findings[i]
    BY <2>4 DEF Range
  <2> HIDE DEF repository
  <2> QED BY <2>3, <2>5
<1>5. theirs \subseteq 1..Len(c.findings) /\ Len(c.findings) \in Nat
  BY DEF IsSampled
<1>6. \A i : priority(i) \in 1..3
  BY DEF Removable
<1> HIDE DEF priority
<1>7. most # {}
  <2> DEFINE T == {3 - priority(i) : i \in theirs}
  <2> HIDE DEF theirs
  <2>1. T \in SUBSET Nat /\ T # {}
    BY <1>4, <1>6
  <2>2. PICK t \in T : \A j \in T : t <= j
    BY <2>1, LeastNumber
  <2>3. PICK i \in theirs : t = 3 - priority(i)
    BY <2>2
  <2>4. ASSUME NEW k \in theirs PROVE priority(k) <= priority(i)
    <3>1. 3 - priority(i) <= 3 - priority(k)
      BY <2>2, <2>3
    <3>2. priority(i) \in 1..3 /\ priority(k) \in 1..3
      BY <1>6
    <3> QED BY <3>1, <3>2
  <2> QED BY <2>4
<1>8. most \subseteq theirs
  OBVIOUS
<1> HIDE DEF most, theirs
<1>9. Max(most) \in most
  <2>1. most \in SUBSET (1..Len(c.findings))
    BY <1>5, <1>8
  <2>2. PICK i \in most : \A j \in most : j <= i
    BY <1>5, <1>7, <2>1, LastExists
  <2>3. \A j \in most : i >= j
    BY <1>5, <2>1, <2>2
  <2> QED BY <2>3 DEF Max
<1>10. Max(most) \in theirs
  BY <1>8, <1>9
<1> QED BY <1>1, <1>3, <1>10 DEF theirs

(* What every round of balancing leaves of the drawn sample D. *)
Leaves(c, D, X) ==
  /\ X \subseteq D
  /\ D \ Balance(D, c.rules) \subseteq X
  /\ {RepositoryOf(f) : f \in Balance(X, c.rules)} = {RepositoryOf(f) : f \in Balance(D, c.rules)}

BalancingRound(c, X) ==
  LET balance == Balance(X, c.rules)
  IN IF IsEven(balance, c.share[1]) THEN X ELSE X \ {Removed(c, balance)}

(* A round that takes something away leaves one fewer, and every repository *)
(* its last.                                                                *)
LEMMA RoundLeaves ==
  ASSUME NEW c, IsSampled(c), c.share # <<>>, NEW D \in SUBSET MaySample(c), Feasible(c, D),
         NEW X, Leaves(c, D, X), ~IsEven(Balance(X, c.rules), c.share[1])
  PROVE  Leaves(c, D, BalancingRound(c, X)) /\ X # {} /\ Cardinality(BalancingRound(c, X)) = Cardinality(X) - 1
<1> DEFINE B == Balance(X, c.rules)
           R == {RepositoryOf(f) : f \in B}
           s == c.share[1]
           g == Removed(c, B)
           h == RepositoryOf(g)
<1>1. B \subseteq X /\ X \in SUBSET MaySample(c) /\ B \in SUBSET MaySample(c)
  BY DEF Balance, Leaves
<1>2. IsFiniteSet(X) /\ IsFiniteSet(B) /\ IsFiniteSet(D)
  BY <1>1, EligibleAreFinite, FS_Subset
<1>3. s[1] \in Nat /\ s[2] \in Nat
  BY DEF IsSampled
<1>4. PICK r \in R : SharesOf(B)[r] * s[2] > Cardinality(B) * s[1]
  <2>1. \E r \in DOMAIN SharesOf(B) : OverShare(SharesOf(B)[r], Cardinality(B), s)
    BY DEF IsEven
  <2>2. DOMAIN SharesOf(B) = R
    BY <1>2, SharesCount
  <2> HIDE DEF B, R, s
  <2> QED BY <2>1, <2>2 DEF OverShare
<1>5. B # {}
  OBVIOUS
<1>6. Cardinality(R) * s[1] >= s[2]
  <2>1. Balance(D, c.rules) \in SUBSET D
    BY DEF Balance
  <2>2. IsFiniteSet(Balance(D, c.rules))
    BY <1>2, <2>1, FS_Subset
  <2>3. DOMAIN SharesOf(Balance(D, c.rules)) = R
    BY <2>2, SharesCount DEF Leaves
  <2> QED BY <2>3 DEF Feasible
<1>7. g \in B /\ h \in Heaviest(B)
  BY <1>1, <1>5, RemovedIsHeaviest
<1> HIDE DEF g, h, s, B, R
<1>8. h \in R /\ SharesOf(B)[r] <= SharesOf(B)[h]
  BY <1>2, <1>4, <1>7, SharesCount DEF Heaviest, R
<1>9. SharesOf(B)[h] >= 2
  <2> DEFINE n == SharesOf(B)[r]
             m == SharesOf(B)[h]
             many == Cardinality(R)
             total == Cardinality(B)
             a == s[1]
             b == s[2]
  <2>1. n \in Nat /\ m \in Nat /\ many <= total
    BY <1>2, <1>4, <1>8, SharesCount DEF R
  <2>2. many \in Nat /\ total \in Nat
    BY <1>2, SharesCount, FS_CardinalityType DEF R
  <2>3. many * a >= b /\ n * b > total * a /\ n <= m /\ a \in Nat /\ b \in Nat
    BY <1>3, <1>4, <1>6, <1>8
  <2> HIDE DEF n, m, many, total, a, b
  <2>4. n >= 2
    BY <2>1, <2>2, <2>3, OverHasTwo
  <2>5. m >= 2
    BY <2>1, <2>3, <2>4
  <2> QED BY <2>5 DEF m
<1>10. FromRepository(B, h) \ {g} # {}
  <2>1. FromRepository(B, h) \in SUBSET B
    BY DEF FromRepository
  <2>2. IsFiniteSet(FromRepository(B, h))
    BY <1>2, <2>1, FS_Subset
  <2>3. Cardinality(FromRepository(B, h)) >= 2
    BY <1>2, <1>8, <1>9, SharesCount DEF R
  <2>4. FromRepository(B, h) # {} /\ ~\E x : FromRepository(B, h) = {x}
    <3> DEFINE O == FromRepository(B, h)
    <3> HIDE DEF O
    <3>1. IsFiniteSet(O) /\ Cardinality(O) >= 2
      BY <2>2, <2>3 DEF O
    <3>2. Cardinality(O) # 0 /\ Cardinality(O) # 1
      BY <3>1
    <3>3. O # {}
      BY <3>2, FS_EmptySet
    <3>4. ~\E x : O = {x}
      BY <3>2, FS_Singleton
    <3> QED BY <3>3, <3>4 DEF O
  <2> HIDE DEF FromRepository
  <2> QED BY <2>4
<1>11. BalancingRound(c, X) = X \ {g}
  BY DEF BalancingRound, B, g, s
<1>12. Balance(X \ {g}, c.rules) = B \ {g}
  BY DEF Balance, B
<1>13. {RepositoryOf(f) : f \in B \ {g}} = R
  <2>1. ASSUME NEW q \in R PROVE \E f \in B \ {g} : RepositoryOf(f) = q
    <3>1. CASE q = h
      BY <1>10, <3>1 DEF FromRepository
    <3>2. CASE q # h
      <4>1. PICK f \in B : RepositoryOf(f) = q
        BY DEF R
      <4>2. f # g
        BY <3>2, <4>1 DEF h
      <4> QED BY <4>1, <4>2
    <3> QED BY <3>1, <3>2
  <2> QED BY <2>1 DEF R
<1>14. Leaves(c, D, X \ {g})
  <2>1. g \in Balance(D, c.rules)
    <3>1. X \subseteq D
      BY DEF Leaves
    <3> QED BY <1>7, <3>1 DEF Balance, B
  <2>2. X \ {g} \subseteq D /\ D \ Balance(D, c.rules) \subseteq X \ {g}
    BY <2>1 DEF Leaves
  <2>3. {RepositoryOf(f) : f \in Balance(X \ {g}, c.rules)} = {RepositoryOf(f) : f \in Balance(D, c.rules)}
    BY <1>12, <1>13 DEF Leaves, R, B
  <2> QED BY <2>2, <2>3 DEF Leaves
<1>15. Cardinality(X \ {g}) = Cardinality(X) - 1 /\ X # {}
  <2>1. g \in X
    BY <1>1, <1>7
  <2> QED BY <1>2, <2>1, FS_RemoveElement
<1> QED BY <1>11, <1>14, <1>15

(* A sample of nothing is even. *)
LEMMA NothingIsEven ==
  ASSUME NEW rules, NEW share
  PROVE  IsEven(Balance({}, rules), share)
<1>1. Balance({}, rules) = {} /\ DOMAIN SharesOf({}) = {}
  BY DEF Balance, SharesOf
<1> QED BY <1>1 DEF IsEven

(* Balancing ends, and what it leaves is even. *)
LEMMA BalancedIsEven ==
  ASSUME NEW c, IsSampled(c), c.share # <<>>, NEW D \in SUBSET MaySample(c), Feasible(c, D)
  PROVE  Leaves(c, D, Balanced(c, D)) /\ IsEven(Balance(Balanced(c, D), c.rules), c.share[1])
<1> DEFINE N == Cardinality(D)
           even == CHOOSE even : even = [n \in 0..N |-> IF n = 0 THEN D ELSE BalancingRound(c, even[n - 1])]
           V == SUBSET D
           step == [p \in (1..N) \X V |-> BalancingRound(c, p[2])]
           Kept(k, X) == Leaves(c, D, X) /\ (IsEven(Balance(X, c.rules), c.share[1]) \/ Cardinality(X) + k <= N)
           S == {k \in 0..N : Kept(k, even[k])}
<1>1. IsFiniteSet(D) /\ N \in Nat
  BY EligibleAreFinite, FS_Subset, FS_CardinalityType
<1>2. Balanced(c, D) = even[N]
  BY DEF Balanced, BalancingRound
<1>3. even = [n \in 0..N |-> IF n = 0 THEN D ELSE BalancingRound(c, even[n - 1])]
  <2>1. \A X \in V : BalancingRound(c, X) \in V
    BY DEF BalancingRound
  <2>2. \A k \in 1..N : \A v \in V : step[<<k, v>>] = BalancingRound(c, v)
    OBVIOUS
  <2>3. D \in V
    OBVIOUS
  <2> HIDE DEF step, V, N
  <2>4. PICK g : GoesOn(g, N, V, D, step)
    BY <1>1, <2>1, <2>2, <2>3, Recursion
  <2>5. g = [n \in 0..N |-> IF n = 0 THEN D ELSE BalancingRound(c, g[n - 1])]
    <3>1. g = [n \in 0..N |-> g[n]] /\ g[0] = D
      BY <2>4 DEF GoesOn
    <3>2. ASSUME NEW n \in 0..N, n # 0 PROVE g[n] = BalancingRound(c, g[n - 1])
      <4>1. n \in 1..N /\ n - 1 \in 0..N
        BY <1>1, <3>2
      <4>2. g[n - 1] \in V
        BY <2>4, <4>1 DEF GoesOn
      <4> QED BY <2>2, <2>4, <4>1, <4>2 DEF GoesOn
    <3> QED BY <3>1, <3>2
  <2> QED BY <2>5
<1> HIDE DEF even
<1>4. 0 \in S
  <2>1. even[0] = D /\ 0 \in 0..N
    BY <1>1, <1>3
  <2>2. Leaves(c, D, D)
    BY DEF Leaves
  <2>3. Cardinality(D) + 0 <= N
    BY <1>1
  <2> QED BY <2>1, <2>2, <2>3
<1>5. ASSUME NEW k \in 0..N, k \in S, k < N PROVE k + 1 \in S
  <2> DEFINE X == even[k]
  <2>1. k + 1 \in 0..N /\ k + 1 # 0 /\ (k + 1) - 1 = k
    BY <1>1, <1>5
  <2>2. even[k + 1] = BalancingRound(c, X)
    BY <1>3, <2>1
  <2>3. Kept(k, X)
    BY <1>5
  <2> HIDE DEF X
  <2>4. CASE IsEven(Balance(X, c.rules), c.share[1])
    <3>1. BalancingRound(c, X) = X
      BY <2>4 DEF BalancingRound
    <3>2. Kept(k + 1, X)
      BY <2>3, <2>4
    <3> QED BY <2>1, <2>2, <3>1, <3>2
  <2>5. CASE ~IsEven(Balance(X, c.rules), c.share[1])
    <3>1. Leaves(c, D, X) /\ Cardinality(X) + k <= N
      BY <2>3, <2>5
    <3>2. Leaves(c, D, BalancingRound(c, X)) /\ Cardinality(BalancingRound(c, X)) = Cardinality(X) - 1
      BY <2>5, <3>1, RoundLeaves
    <3>3. Cardinality(X) \in Nat
      <4>1. X \in SUBSET D
        BY <3>1 DEF Leaves
      <4> QED BY <1>1, <4>1, FS_Subset, FS_CardinalityType
    <3>4. Cardinality(BalancingRound(c, X)) + (k + 1) <= N
      BY <1>1, <3>1, <3>2, <3>3
    <3>5. Kept(k + 1, BalancingRound(c, X))
      BY <3>2, <3>4
    <3> QED BY <2>1, <2>2, <3>5
  <2> QED BY <2>4, <2>5
<1>6. N \in S
  <2> HIDE DEF S
  <2>1. \A k \in 0..N : k \in S
    BY <1>1, <1>4, <1>5, Climb
  <2> QED BY <1>1, <2>1
<1>7. Kept(N, even[N])
  BY <1>6
<1>8. ASSUME NEW X, Kept(N, X) PROVE Leaves(c, D, X) /\ IsEven(Balance(X, c.rules), c.share[1])
  <2>1. Leaves(c, D, X)
    BY <1>8
  <2>2. CASE Cardinality(X) + N <= N
    <3>1. X \in SUBSET D
      BY <2>1 DEF Leaves
    <3>2. IsFiniteSet(X) /\ Cardinality(X) \in Nat
      BY <1>1, <3>1, FS_Subset, FS_CardinalityType
    <3>3. Cardinality(X) = 0
      BY <1>1, <2>2, <3>2
    <3>4. X = {}
      BY <3>2, <3>3, FS_EmptySet
    <3> QED BY <2>1, <3>4, NothingIsEven
  <2> QED BY <1>8, <2>1, <2>2
<1> QED BY <1>2, <1>7, <1>8

(* The sample, as SampleIsBalanced says it of an input and an answer. *)
LEMMA SampleSettles ==
  ASSUME NEW c, IsSampled(c)
  PROVE  LET drawn == Drawn(c)
             counted == Balance(drawn, c.rules)
             repositories == {RepositoryOf(f) : f \in counted}
             enough == c.share # <<>> /\ Cardinality(repositories) * c.share[1][1] >= c.share[1][2]
         IN /\ Sample([c EXCEPT !.share = <<>>]) = drawn
            /\ Sample(c) \subseteq drawn
            /\ drawn \ counted \subseteq Sample(c)
            /\ ~enough => Sample(c) = drawn
            /\ enough =>
                 \A r \in repositories :
                   LET kept == FromRepository(Balance(Sample(c), c.rules), r)
                   IN /\ kept # {}
                      /\ Cardinality(kept) * c.share[1][2]
                           <= Cardinality(Balance(Sample(c), c.rules)) * c.share[1][1]
<1> DEFINE drawn == Drawn(c)
           counted == Balance(drawn, c.rules)
           repositories == {RepositoryOf(f) : f \in counted}
           enough == c.share # <<>> /\ Cardinality(repositories) * c.share[1][1] >= c.share[1][2]
           d == [c EXCEPT !.share = <<>>]
<1>1. Sample(d) = drawn
  <2>1. /\ d.share = <<>> /\ d.findings = c.findings /\ d.cap = c.cap
        /\ d.perRepository = c.perRepository /\ d.exclusions = c.exclusions
    BY DEF IsSampled
  <2> HIDE DEF d
  <2> QED BY <2>1 DEF Sample, Drawn, Candidates
<1>2. drawn \in SUBSET MaySample(c) /\ IsFiniteSet(drawn)
  BY DrawnHasMinimum
<1>3. c.share # <<>> => (Feasible(c, drawn) <=> enough)
  <2>1. counted \in SUBSET drawn
    BY DEF Balance
  <2>2. IsFiniteSet(counted)
    BY <1>2, <2>1, FS_Subset
  <2> HIDE DEF counted, drawn
  <2>3. DOMAIN SharesOf(counted) = repositories
    BY <2>2, SharesCount
  <2> QED BY <2>3 DEF Feasible, counted
<1>4. ~enough => Sample(c) = drawn
  BY <1>3 DEF Sample
<1>5. ASSUME enough
      PROVE  /\ Leaves(c, drawn, Sample(c))
             /\ IsEven(Balance(Sample(c), c.rules), c.share[1])
  <2>1. c.share # <<>> /\ Feasible(c, drawn)
    BY <1>3, <1>5
  <2>2. Sample(c) = Balanced(c, drawn)
    BY <2>1 DEF Sample
  <2> HIDE DEF drawn
  <2> QED BY <1>2, <2>1, <2>2, BalancedIsEven
<1>6. ASSUME enough, NEW r \in repositories
      PROVE  LET kept == FromRepository(Balance(Sample(c), c.rules), r)
             IN /\ kept # {}
                /\ Cardinality(kept) * c.share[1][2]
                     <= Cardinality(Balance(Sample(c), c.rules)) * c.share[1][1]
  <2> DEFINE B == Balance(Sample(c), c.rules)
             kept == FromRepository(B, r)
  <2>1. B \in SUBSET drawn
    BY <1>5, <1>6 DEF Balance, Leaves
  <2>2. IsFiniteSet(B) /\ Cardinality(B) \in Nat
    BY <1>2, <2>1, FS_Subset, FS_CardinalityType
  <2>3. r \in {RepositoryOf(f) : f \in B}
    BY <1>5, <1>6 DEF Leaves
  <2>4. kept # {}
    BY <2>3 DEF FromRepository
  <2>5. IsEven(B, c.share[1]) /\ c.share[1] \in (Nat \ {0}) \X (Nat \ {0})
    BY <1>5, <1>6 DEF IsSampled
  <2> HIDE DEF B, drawn, counted, repositories, enough
  <2>6. ~OverShare(SharesOf(B)[r], Cardinality(B), c.share[1])
    BY <2>2, <2>3, <2>5, SharesCount DEF IsEven
  <2>7. SharesOf(B)[r] = Cardinality(kept) /\ Cardinality(kept) \in Nat
    BY <2>2, <2>3, SharesCount
  <2> DEFINE n == Cardinality(kept)
             total == Cardinality(B)
             a == c.share[1][1]
             b == c.share[1][2]
  <2>8. ~(n * b > total * a) /\ a \in Nat /\ b \in Nat
    BY <2>5, <2>6, <2>7 DEF OverShare
  <2>9. n \in Nat /\ total \in Nat
    BY <2>2, <2>7
  <2> HIDE DEF n, total, a, b, kept
  <2>10. n * b \in Int /\ total * a \in Int
    BY <2>8, <2>9
  <2>11. n * b <= total * a
    BY <2>8, <2>10
  <2> QED BY <2>4, <2>11 DEF n, total, a, b, kept, B
<1>7. Sample(c) \subseteq drawn /\ drawn \ counted \subseteq Sample(c)
  <2>1. CASE enough
    BY <1>5, <2>1 DEF Leaves
  <2>2. CASE ~enough
    BY <1>4, <2>2
  <2> QED BY <2>1, <2>2
<1> HIDE DEF drawn, counted, repositories, enough, d
<1> QED BY <1>1, <1>4, <1>6, <1>7 DEF drawn, counted, repositories, enough, d

-----------------------------------------------------------------------------
(* Worklists that are made                                                 *)

WorklistRounds(o) == IF o.mode = "adjudication" THEN {"adjudication"} ELSE BlindRounds
WorklistNames(o) == IF o.mode = "adjudication" THEN {o.adjudicator} ELSE Range(o.raters)

OptionsAreTyped(o) ==
  /\ o.allowExisting \in BOOLEAN
  /\ o.raters \in Seq(Range(o.raters)) /\ o.types \in Seq(Range(o.types))

IsRater(o, r) ==
  /\ r = [rater |-> r.rater, raterType |-> r.raterType, round |-> r.round]
  /\ r.raterType \in RaterTypes /\ r.round \in WorklistRounds(o)

RatersHold(o) ==
  /\ \A r \in WorklistRaters(o) : IsRater(o, r)
  /\ \A round \in WorklistRounds(o) : \E r \in WorklistRaters(o) : r.round = round
  /\ \A r, q \in WorklistRaters(o) : r.round = q.round \/ r.rater = q.rater => r = q
  /\ {r.rater : r \in WorklistRaters(o)} = WorklistNames(o)
  /\ {r.round : r \in WorklistRaters(o)} = WorklistRounds(o)
  /\ IsFiniteSet(WorklistRaters(o))
  /\ Cardinality(WorklistRaters(o)) = Cardinality(WorklistRounds(o))
  /\ Cardinality({r.rater : r \in WorklistRaters(o)}) = Cardinality(WorklistRaters(o))

(* The raters of options that are taken: one for each round.               *)
LEMMA RatersOfOptions ==
  ASSUME NEW o, OptionsAreTyped(o), OptionsParse(o)
  PROVE  RatersHold(o)
<1>1. CASE o.mode = "adjudication"
  <2> DEFINE a == [rater |-> o.adjudicator, raterType |-> o.adjudicatorType, round |-> "adjudication"]
  <2>1. WorklistRaters(o) = {a} /\ o.adjudicatorType \in RaterTypes
    BY <1>1 DEF WorklistRaters, OptionsParse
  <2>2. WorklistRounds(o) = {"adjudication"} /\ WorklistNames(o) = {o.adjudicator}
    BY <1>1 DEF WorklistRounds, WorklistNames
  <2>3. a.rater = o.adjudicator /\ a.raterType = o.adjudicatorType /\ a.round = "adjudication"
        /\ a = [rater |-> a.rater, raterType |-> a.raterType, round |-> a.round]
    OBVIOUS
  <2> HIDE DEF a
  <2>4. \A x : IsFiniteSet({x}) /\ Cardinality({x}) = 1
    BY FS_Singleton
  <2>5. {r.rater : r \in {a}} = {o.adjudicator} /\ {r.round : r \in {a}} = {"adjudication"}
    BY <2>3
  <2>6. IsRater(o, a)
    BY <2>1, <2>2, <2>3 DEF IsRater
  <2> QED BY <2>1, <2>2, <2>3, <2>4, <2>5, <2>6 DEF RatersHold
<1>2. CASE o.mode # "adjudication"
  <2> DEFINE t(i) == o.types[IF Len(o.types) = 1 THEN 1 ELSE i]
             one == [rater |-> o.raters[1], raterType |-> t(1), round |-> "blind_first"]
             two == [rater |-> o.raters[2], raterType |-> t(2), round |-> "blind_second"]
  <2>1. /\ Len(o.raters) = 2 /\ o.raters[1] # o.raters[2] /\ Len(o.types) \in {1, 2}
        /\ Range(o.types) \subseteq RaterTypes
    BY <1>2 DEF OptionsParse
  <2>2. DOMAIN o.types = 1..Len(o.types) /\ \A i \in DOMAIN o.types : o.types[i] \in RaterTypes
    BY <2>1 DEF OptionsAreTyped, Range
  <2>3. t(1) \in RaterTypes /\ t(2) \in RaterTypes
    BY <2>1, <2>2
  <2>4. WorklistRaters(o) = {one, two}
    <3>1. WorklistRaters(o) =
            {[rater |-> o.raters[i], raterType |-> o.types[IF Len(o.types) = 1 THEN 1 ELSE i],
              round |-> IF i = 1 THEN "blind_first" ELSE "blind_second"] : i \in {1, 2}}
      BY <1>2 DEF WorklistRaters
    <3> DEFINE rr(i) == [rater |-> o.raters[i], raterType |-> o.types[IF Len(o.types) = 1 THEN 1 ELSE i],
                         round |-> IF i = 1 THEN "blind_first" ELSE "blind_second"]
    <3>2. rr(1) = one /\ rr(2) = two
      OBVIOUS
    <3>3. WorklistRaters(o) = {rr(i) : i \in {1, 2}}
      BY <3>1
    <3> HIDE DEF rr, one, two
    <3> QED BY <3>2, <3>3
  <2>5. WorklistRounds(o) = {"blind_first", "blind_second"} /\ WorklistNames(o) = {o.raters[1], o.raters[2]}
    <3>1. DOMAIN o.raters = 1..2
      BY <2>1 DEF OptionsAreTyped
    <3>2. Range(o.raters) = {o.raters[1], o.raters[2]}
      <4>1. Range(o.raters) = {o.raters[i] : i \in 1..2}
        BY <3>1 DEF Range
      <4>2. 1..2 = {1, 2}
        OBVIOUS
      <4> QED BY <4>1, <4>2
    <3> QED BY <1>2, <3>2 DEF WorklistRounds, WorklistNames, BlindRounds
  <2>6. /\ one.rater = o.raters[1] /\ one.round = "blind_first" /\ one.raterType = t(1)
        /\ one = [rater |-> one.rater, raterType |-> one.raterType, round |-> one.round]
    OBVIOUS
  <2>7. /\ two.rater = o.raters[2] /\ two.round = "blind_second" /\ two.raterType = t(2)
        /\ two = [rater |-> two.rater, raterType |-> two.raterType, round |-> two.round]
    OBVIOUS
  <2> HIDE DEF one, two, t
  <2>8. one # two /\ o.raters[1] # o.raters[2] /\ "blind_first" # "blind_second"
    BY <2>1, <2>6, <2>7
  <2>9. ASSUME NEW x, NEW y, x # y PROVE IsFiniteSet({x, y}) /\ Cardinality({x, y}) = 2
    <3>1. IsFiniteSet({x}) /\ Cardinality({x}) = 1 /\ y \notin {x}
      BY <2>9, FS_Singleton
    <3>2. IsFiniteSet({x} \cup {y}) /\ Cardinality({x} \cup {y}) = 1 + 1
      BY <3>1, FS_AddElement
    <3>3. {x} \cup {y} = {x, y}
      OBVIOUS
    <3> QED BY <3>2, <3>3
  <2>10. /\ {r.rater : r \in {one, two}} = {o.raters[1], o.raters[2]}
         /\ {r.round : r \in {one, two}} = {"blind_first", "blind_second"}
    BY <2>6, <2>7
  <2>11. IsRater(o, one) /\ IsRater(o, two)
    BY <2>3, <2>5, <2>6, <2>7 DEF IsRater
  <2>12. /\ IsFiniteSet({one, two}) /\ Cardinality({one, two}) = 2
         /\ Cardinality({o.raters[1], o.raters[2]}) = 2
         /\ Cardinality({"blind_first", "blind_second"}) = 2
    BY <2>8, <2>9
  <2> QED BY <2>4, <2>5, <2>6, <2>7, <2>8, <2>10, <2>11, <2>12 DEF RatersHold
<1> QED BY <1>1, <1>2

-----------------------------------------------------------------------------

(* What an entry says.                                                     *)
EntryIs(e, study, f, r) ==
  /\ e.path = EntryPath(f, r.round, EntryId(study, f.findingId, r.round, r.rater))
  /\ e.assignmentId = EntryId(study, f.findingId, r.round, r.rater)
  /\ e.findingId = f.findingId /\ e.round = r.round /\ e.rater = r.rater /\ e.raterType = r.raterType

LEMMA EntryFields ==
  ASSUME NEW study, NEW f, NEW r
  PROVE  EntryIs(EntryOf(study, f, r), study, f, r)
<1> DEFINE e == EntryOf(study, f, r)
           id == EntryId(study, f.findingId, r.round, r.rater)
<1>1. e = [path |-> EntryPath(f, r.round, id), assignmentId |-> id, evidencePackageId |-> <<f.findingId>>,
           findingId |-> f.findingId, subjectId |-> f.subjectId, ruleId |-> f.ruleId,
           round |-> r.round, rater |-> r.rater, raterType |-> r.raterType]
  BY Zenon DEF EntryOf
<1> DEFINE p == EntryPath(f, r.round, id)
<1> HIDE DEF e, id, p
<1>2. e.path = p /\ e.assignmentId = id /\ e.findingId = f.findingId
      /\ e.round = r.round /\ e.rater = r.rater /\ e.raterType = r.raterType
  BY <1>1 DEF p
<1>3. EntryIs(e, study, f, r)
  BY <1>2, Zenon DEF EntryIs, p, id
<1> QED BY <1>3 DEF e

(* Ids and paths tell what is of other findings or rounds apart.           *)
LEMMA PathsApart ==
  ASSUME NEW study, NEW f, NEW g, NEW r, NEW q,
         \/ EntryOf(study, f, r).path = EntryOf(study, g, q).path
         \/ EntryOf(study, f, r).assignmentId = EntryOf(study, g, q).assignmentId
  PROVE  f.findingId = g.findingId /\ r.round = q.round /\ r.rater = q.rater
<1> DEFINE x == EntryOf(study, f, r)
           y == EntryOf(study, g, q)
           a == EntryId(study, f.findingId, r.round, r.rater)
           c == EntryId(study, g.findingId, q.round, q.rater)
<1>1. /\ x.path = EntryPath(f, r.round, a) /\ x.assignmentId = a
      /\ y.path = EntryPath(g, q.round, c) /\ y.assignmentId = c
  <2>1. EntryIs(x, study, f, r) /\ EntryIs(y, study, g, q)
    BY EntryFields
  <2> HIDE DEF x, y
  <2> QED BY <2>1, Zenon DEF EntryIs
<1>2. EntryPath(f, r.round, a) = EntryPath(g, q.round, c) => a = c
  BY DEF EntryPath
<1>3. a = c
  <2> HIDE DEF x, y, a, c
  <2>1. x.path = y.path \/ x.assignmentId = y.assignmentId
    BY DEF x, y
  <2> QED BY <1>1, <1>2, <2>1
<1> QED BY <1>3 DEF EntryId

LEMMA ManifestApart ==
  ASSUME NEW study, NEW f, NEW r
  PROVE  EntryOf(study, f, r).path # ManifestPath
<1> DEFINE a == EntryId(study, f.findingId, r.round, r.rater)
<1>1. EntryOf(study, f, r).path = EntryPath(f, r.round, a)
  <2> DEFINE x == EntryOf(study, f, r)
  <2>1. EntryIs(x, study, f, r)
    BY EntryFields
  <2> HIDE DEF x
  <2>2. x.path = EntryPath(f, r.round, a)
    BY <2>1, Zenon DEF EntryIs
  <2> QED BY <2>2 DEF x
<1>2. EntryPath(f, r.round, a) # ManifestPath
  BY DEF EntryPath, ManifestPath
<1> QED BY <1>1, <1>2, Zenon

-----------------------------------------------------------------------------
(* What a worklist consists of.                                            *)
MadeEntries(o, b) == {EntryOf(b.studyId, f, r) : f \in WorklistSelection(o, b), r \in WorklistRaters(o)}

EntriesDiffer(b) == \A f, g \in b.findings : f.findingId = g.findingId => f = g

LEMMA SelectedAreFindings ==
  ASSUME NEW o, NEW b
  PROVE  WorklistSelection(o, b) \subseteq b.findings
BY DEF WorklistSelection, WorklistFindings

LEMMA EntriesApart ==
  ASSUME NEW o, NEW b, EntriesDiffer(b), RatersHold(o),
         NEW f \in WorklistSelection(o, b), NEW g \in WorklistSelection(o, b),
         NEW r \in WorklistRaters(o), NEW q \in WorklistRaters(o),
         \/ EntryOf(b.studyId, f, r).path = EntryOf(b.studyId, g, q).path
         \/ EntryOf(b.studyId, f, r).assignmentId = EntryOf(b.studyId, g, q).assignmentId
  PROVE  f = g /\ r = q
<1>1. f.findingId = g.findingId /\ r.round = q.round
  BY PathsApart
<1>2. f = g
  BY <1>1, SelectedAreFindings DEF EntriesDiffer
<1>3. r = q
  BY <1>1 DEF RatersHold
<1> QED BY <1>2, <1>3

IsMadeOf(dir, o, b) ==
  /\ dir.intact = TRUE /\ dir.sums = DOMAIN dir.files
  /\ DOMAIN dir.files = {ManifestPath} \cup {e.path : e \in MadeEntries(o, b)}
  /\ dir.files[ManifestPath] = WorklistManifest(o, b, MadeEntries(o, b))
  /\ \A f \in WorklistSelection(o, b), r \in WorklistRaters(o) :
       dir.files[EntryOf(b.studyId, f, r).path] = AssignmentOf(b, f, EntryOf(b.studyId, f, r))

LEMMA WorklistParts ==
  ASSUME NEW o, NEW b, NEW seal, EntriesDiffer(b), RatersHold(o)
  PROVE  IsMadeOf(CreateWorklist(o, b, seal), o, b)
<1> DEFINE sel == WorklistSelection(o, b)
           raters == WorklistRaters(o)
           made == {<<f, EntryOf(b.studyId, f, r)>> : f \in sel, r \in raters}
           entries == {m[2] : m \in made}
           paths == {ManifestPath} \cup {e.path : e \in entries}
           content(path) ==
             IF path = ManifestPath THEN WorklistManifest(o, b, entries)
             ELSE LET m == CHOOSE x \in made : x[2].path = path IN AssignmentOf(b, m[1], m[2])
           files == [path \in paths |-> content(path)]
           dir == CreateWorklist(o, b, seal)
<1>1. dir = [files |-> files, sums |-> DOMAIN files, intact |-> TRUE, seal |-> <<seal>>]
  <2>1. dir = SealedWorklist(files, seal)
    BY DEF CreateWorklist
  <2> HIDE DEF files, dir
  <2> QED BY <2>1, Zenon DEF SealedWorklist
<1>2. entries = MadeEntries(o, b)
  <2>1. ASSUME NEW e \in entries PROVE e \in MadeEntries(o, b)
    <3>1. PICK f \in sel, r \in raters : e = EntryOf(b.studyId, f, r)
      OBVIOUS
    <3> QED BY <3>1 DEF MadeEntries
  <2>2. ASSUME NEW e \in MadeEntries(o, b) PROVE e \in entries
    <3>1. PICK f \in sel, r \in raters : e = EntryOf(b.studyId, f, r)
      BY DEF MadeEntries
    <3>2. <<f, e>> \in made /\ <<f, e>>[2] = e
      BY <3>1
    <3> HIDE DEF made
    <3>3. \E m \in made : m[2] = e
      BY <3>2
    <3> QED BY <3>3
  <2> QED BY <2>1, <2>2
<1>3. ASSUME NEW f \in sel, NEW r \in raters
      PROVE  content(EntryOf(b.studyId, f, r).path) = AssignmentOf(b, f, EntryOf(b.studyId, f, r))
  <2> DEFINE e == EntryOf(b.studyId, f, r)
             m == CHOOSE x \in made : x[2].path = e.path
  <2>1. <<f, e>> \in made /\ <<f, e>>[2].path = e.path
    OBVIOUS
  <2>2. m \in made /\ m[2].path = e.path
    <3> HIDE DEF made, e
    <3> QED BY <2>1
  <2> HIDE DEF m
  <2>3. PICK g \in sel, q \in raters : m = <<g, EntryOf(b.studyId, g, q)>>
    BY <2>2
  <2>4. g = f /\ q = r
    <3>1. EntryOf(b.studyId, g, q).path = EntryOf(b.studyId, f, r).path
      BY <2>2, <2>3
    <3> QED BY <3>1, EntriesApart
  <2>5. m = <<f, e>>
    BY <2>3, <2>4
  <2>6. e.path # ManifestPath
    BY ManifestApart
  <2> HIDE DEF e, made, entries
  <2>7. content(e.path) = AssignmentOf(b, m[1], m[2])
    BY <2>6, Zenon DEF m
  <2>8. m[1] = f /\ m[2] = e
    BY <2>5
  <2> QED BY <2>7, <2>8 DEF e
<1>4. \A f \in sel, r \in raters : EntryOf(b.studyId, f, r) \in entries
  BY <1>2 DEF MadeEntries
<1> HIDE DEF entries, made
<1>5. \A f \in sel, r \in raters : EntryOf(b.studyId, f, r).path \in paths
  BY <1>4
<1>6. ManifestPath \in paths
  OBVIOUS
<1>7. content(ManifestPath) = WorklistManifest(o, b, entries)
  BY Zenon
<1> HIDE DEF content
<1>8. files[ManifestPath] = content(ManifestPath) /\ DOMAIN files = paths
  BY <1>6, Zenon
<1>9. \A f \in sel, r \in raters : files[EntryOf(b.studyId, f, r).path] = content(EntryOf(b.studyId, f, r).path)
  BY <1>5, Zenon
<1> HIDE DEF files
<1>10. dir.files = files /\ dir.sums = DOMAIN files /\ dir.intact = TRUE
  <2> HIDE DEF dir
  <2> QED BY <1>1
<1>11. IsMadeOf(dir, o, b)
  <2>1. /\ dir.intact = TRUE /\ dir.sums = DOMAIN dir.files
        /\ DOMAIN dir.files = paths
        /\ dir.files[ManifestPath] = WorklistManifest(o, b, entries)
    BY <1>7, <1>8, <1>10
  <2>2. \A f \in sel, r \in raters :
          dir.files[EntryOf(b.studyId, f, r).path] = AssignmentOf(b, f, EntryOf(b.studyId, f, r))
    BY <1>3, <1>9, <1>10
  <2> HIDE DEF dir
  <2> QED BY <2>1, <2>2, <1>2, Zenon DEF IsMadeOf
<1> QED BY <1>11 DEF dir

(* What the manifest says.                                                 *)
ManifestIs(m, o, b, entries) ==
  /\ m.version = (IF o.mode = "adjudication" THEN 2 ELSE 1) /\ m.mode = o.mode /\ m.studyId = b.studyId
  /\ m.bundle = [artifactSet |-> b.artifactSet, preLabel |-> b.preLabel]
  /\ m.filters = FiltersOf(o) /\ m.raters = WorklistRaters(o)
  /\ m.allowExisting = (o.mode = "adjudication" \/ o.allowExisting)
  /\ m.selected = Cardinality(WorklistSelection(o, b)) /\ m.size = Cardinality(entries)
  /\ m.existing = Len(b.labels) /\ m.assignments = entries
  /\ m.protocol # <<>> => o.protocol # <<>> /\ m.protocol[1].filters = FiltersOf(o)

LEMMA ManifestSays ==
  ASSUME NEW o, NEW b, NEW entries
  PROVE  ManifestIs(WorklistManifest(o, b, entries), o, b, entries)
<1> DEFINE m == WorklistManifest(o, b, entries)
           protocol == IF o.protocol = <<>> THEN <<>>
                       ELSE <<[studyId |-> o.protocol[1].studyId, artifactSet |-> b.artifactSet,
                               preLabel |-> Claimed(o.protocol[1], "preLabel", <<>>), filters |-> FiltersOf(o)]>>
           version == IF o.mode = "adjudication" THEN 2 ELSE 1
           allow == o.mode = "adjudication" \/ o.allowExisting
           digest == IF o.protocol = <<>> THEN <<>> ELSE FilterDigest(FiltersOf(o))
           bound == [artifactSet |-> b.artifactSet, preLabel |-> b.preLabel]
           filters == FiltersOf(o)
           raters == WorklistRaters(o)
           selected == Cardinality(WorklistSelection(o, b))
           size == Cardinality(entries)
           existing == Len(b.labels)
<1>1. m = [version |-> version, mode |-> o.mode, studyId |-> b.studyId, bundle |-> bound, filters |-> filters,
           filterDigest |-> digest, allowExisting |-> allow, raters |-> raters,
           selected |-> selected, size |-> size, existing |-> existing, protocol |-> protocol, assignments |-> entries]
  BY Zenon DEF WorklistManifest
<1>2. protocol # <<>> => o.protocol # <<>> /\ protocol[1].filters = filters
  <2> HIDE DEF filters
  <2> QED BY DEF filters
<1> HIDE DEF m, protocol, version, allow, digest, bound, filters, raters, selected, size, existing
<1>3. /\ m.version = version /\ m.mode = o.mode /\ m.studyId = b.studyId /\ m.bundle = bound
      /\ m.filters = filters /\ m.raters = raters /\ m.allowExisting = allow /\ m.selected = selected
      /\ m.size = size /\ m.existing = existing /\ m.assignments = entries /\ m.protocol = protocol
  BY <1>1
<1>4. m.protocol # <<>> => o.protocol # <<>> /\ m.protocol[1].filters = FiltersOf(o)
  BY <1>2, <1>3 DEF filters
<1>5. ManifestIs(m, o, b, entries)
  BY <1>3, <1>4, Zenon DEF ManifestIs, version, allow, bound, filters, raters, selected, size, existing
<1> QED BY <1>5 DEF m

-----------------------------------------------------------------------------
(* What the verifier asks of the manifest.                                 *)

ExclusionsAreTyped(o) ==
  o.protocol # <<>> =>
    \A r \in o.protocol[1].exclusions :
      DOMAIN r = {"field", "how", "values", "reason"} /\ r.reason \in {"given", "none", "null"}
ReasonsGiven(o) == o.protocol # <<>> => \A r \in o.protocol[1].exclusions : r.reason = "given"

(* Rules without a reason do not hold once they are normalized.            *)
LEMMA NormalAreWhole ==
  ASSUME NEW rules, RulesAreWhole(rules),
         \A r \in rules : DOMAIN r = {"field", "how", "values", "reason"} /\ r.reason \in {"given", "none", "null"}
  PROVE  RulesAreWhole(NormalRules(rules)) <=> \A r \in rules : r.reason = "given"
<1> DEFINE n(r) == [r EXCEPT !.reason = IF @ = "none" THEN "null" ELSE @]
<1>1. NormalRules(rules) = {n(r) : r \in rules}
  BY DEF NormalRules, RulesAreWhole
<1>2. ASSUME NEW r \in rules PROVE RuleIsWhole(n(r)) <=> r.reason = "given"
  <2>1. DOMAIN r = {"field", "how", "values", "reason"} /\ r.reason \in {"given", "none", "null"} /\ RuleIsWhole(r)
    BY DEF RulesAreWhole
  <2>2. /\ n(r).field = r.field /\ n(r).how = r.how
        /\ n(r).reason = IF r.reason = "none" THEN "null" ELSE r.reason
    BY <2>1
  <2> HIDE DEF n
  <2> QED BY <2>1, <2>2 DEF RuleIsWhole
<1> HIDE DEF n
<1> QED BY <1>1, <1>2 DEF RulesAreWhole

LEMMA ShapeOfMade ==
  ASSUME NEW o, NEW b, NEW entries, NEW m, ManifestIs(m, o, b, entries), RatersHold(o), ExclusionsAreTyped(o),
         o.protocol # <<>> => RulesAreWhole(o.protocol[1].exclusions)
  PROVE  ShapeHolds(m) <=> WorklistNames(o) \cap SuggestiveNames = {} /\ ReasonsGiven(o)
<1>1. /\ m.filters = FiltersOf(o) /\ m.raters = WorklistRaters(o)
      /\ m.protocol # <<>> => o.protocol # <<>> /\ m.protocol[1].filters = FiltersOf(o)
  BY Zenon DEF ManifestIs
<1>2. RulesAreWhole(FiltersOf(o).exclusions) <=> ReasonsGiven(o)
  <2>1. CASE o.protocol = <<>>
    <3>1. FiltersOf(o).exclusions = {}
      BY <2>1 DEF FiltersOf
    <3> QED BY <2>1, <3>1 DEF RulesAreWhole, ReasonsGiven
  <2>2. CASE o.protocol # <<>>
    <3>1. FiltersOf(o).exclusions = NormalRules(o.protocol[1].exclusions)
      BY <2>2 DEF FiltersOf, BindingFilters
    <3> DEFINE rules == o.protocol[1].exclusions
    <3>2. /\ RulesAreWhole(rules)
          /\ \A r \in rules : DOMAIN r = {"field", "how", "values", "reason"} /\ r.reason \in {"given", "none", "null"}
      BY <2>2 DEF ExclusionsAreTyped
    <3> HIDE DEF rules
    <3>3. RulesAreWhole(NormalRules(rules)) <=> \A r \in rules : r.reason = "given"
      BY <3>2, NormalAreWhole
    <3> QED BY <2>2, <3>1, <3>3 DEF ReasonsGiven, rules
  <2> QED BY <2>1, <2>2
<1>3. (\A r \in m.raters : r.rater \notin SuggestiveNames /\ r.raterType \in RaterTypes)
      <=> WorklistNames(o) \cap SuggestiveNames = {}
  <2>1. \A r \in WorklistRaters(o) : r.raterType \in RaterTypes
    BY DEF RatersHold, IsRater
  <2>2. {r.rater : r \in WorklistRaters(o)} = WorklistNames(o)
    BY DEF RatersHold
  <2> QED BY <1>1, <2>1, <2>2
<1> QED BY <1>1, <1>2, <1>3, Zenon DEF ShapeHolds

(* The manifest is consistent but where a blind worklist knows of labels.  *)
LEMMA ConsistentMade ==
  ASSUME NEW o, NEW b, NEW m, ManifestIs(m, o, b, MadeEntries(o, b)), EntriesDiffer(b), RatersHold(o),
         OptionsAreTyped(o), o.mode \in {"blind", "adjudication"}, AreRows(b.labels), IsFiniteSet(b.findings),
         o.mode = "adjudication" => b.labels # <<>>, WorklistSelection(o, b) # {}
  PROVE  /\ ManifestConsistent(m) <=> (o.mode = "blind" => b.labels = <<>> /\ ~o.allowExisting)
         /\ IsFiniteSet(MadeEntries(o, b))
<1> DEFINE entries == MadeEntries(o, b)
           sel == WorklistSelection(o, b)
           raters == WorklistRaters(o)
           rounds == WorklistRounds(o)
           E(f, r) == EntryOf(b.studyId, f, r)
<1>1. /\ m.version = (IF o.mode = "adjudication" THEN 2 ELSE 1) /\ m.mode = o.mode /\ m.raters = raters
      /\ m.allowExisting = (o.mode = "adjudication" \/ o.allowExisting)
      /\ m.selected = Cardinality(sel) /\ m.size = Cardinality(entries)
      /\ m.existing = Len(b.labels) /\ m.assignments = entries
  BY Zenon DEF ManifestIs
<1>2. RequiredRounds(m) = rounds
  BY <1>1 DEF RequiredRounds, WorklistRounds
<1>3. /\ \A r \in raters : IsRater(o, r)
      /\ \A round \in rounds : \E r \in raters : r.round = round
      /\ \A r, q \in raters : r.round = q.round \/ r.rater = q.rater => r = q
      /\ {r.round : r \in raters} = rounds /\ IsFiniteSet(raters) /\ Cardinality(raters) = Cardinality(rounds)
      /\ Cardinality({r.rater : r \in raters}) = Cardinality(raters)
  BY DEF RatersHold
<1>4. \A e \in entries : \E f \in sel, r \in raters : e = E(f, r) /\ EntryIs(e, b.studyId, f, r)
  <2> SUFFICES ASSUME NEW e \in entries PROVE \E f \in sel, r \in raters : e = E(f, r) /\ EntryIs(e, b.studyId, f, r)
    OBVIOUS
  <2>1. PICK f \in sel, r \in raters : e = E(f, r)
    BY DEF MadeEntries
  <2>2. EntryIs(E(f, r), b.studyId, f, r)
    BY EntryFields
  <2> QED BY <2>1, <2>2, Zenon
<1>5. \A f \in sel, r \in raters : E(f, r) \in entries /\ EntryIs(E(f, r), b.studyId, f, r)
  BY EntryFields DEF MadeEntries
<1>6. sel \subseteq b.findings /\ IsFiniteSet(sel)
  BY SelectedAreFindings, FS_Subset
<1>7. \A e, d \in entries : e.findingId = d.findingId /\ e.round = d.round => e = d
  <2> SUFFICES ASSUME NEW e \in entries, NEW d \in entries, e.findingId = d.findingId, e.round = d.round PROVE e = d
    OBVIOUS
  <2>1. PICK f \in sel, r \in raters : e = E(f, r) /\ EntryIs(e, b.studyId, f, r)
    BY <1>4
  <2>2. PICK g \in sel, q \in raters : d = E(g, q) /\ EntryIs(d, b.studyId, g, q)
    BY <1>4
  <2>3. e.findingId = f.findingId /\ e.round = r.round /\ d.findingId = g.findingId /\ d.round = q.round
    BY <2>1, <2>2, Zenon DEF EntryIs
  <2>4. f = g
    BY <1>6, <2>3 DEF EntriesDiffer
  <2>5. r = q
    BY <1>3, <2>3
  <2> QED BY <2>1, <2>2, <2>4, <2>5
<1>8. {e.findingId : e \in entries} = {f.findingId : f \in sel}
  <2>1. ASSUME NEW e \in entries PROVE \E f \in sel : e.findingId = f.findingId
    <3>1. PICK f \in sel, r \in raters : EntryIs(e, b.studyId, f, r)
      BY <1>4
    <3> QED BY <3>1, Zenon DEF EntryIs
  <2>2. ASSUME NEW f \in sel PROVE \E e \in entries : e.findingId = f.findingId
    <3>1. rounds # {}
      BY DEF WorklistRounds, BlindRounds
    <3>2. PICK r \in raters : TRUE
      BY <1>3, <3>1
    <3>3. E(f, r) \in entries /\ EntryIs(E(f, r), b.studyId, f, r)
      BY <1>5, <3>2
    <3> HIDE DEF E
    <3>4. E(f, r).findingId = f.findingId
      BY <3>3, Zenon DEF EntryIs
    <3> QED BY <3>3, <3>4
  <2> HIDE DEF entries, sel
  <2> QED BY <2>1, <2>2
<1>9. Cardinality({f.findingId : f \in sel}) = Cardinality(sel)
  <2> DEFINE id == [f \in sel |-> f.findingId]
  <2>1. \A f, g \in sel : id[f] = id[g] => f = g
    BY <1>6 DEF EntriesDiffer
  <2>2. {id[f] : f \in sel} = {f.findingId : f \in sel}
    OBVIOUS
  <2> HIDE DEF id, sel
  <2>3. Cardinality({id[f] : f \in sel}) = Cardinality(sel)
    BY <1>6, <2>1, ImageCount
  <2> QED BY <2>2, <2>3
<1>10. {[rater |-> e.rater, raterType |-> e.raterType, round |-> e.round] : e \in entries} = raters \/ sel = {}
  <2> DEFINE who(e) == [rater |-> e.rater, raterType |-> e.raterType, round |-> e.round]
  <2>1. ASSUME NEW e, NEW f \in sel, NEW r \in raters, EntryIs(e, b.studyId, f, r) PROVE who(e) = r
    <3>1. e.rater = r.rater /\ e.raterType = r.raterType /\ e.round = r.round
      BY <2>1, Zenon DEF EntryIs
    <3>2. r = [rater |-> r.rater, raterType |-> r.raterType, round |-> r.round]
      BY <1>3 DEF IsRater
    <3> QED BY <3>1, <3>2
  <2> HIDE DEF who, entries, sel, raters, E
  <2>2. ASSUME sel # {} PROVE {who(e) : e \in entries} = raters
    <3>1. PICK f \in sel : TRUE
      BY <2>2
    <3>2. ASSUME NEW r \in raters PROVE \E e \in entries : who(e) = r
      BY <1>5, <2>1, <3>1
    <3>3. ASSUME NEW e \in entries PROVE who(e) \in raters
      BY <1>4, <2>1
    <3> QED BY <3>2, <3>3
  <2> QED BY <2>2 DEF who
<1>11. \A e \in entries, round \in rounds :
         Cardinality({x \in entries : x.findingId = e.findingId /\ x.round = round}) = 1
  <2> SUFFICES ASSUME NEW e \in entries, NEW round \in rounds
               PROVE  Cardinality({x \in entries : x.findingId = e.findingId /\ x.round = round}) = 1
    OBVIOUS
  <2>1. PICK f \in sel, r \in raters : EntryIs(e, b.studyId, f, r)
    BY <1>4
  <2>2. PICK q \in raters : q.round = round
    BY <1>3
  <2> DEFINE d == E(f, q)
  <2>3. d \in entries /\ EntryIs(d, b.studyId, f, q)
    BY <1>5
  <2> HIDE DEF d
  <2>4. d.findingId = f.findingId /\ d.round = round /\ e.findingId = f.findingId
    BY <2>1, <2>2, <2>3, Zenon DEF EntryIs
  <2> HIDE DEF entries
  <2>5. {x \in entries : x.findingId = e.findingId /\ x.round = round} = {d}
    BY <1>7, <2>3, <2>4
  <2> QED BY <2>5, FS_Singleton
<1>12. \A e \in entries : e.round \in rounds
  <2> SUFFICES ASSUME NEW e \in entries PROVE e.round \in rounds
    OBVIOUS
  <2>1. PICK f \in sel, r \in raters : EntryIs(e, b.studyId, f, r)
    BY <1>4
  <2>2. e.round = r.round
    BY <2>1, Zenon DEF EntryIs
  <2> QED BY <1>3, <2>2
<1>13. IsFiniteSet(entries)
  <2>1. IsFiniteSet(sel \X raters)
    BY <1>3, <1>6, FS_Product
  <2> DEFINE made == [x \in sel \X raters |-> E(x[1], x[2])]
  <2>2. {made[x] : x \in sel \X raters} = entries
    <3>1. ASSUME NEW e \in entries PROVE \E x \in sel \X raters : made[x] = e
      <4>1. PICK f \in sel, r \in raters : e = E(f, r)
        BY DEF MadeEntries
      <4>2. <<f, r>> \in sel \X raters /\ made[<<f, r>>] = e
        BY <4>1
      <4> HIDE DEF made
      <4> QED BY <4>2
    <3>2. ASSUME NEW x \in sel \X raters PROVE made[x] \in entries
      <4>1. x[1] \in sel /\ x[2] \in raters /\ made[x] = E(x[1], x[2])
        OBVIOUS
      <4> QED BY <4>1, <1>5
    <3> HIDE DEF made, entries
    <3> QED BY <3>1, <3>2
  <2> DEFINE dom == sel \X raters
  <2>3. DOMAIN made = dom
    OBVIOUS
  <2> HIDE DEF made, dom
  <2>4. IsFiniteSet({made[x] : x \in dom})
    BY <2>1, <2>3, ImageIsFinite DEF dom
  <2> QED BY <2>2, <2>4 DEF dom
<1> HIDE DEF entries, sel, raters, rounds
<1>14. Len(b.labels) \in Nat /\ (Len(b.labels) = 0 <=> b.labels = <<>>)
  BY DEF AreRows
<1>15. m.allowExisting = (m.mode = "adjudication") <=> (o.mode = "blind" => ~o.allowExisting)
  BY <1>1 DEF OptionsAreTyped
<1>16. (IF m.mode = "adjudication" THEN m.version = 2 /\ m.existing > 0 ELSE m.existing = 0)
       <=> (o.mode = "blind" => b.labels = <<>>)
  BY <1>1, <1>14
<1>17. WorklistSelection(o, b) # {} =>
         /\ m.size = Cardinality(m.assignments)
         /\ m.selected = Cardinality({e.findingId : e \in m.assignments})
         /\ Cardinality(m.raters) = Cardinality(RequiredRounds(m)) /\ {r.round : r \in m.raters} = RequiredRounds(m)
         /\ Cardinality({r.rater : r \in m.raters}) = Cardinality(m.raters)
         /\ {[rater |-> e.rater, raterType |-> e.raterType, round |-> e.round] : e \in m.assignments} = m.raters
         /\ \A e \in m.assignments, round \in RequiredRounds(m) :
              Cardinality({x \in m.assignments : x.findingId = e.findingId /\ x.round = round}) = 1
         /\ \A e \in m.assignments : e.round \in RequiredRounds(m)
  <2> SUFFICES ASSUME sel # {}
               PROVE  /\ m.size = Cardinality(m.assignments)
                      /\ m.selected = Cardinality({e.findingId : e \in m.assignments})
                      /\ Cardinality(m.raters) = Cardinality(RequiredRounds(m)) /\ {r.round : r \in m.raters} = RequiredRounds(m)
                      /\ Cardinality({r.rater : r \in m.raters}) = Cardinality(m.raters)
                      /\ {[rater |-> e.rater, raterType |-> e.raterType, round |-> e.round] : e \in m.assignments} = m.raters
                      /\ \A e \in m.assignments, round \in RequiredRounds(m) :
                           Cardinality({x \in m.assignments : x.findingId = e.findingId /\ x.round = round}) = 1
                      /\ \A e \in m.assignments : e.round \in RequiredRounds(m)
    BY DEF sel
  <2>1. m.size = Cardinality(m.assignments)
    BY <1>1
  <2>2. m.selected = Cardinality({e.findingId : e \in m.assignments})
    BY <1>1, <1>8, <1>9
  <2>3. m.raters = raters /\ RequiredRounds(m) = rounds /\ m.assignments = entries
    BY <1>1, <1>2
  <2>4. Cardinality(m.raters) = Cardinality(RequiredRounds(m)) /\ {r.round : r \in m.raters} = RequiredRounds(m)
        /\ Cardinality({r.rater : r \in m.raters}) = Cardinality(m.raters)
    BY <1>3, <2>3
  <2>5. {[rater |-> e.rater, raterType |-> e.raterType, round |-> e.round] : e \in m.assignments} = m.raters
    BY <1>10, <2>3
  <2>6. \A e \in m.assignments, round \in RequiredRounds(m) :
          Cardinality({x \in m.assignments : x.findingId = e.findingId /\ x.round = round}) = 1
    BY <1>11, <2>3
  <2>7. \A e \in m.assignments : e.round \in RequiredRounds(m)
    BY <1>12, <2>3
  <2> QED BY <2>1, <2>2, <2>4, <2>5, <2>6, <2>7
<1> QED BY <1>13, <1>15, <1>16, <1>17, Zenon DEF ManifestConsistent, entries

(* The files are those that it declares.                                   *)
LEMMA DeclaredMade ==
  ASSUME NEW o, NEW b, NEW dir, IsMadeOf(dir, o, b), EntriesDiffer(b), RatersHold(o), IsFiniteSet(MadeEntries(o, b)),
         AssignedIn(dir) = MadeEntries(o, b)
  PROVE  DeclaredFiles(dir)
<1> DEFINE entries == MadeEntries(o, b)
           path == [e \in entries |-> e.path]
           id == [e \in entries |-> e.assignmentId]
<1>1. \A e, d \in entries : e.path = d.path \/ e.assignmentId = d.assignmentId => e = d
  <2> SUFFICES ASSUME NEW e \in entries, NEW d \in entries, e.path = d.path \/ e.assignmentId = d.assignmentId PROVE e = d
    OBVIOUS
  <2>1. PICK f \in WorklistSelection(o, b), r \in WorklistRaters(o) : e = EntryOf(b.studyId, f, r)
    BY DEF MadeEntries
  <2>2. PICK g \in WorklistSelection(o, b), q \in WorklistRaters(o) : d = EntryOf(b.studyId, g, q)
    BY DEF MadeEntries
  <2>3. f = g /\ r = q
    BY <2>1, <2>2, EntriesApart
  <2> QED BY <2>1, <2>2, <2>3
<1>2. dir.sums = {ManifestPath} \cup {e.path : e \in entries}
  BY DEF IsMadeOf
<1> HIDE DEF entries
<1>3. (\A e, d \in entries : path[e] = path[d] => e = d) /\ (\A e, d \in entries : id[e] = id[d] => e = d)
  BY <1>1
<1>4. {path[e] : e \in entries} = {e.path : e \in entries} /\ {id[e] : e \in entries} = {e.assignmentId : e \in entries}
  OBVIOUS
<1> HIDE DEF path, id
<1>5. IsFiniteSet(entries)
  BY DEF entries
<1>6. Cardinality({path[e] : e \in entries}) = Cardinality(entries) /\ Cardinality({id[e] : e \in entries}) = Cardinality(entries)
  BY <1>3, <1>5, ImageCount
<1>7. AssignedIn(dir) = entries
  BY DEF entries
<1> QED BY <1>2, <1>4, <1>6, <1>7 DEF DeclaredFiles

-----------------------------------------------------------------------------
(* What it asks of an assignment.                                          *)

(* Rows of which none has its type under another name are read alike.      *)
SnapshotsAgree(labels, id) ==
  {Snapshot(l, TRUE) : l \in SourceLabels(labels, id, FALSE)} = SourceLabels(labels, id, TRUE)

LEMMA SnapshotRow ==
  ASSUME NEW l, IsRow(l), NEW verifier \in BOOLEAN
  PROVE  LET s == Snapshot(l, verifier)
         IN /\ DOMAIN s = RowFields /\ s.legacy = FALSE /\ s.flagged = FALSE
            /\ s.findingId = l.findingId /\ s.rater = l.rater
            /\ s.raterType = IF verifier /\ l.legacy THEN "" ELSE l.raterType
            /\ s = [l EXCEPT !.legacy = FALSE, !.flagged = FALSE, !.raterType = IF verifier /\ l.legacy THEN "" ELSE l.raterType]
<1>1. DOMAIN l = RowFields
  BY DEF IsRow
<1> QED BY <1>1 DEF Snapshot, RowFields

LEMMA SnapshotTwice ==
  ASSUME NEW l, IsRow(l)
  PROVE  Snapshot(Snapshot(l, FALSE), TRUE) = Snapshot(l, FALSE)
<1> DEFINE s == Snapshot(l, FALSE)
<1>1. s = [l EXCEPT !.legacy = FALSE, !.flagged = FALSE, !.raterType = l.raterType]
  BY SnapshotRow
<1>2. DOMAIN l = RowFields
  BY DEF IsRow
<1>3. s = [k \in DOMAIN s |-> s[k]] /\ DOMAIN s = RowFields /\ s.legacy = FALSE /\ s.flagged = FALSE
  BY <1>1, <1>2 DEF RowFields
<1> HIDE DEF s
<1>4. Snapshot(s, TRUE) = [s EXCEPT !.legacy = FALSE, !.flagged = FALSE, !.raterType = s.raterType]
  BY <1>3 DEF Snapshot, RowFields
<1>5. [s EXCEPT !.legacy = FALSE, !.flagged = FALSE, !.raterType = s.raterType] = s
  BY <1>3 DEF RowFields
<1> QED BY <1>4, <1>5 DEF s

LEMMA LegacySnapshot ==
  ASSUME NEW labels, AreRows(labels), NEW id,
         \A i, j \in DOMAIN labels :
           i # j => <<labels[i].rater, labels[i].findingId>> # <<labels[j].rater, labels[j].findingId>>
  PROVE  SnapshotsAgree(labels, id) <=> \A i \in Independent(labels, id) : ~labels[i].legacy
<1> DEFINE own == Independent(labels, id)
           given(i) == Snapshot(labels[i], FALSE)
           read(i) == Snapshot(labels[i], TRUE)
<1>1. \A i \in own : i \in DOMAIN labels /\ IsRow(labels[i])
  BY DEF Independent, AreRows
<1>2. {Snapshot(l, TRUE) : l \in SourceLabels(labels, id, FALSE)} = {given(i) : i \in own}
  <2>1. \A i \in own : Snapshot(given(i), TRUE) = given(i)
    BY <1>1, SnapshotTwice
  <2>2. SourceLabels(labels, id, FALSE) = {given(i) : i \in own}
    BY DEF SourceLabels
  <2> HIDE DEF own, given
  <2> QED BY <2>1, <2>2
<1>3. SourceLabels(labels, id, TRUE) = {read(i) : i \in own}
  BY DEF SourceLabels
<1>4. ASSUME NEW i \in own PROVE ~labels[i].legacy => given(i) = read(i)
  <2>1. DOMAIN labels[i] = RowFields
    BY <1>1 DEF IsRow
  <2> QED BY <2>1 DEF Snapshot
<1>5. ASSUME NEW i \in own, labels[i].legacy, {given(k) : k \in own} = {read(k) : k \in own} PROVE FALSE
  <2> DEFINE s == given(i)
  <2>1. s.rater = labels[i].rater /\ s.findingId = labels[i].findingId /\ s.raterType = labels[i].raterType
    BY <1>1, SnapshotRow
  <2>2. s.raterType # ""
    BY <1>1, <1>5, <2>1 DEF IsRow
  <2>3. \E k \in own : s = read(k)
    <3> HIDE DEF given, read
    <3>1. s \in {given(k) : k \in own}
      BY DEF s
    <3> QED BY <1>5, <3>1
  <2>4. PICK k \in own : s = read(k)
    BY <2>3
  <2>5. /\ read(k).rater = labels[k].rater /\ read(k).findingId = labels[k].findingId
        /\ read(k).raterType = IF labels[k].legacy THEN "" ELSE labels[k].raterType
    BY <1>1, SnapshotRow
  <2> HIDE DEF s, read
  <2>6. labels[i].rater = labels[k].rater /\ labels[i].findingId = labels[k].findingId
    BY <2>1, <2>4, <2>5
  <2>7. i = k
    BY <1>1, <2>6
  <2> QED BY <1>5, <2>2, <2>4, <2>5, <2>7
<1> HIDE DEF own, given, read
<1>6. {given(i) : i \in own} = {read(i) : i \in own} <=> \A i \in own : ~labels[i].legacy
  BY <1>4, <1>5
<1> QED BY <1>2, <1>3, <1>6 DEF SnapshotsAgree, own

(* What an assignment says.                                                *)
AssignmentIs(a, b, f, e) ==
  /\ a.studyId = b.studyId /\ a.bundle = [artifactSet |-> b.artifactSet, preLabel |-> b.preLabel] /\ a.entry = e
  /\ a.sawPeerLabels = (e.round = "adjudication") /\ a.sourceHasLabels = (b.labels # <<>>)
  /\ a.claimUse = UseOf(e.round, b.labels # <<>>) /\ a.evidence = b.evidence[f.subjectId] /\ a.finding = f
  /\ a.sourceLabels = IF e.round = "adjudication" THEN SourceLabels(b.labels, f.findingId, FALSE) ELSE {}
  /\ a.template = TemplateOf(b.studyId, e, b.labels # <<>>)

LEMMA AssignmentSays ==
  ASSUME NEW b, NEW f, NEW e
  PROVE  AssignmentIs(AssignmentOf(b, f, e), b, f, e)
<1> DEFINE a == AssignmentOf(b, f, e)
           bound == [artifactSet |-> b.artifactSet, preLabel |-> b.preLabel]
           saw == e.round = "adjudication"
           has == b.labels # <<>>
           use == UseOf(e.round, b.labels # <<>>)
           evidence == b.evidence[f.subjectId]
           sources == IF e.round = "adjudication" THEN SourceLabels(b.labels, f.findingId, FALSE) ELSE {}
           template == TemplateOf(b.studyId, e, b.labels # <<>>)
<1>1. a = [studyId |-> b.studyId, bundle |-> bound, entry |-> e, sawPeerLabels |-> saw, sourceHasLabels |-> has,
           claimUse |-> use, evidence |-> evidence, finding |-> f, sourceLabels |-> sources, template |-> template]
  BY Zenon DEF AssignmentOf
<1> HIDE DEF a, bound, saw, has, use, evidence, sources, template
<1>2. /\ a.studyId = b.studyId /\ a.bundle = bound /\ a.entry = e /\ a.sawPeerLabels = saw /\ a.sourceHasLabels = has
      /\ a.claimUse = use /\ a.evidence = evidence /\ a.finding = f /\ a.sourceLabels = sources /\ a.template = template
  BY <1>1
<1>3. AssignmentIs(a, b, f, e)
  BY <1>2, Zenon DEF AssignmentIs, bound, saw, has, use, evidence, sources, template
<1> QED BY <1>3 DEF a

(* A blank row of a worklist that knows of labels just where it settles    *)
(* them is one that the verifier takes.                                    *)
LEMMA BlankRowHolds ==
  ASSUME NEW study, NEW e, e.rater \notin SuggestiveNames
  PROVE  MetadataHolds(TemplateOf(study, e, e.round = "adjudication"), TRUE)
<1> DEFINE settles == e.round = "adjudication"
           t == TemplateOf(study, e, settles)
           role == IF e.round = "adjudication" THEN "adjudicator" ELSE "independent"
           use == UseOf(e.round, settles)
<1>1. t.rater = e.rater /\ t.round = e.round /\ t.role = role /\ t.claimUse = use
  BY Zenon DEF TemplateOf
<1>2. t.legacy = FALSE /\ t.flagged = FALSE /\ t.sawPeerLabels = settles /\ t.sourceHasLabels = settles
  BY Zenon DEF TemplateOf
<1> HIDE DEF t
<1>3. CASE settles
  <2>1. role = "adjudicator" /\ use = "sealed_adjudication"
    BY <1>3 DEF UseOf
  <2> HIDE DEF role, use
  <2>2. MetadataHolds(t, TRUE)
    BY <1>1, <1>2, <1>3, <2>1 DEF MetadataHolds, IsAdjudication
  <2> QED BY <2>2 DEF t
<1>4. CASE ~settles
  <2>1. role = "independent" /\ use = "blind_labeling"
    BY <1>4 DEF UseOf
  <2> HIDE DEF role, use
  <2>2. MetadataHolds(t, TRUE)
    BY <1>1, <1>2, <1>4, <2>1 DEF MetadataHolds, IsAdjudication
  <2> QED BY <2>2 DEF t
<1> QED BY <1>3, <1>4

LEMMA AssignmentMade ==
  ASSUME NEW o, NEW b, NEW m, NEW entries, ManifestIs(m, o, b, entries), EntriesDiffer(b), RatersHold(o),
         o.mode \in {"blind", "adjudication"}, o.mode = "adjudication" => b.labels # <<>>,
         NEW f \in WorklistSelection(o, b), NEW r \in WorklistRaters(o)
  PROVE  AssignmentHolds(AssignmentOf(b, f, EntryOf(b.studyId, f, r)), EntryOf(b.studyId, f, r), m, Context(b), b.labels)
           <=> /\ r.rater \notin SuggestiveNames
               /\ o.mode = "blind" => b.labels = <<>>
               /\ o.mode = "adjudication" => SnapshotsAgree(b.labels, f.findingId)
<1> DEFINE e == EntryOf(b.studyId, f, r)
           a == AssignmentOf(b, f, e)
           ctx == Context(b)
           settles == e.round = "adjudication"
           has == b.labels # <<>>
           found == CHOOSE x \in ctx.bundle.findings : x.findingId = e.findingId
           labels == b.labels
<1>1. EntryIs(e, b.studyId, f, r) /\ AssignmentIs(a, b, f, e)
  BY EntryFields, AssignmentSays
<1>2. IsRater(o, r)
  BY DEF RatersHold
<1>3. ctx.bundle = b /\ ctx.studyId = b.studyId
  BY DEF Context
<1>4. e = EntryOf(b.studyId, f, r)
  OBVIOUS
<1> HIDE DEF e, ctx
<1>5. e.findingId = f.findingId /\ e.round = r.round /\ e.rater = r.rater /\ e.raterType = r.raterType
  BY <1>1, Zenon DEF EntryIs
<1>6. f \in b.findings
  BY SelectedAreFindings
<1>7. found = f
  BY <1>3, <1>5, <1>6 DEF EntriesDiffer
<1>8. [rater |-> e.rater, raterType |-> e.raterType, round |-> e.round] = r
  <2>1. r = [rater |-> r.rater, raterType |-> r.raterType, round |-> r.round]
    BY <1>2, Zenon DEF IsRater
  <2> QED BY <1>5, <2>1
<1>9. settles <=> o.mode = "adjudication"
  <2>1. r.round \in WorklistRounds(o)
    BY <1>2, Zenon DEF IsRater
  <2> QED BY <1>5, <2>1 DEF WorklistRounds, BlindRounds
<1>10. r.raterType \in RaterTypes
  BY <1>2, Zenon DEF IsRater
<1>11. m.studyId = b.studyId /\ m.bundle = [artifactSet |-> b.artifactSet, preLabel |-> b.preLabel]
  BY Zenon DEF ManifestIs
<1> HIDE DEF a
<1>12. /\ a.studyId = b.studyId /\ a.bundle = [artifactSet |-> b.artifactSet, preLabel |-> b.preLabel] /\ a.entry = e
       /\ a.sawPeerLabels = settles /\ a.sourceHasLabels = has
       /\ a.claimUse = UseOf(e.round, has) /\ a.evidence = b.evidence[f.subjectId] /\ a.finding = f
       /\ a.sourceLabels = (IF settles THEN SourceLabels(labels, f.findingId, FALSE) ELSE {})
       /\ a.template = TemplateOf(b.studyId, e, has)
  BY <1>1, Zenon DEF AssignmentIs
<1>13. ASSUME AssignmentHolds(a, e, m, ctx, labels)
       PROVE  /\ r.rater \notin SuggestiveNames
              /\ o.mode = "blind" => labels = <<>>
              /\ o.mode = "adjudication" => SnapshotsAgree(labels, f.findingId)
  <2>1. e.rater \notin SuggestiveNames /\ a.sourceHasLabels = settles /\ SourcesHold(a, e, labels)
    BY <1>13, Zenon DEF AssignmentHolds
  <2>2. has = settles
    BY <1>12, <2>1
  <2>3. settles => SnapshotsAgree(labels, f.findingId)
    <3> SUFFICES ASSUME settles PROVE SnapshotsAgree(labels, f.findingId)
      OBVIOUS
    <3>1. {Snapshot(l, TRUE) : l \in a.sourceLabels} = SourceLabels(labels, e.findingId, TRUE)
      BY <2>1, Zenon DEF SourcesHold
    <3>2. a.sourceLabels = SourceLabels(labels, f.findingId, FALSE)
      BY <1>12
    <3> QED BY <1>5, <3>1, <3>2, Zenon DEF SnapshotsAgree
  <2> QED BY <1>5, <1>9, <2>1, <2>2, <2>3
<1>14. ASSUME r.rater \notin SuggestiveNames, o.mode = "blind" => labels = <<>>,
              o.mode = "adjudication" => SnapshotsAgree(labels, f.findingId)
       PROVE  AssignmentHolds(a, e, m, ctx, labels)
  <2>1. has = settles
    BY <1>9, <1>14
  <2>2. a.template = TemplateOf(m.studyId, e, settles)
    BY <1>11, <1>12, <2>1
  <2>3. MetadataHolds(a.template, TRUE)
    <3>1. MetadataHolds(TemplateOf(m.studyId, e, e.round = "adjudication"), TRUE)
      BY <1>5, <1>14, BlankRowHolds
    <3> QED BY <2>2, <3>1
  <2>4. SourcesHold(a, e, labels)
    <3>1. CASE settles
      <4>1. f \in {g \in WorklistFindings(b, FiltersOf(o)) : o.mode = "adjudication" => RatersDisagree(labels, g.findingId)}
        BY DEF WorklistSelection
      <4>2. RatersDisagree(labels, e.findingId)
        BY <1>5, <1>9, <3>1, <4>1
      <4>3. {Snapshot(l, TRUE) : l \in a.sourceLabels} = SourceLabels(labels, e.findingId, TRUE)
        <5>1. a.sourceLabels = SourceLabels(labels, f.findingId, FALSE) /\ SnapshotsAgree(labels, f.findingId)
          BY <1>9, <1>12, <1>14, <3>1
        <5> QED BY <1>5, <5>1, Zenon DEF SnapshotsAgree
      <4> QED BY <3>1, <4>2, <4>3 DEF SourcesHold
    <3>2. CASE ~settles
      BY <1>12, <3>2 DEF SourcesHold
    <3> QED BY <3>1, <3>2
  <2>5. a.claimUse = UseOf(e.round, FALSE)
    <3>1. a.claimUse = UseOf(e.round, settles)
      BY <1>12, <2>1
    <3>2. UseOf(e.round, settles) = UseOf(e.round, FALSE)
      BY DEF UseOf
    <3> QED BY <3>1, <3>2
  <2>6. e = EntryOf(ctx.studyId, found, [rater |-> e.rater, raterType |-> e.raterType, round |-> e.round])
    BY <1>3, <1>4, <1>7, <1>8
  <2>7. /\ a.sawPeerLabels = settles /\ a.sourceHasLabels = settles
        /\ a.studyId = m.studyId /\ a.bundle = m.bundle /\ a.entry = e
    BY <1>11, <1>12, <2>1
  <2>8. a.finding = found /\ a.evidence = ctx.bundle.evidence[found.subjectId]
    BY <1>3, <1>7, <1>12
  <2>9. e.findingId \in {x.findingId : x \in ctx.bundle.findings}
    BY <1>3, <1>5, <1>6
  <2>10. e.rater \notin SuggestiveNames /\ e.raterType \in RaterTypes
    BY <1>5, <1>10, <1>14
  <2> QED BY <2>2, <2>3, <2>4, <2>5, <2>6, <2>7, <2>8, <2>9, <2>10, Zenon DEF AssignmentHolds
<1>15. AssignmentHolds(a, e, m, ctx, labels)
           <=> /\ r.rater \notin SuggestiveNames
               /\ o.mode = "blind" => labels = <<>>
               /\ o.mode = "adjudication" => SnapshotsAgree(labels, f.findingId)
  BY <1>13, <1>14, Zenon
<1> QED BY <1>15 DEF a, e, ctx

(* What is known of a worklist that was made.                              *)
MadeFrom(o, b) ==
  /\ RatersHold(o) /\ EntriesDiffer(b) /\ o.mode \in {"blind", "adjudication"} /\ WorklistSelection(o, b) # {}
  /\ \A i, j \in DOMAIN b.labels :
       i # j => <<b.labels[i].rater, b.labels[i].findingId>> # <<b.labels[j].rater, b.labels[j].findingId>>
  /\ o.mode = "adjudication" => b.labels # <<>> /\ \A i \in DOMAIN b.labels : ~IsAdjudication(b.labels[i])
  /\ o.protocol # <<>> => RulesAreWhole(o.protocol[1].exclusions)

LEMMA MadeMeans ==
  ASSUME NEW o, NEW b, WorklistIsMade(o, b), OptionsAreTyped(o)
  PROVE  MadeFrom(o, b)
<1>1. OptionsParse(o) /\ BundleHolds(b) /\ WorklistSelection(o, b) # {}
  BY Zenon DEF WorklistIsMade
<1>2. o.mode = "adjudication" => b.labels # <<>> /\ \A i \in DOMAIN b.labels : ~IsAdjudication(b.labels[i])
  BY Zenon DEF WorklistIsMade
<1>3. o.protocol # <<>> => RulesAreWhole(o.protocol[1].exclusions)
  <2>1. o.protocol # <<>> => BindingHolds(o.protocol[1], o, b)
    BY Zenon DEF WorklistIsMade
  <2> QED BY <2>1, Zenon DEF BindingHolds
<1>4. RatersHold(o)
  BY <1>1, RatersOfOptions
<1>5. o.mode \in {"blind", "adjudication"}
  BY <1>1 DEF OptionsParse
<1>6. EntriesDiffer(b)
  BY <1>1, Zenon DEF BundleHolds, EntriesDiffer
<1>7. \A i, j \in DOMAIN b.labels :
        i # j => <<b.labels[i].rater, b.labels[i].findingId>> # <<b.labels[j].rater, b.labels[j].findingId>>
  BY <1>1, Zenon DEF BundleHolds
<1> QED BY <1>1, <1>2, <1>3, <1>4, <1>5, <1>6, <1>7, Zenon DEF MadeFrom

(* The rows that a worklist settles.                                       *)
SettledRows(o, b) == {i \in DOMAIN b.labels : \E f \in WorklistSelection(o, b) : f.findingId = b.labels[i].findingId}

(* Which worklists that were made the verifier takes.                      *)
IsTaken(o, b) ==
  /\ o.mode = "blind" => b.labels = <<>> /\ ~o.allowExisting
  /\ WorklistNames(o) \cap SuggestiveNames = {}
  /\ ReasonsGiven(o)
  /\ o.mode = "adjudication" => \A i \in SettledRows(o, b) : ~b.labels[i].legacy

LEMMA MadeIsTaken ==
  ASSUME NEW o, NEW b, NEW seal, WorklistIsMade(o, b), OptionsAreTyped(o), ExclusionsAreTyped(o),
         IsFiniteSet(b.findings), AreRows(b.labels)
  PROVE  WorklistVerifies(CreateWorklist(o, b, seal), b.labels, Context(b)) <=> IsTaken(o, b)
<1> DEFINE dir == CreateWorklist(o, b, seal)
           m == ManifestOf(dir)
           ctx == Context(b)
           labels == b.labels
           entries == MadeEntries(o, b)
           sel == WorklistSelection(o, b)
           raters == WorklistRaters(o)
           E(f, r) == EntryOf(b.studyId, f, r)
           settling == o.mode = "adjudication" => \A i \in SettledRows(o, b) : ~labels[i].legacy
<1>1. MadeFrom(o, b)
  BY MadeMeans
<1>2. /\ RatersHold(o) /\ EntriesDiffer(b) /\ o.mode \in {"blind", "adjudication"} /\ sel # {}
      /\ \A i, j \in DOMAIN labels :
           i # j => <<labels[i].rater, labels[i].findingId>> # <<labels[j].rater, labels[j].findingId>>
      /\ o.mode = "adjudication" => labels # <<>> /\ \A i \in DOMAIN labels : ~IsAdjudication(labels[i])
      /\ o.protocol # <<>> => RulesAreWhole(o.protocol[1].exclusions)
  BY <1>1, Zenon DEF MadeFrom
<1>3. IsMadeOf(dir, o, b)
  BY <1>2, WorklistParts
<1> HIDE DEF dir
<1>4. /\ dir.intact /\ dir.sums = DOMAIN dir.files /\ ManifestPath \in DOMAIN dir.files
      /\ m = WorklistManifest(o, b, entries)
      /\ \A f \in sel, r \in raters : dir.files[E(f, r).path] = AssignmentOf(b, f, E(f, r))
  BY <1>3 DEF IsMadeOf, ManifestOf
<1>5. ManifestIs(m, o, b, entries)
  BY <1>4, ManifestSays
<1> HIDE DEF m
<1>6. /\ m.studyId = b.studyId /\ m.bundle = [artifactSet |-> b.artifactSet, preLabel |-> b.preLabel] /\ m.assignments = entries
  BY <1>5, Zenon DEF ManifestIs
<1>7. AssignedIn(dir) = entries
  BY <1>4, <1>6 DEF AssignedIn, m
<1>8. ctx.digest = <<>> /\ ctx.studyId = b.studyId /\ ctx.artifactSet = <<>> /\ ctx.protocol = <<>> /\ ctx.bundle = b
  BY DEF Context
<1>9. m.bundle.preLabel = ctx.bundle.preLabel /\ ProtocolBound(m, ctx.protocol) /\ m.studyId = ctx.studyId
  BY <1>6, <1>8 DEF ProtocolBound
<1>10. ShapeHolds(m) <=> WorklistNames(o) \cap SuggestiveNames = {} /\ ReasonsGiven(o)
  BY <1>2, <1>5, ShapeOfMade
<1>11. /\ ManifestConsistent(m) <=> (o.mode = "blind" => labels = <<>> /\ ~o.allowExisting)
       /\ IsFiniteSet(entries)
  BY <1>2, <1>5, ConsistentMade
<1>12. DeclaredFiles(dir)
  BY <1>2, <1>3, <1>7, <1>11, DeclaredMade
<1>13. \A f \in sel, r \in raters :
         AssignmentHolds(dir.files[E(f, r).path], E(f, r), m, ctx, labels)
           <=> /\ r.rater \notin SuggestiveNames
               /\ o.mode = "blind" => labels = <<>>
               /\ o.mode = "adjudication" => SnapshotsAgree(labels, f.findingId)
  BY <1>2, <1>4, <1>5, AssignmentMade
<1>14. \A e \in entries : \E f \in sel, r \in raters : e = E(f, r) /\ e.round = r.round
  <2> SUFFICES ASSUME NEW e \in entries PROVE \E f \in sel, r \in raters : e = E(f, r) /\ e.round = r.round
    OBVIOUS
  <2>1. PICK f \in sel, r \in raters : e = E(f, r)
    BY DEF MadeEntries
  <2>2. EntryIs(E(f, r), b.studyId, f, r)
    BY EntryFields
  <2> HIDE DEF E
  <2>3. e.round = r.round
    BY <2>1, <2>2, Zenon DEF EntryIs
  <2> QED BY <2>1, <2>3
<1>15. \A f \in sel, r \in raters : E(f, r) \in entries
  BY DEF MadeEntries
<1>16. {r.rater : r \in raters} = WorklistNames(o) /\ (\E r \in raters : TRUE)
  <2>1. {r.rater : r \in raters} = WorklistNames(o) /\ {r.round : r \in raters} = WorklistRounds(o)
    BY <1>2 DEF RatersHold
  <2>2. WorklistRounds(o) # {}
    BY DEF WorklistRounds, BlindRounds
  <2> QED BY <2>1, <2>2
<1> HIDE DEF E, entries, sel, raters, ctx
<1>17. o.mode = "adjudication" => (settling <=> \A f \in sel : SnapshotsAgree(labels, f.findingId))
  <2> SUFFICES ASSUME o.mode = "adjudication"
               PROVE  (\A i \in SettledRows(o, b) : ~labels[i].legacy) <=> \A f \in sel : SnapshotsAgree(labels, f.findingId)
    OBVIOUS
  <2>1. \A f \in sel : SnapshotsAgree(labels, f.findingId) <=> \A i \in Independent(labels, f.findingId) : ~labels[i].legacy
    BY <1>2, LegacySnapshot
  <2>2. \A i : i \in SettledRows(o, b) <=> \E f \in sel : i \in Independent(labels, f.findingId)
    BY <1>2 DEF SettledRows, Independent, sel
  <2> QED BY <2>1, <2>2
<1>18. (\A e \in entries : AssignmentHolds(dir.files[e.path], e, m, ctx, labels))
       <=> /\ WorklistNames(o) \cap SuggestiveNames = {}
           /\ o.mode = "blind" => labels = <<>>
           /\ settling
  <2> HIDE DEF settling
  <2>1. ASSUME \A e \in entries : AssignmentHolds(dir.files[e.path], e, m, ctx, labels)
        PROVE  /\ WorklistNames(o) \cap SuggestiveNames = {}
               /\ o.mode = "blind" => labels = <<>>
               /\ settling
    <3>1. \A f \in sel, r \in raters :
            /\ r.rater \notin SuggestiveNames
            /\ o.mode = "blind" => labels = <<>>
            /\ o.mode = "adjudication" => SnapshotsAgree(labels, f.findingId)
      BY <1>13, <1>15, <2>1
    <3>2. \E f \in sel : TRUE
      BY <1>2
    <3>3. o.mode = "adjudication" => settling
      BY <1>16, <1>17, <3>1
    <3>4. o.mode # "adjudication" => settling
      BY DEF settling
    <3>5. o.mode = "blind" => labels = <<>>
      BY <1>16, <3>1, <3>2
    <3>6. WorklistNames(o) \cap SuggestiveNames = {}
      BY <1>16, <3>1, <3>2
    <3> QED BY <3>3, <3>4, <3>5, <3>6
  <2>2. ASSUME WorklistNames(o) \cap SuggestiveNames = {}, o.mode = "blind" => labels = <<>>, settling
        PROVE  \A e \in entries : AssignmentHolds(dir.files[e.path], e, m, ctx, labels)
    <3>1. \A r \in raters : r.rater \notin SuggestiveNames
      BY <1>16, <2>2
    <3>2. \A f \in sel, r \in raters : AssignmentHolds(dir.files[E(f, r).path], E(f, r), m, ctx, labels)
      BY <1>13, <1>17, <2>2, <3>1
    <3> QED BY <1>14, <3>2
  <2> QED BY <2>1, <2>2
<1>19. IsTaken(o, b) => \A i \in DOMAIN labels : labels[i].round \in RoundsOf(dir) => RowIsAssigned(dir, labels[i])
  <2> SUFFICES ASSUME IsTaken(o, b), NEW i \in DOMAIN labels, labels[i].round \in RoundsOf(dir) PROVE FALSE
    OBVIOUS
  <2>1. CASE o.mode = "blind"
    <3>1. labels = <<>>
      BY <2>1 DEF IsTaken
    <3> QED BY <3>1
  <2>2. CASE o.mode = "adjudication"
    <3>1. labels[i].round # "adjudication"
      BY <1>2, <2>2 DEF IsAdjudication
    <3>2. PICK e \in entries : e.round = labels[i].round
      BY <1>7 DEF RoundsOf
    <3>3. PICK r \in raters : e.round = r.round
      BY <1>14
    <3>4. r.round \in WorklistRounds(o)
      BY <1>2 DEF RatersHold, IsRater, raters
    <3> QED BY <2>2, <3>1, <3>2, <3>3, <3>4 DEF WorklistRounds
  <2> QED BY <1>2, <2>1, <2>2
<1>20. ASSUME IsTaken(o, b) PROVE WorklistVerifies(dir, labels, ctx)
  <2>1. /\ WorklistNames(o) \cap SuggestiveNames = {} /\ ReasonsGiven(o) /\ settling
        /\ o.mode = "blind" => labels = <<>> /\ ~o.allowExisting
    BY <1>20, Zenon DEF IsTaken
  <2> HIDE DEF settling
  <2>2. ShapeHolds(m) /\ ManifestConsistent(m)
    BY <1>10, <1>11, <2>1
  <2>3. \A e \in m.assignments : AssignmentHolds(dir.files[e.path], e, m, ctx, labels)
    BY <1>6, <1>18, <2>1
  <2>4. \A i \in DOMAIN labels : labels[i].round \in RoundsOf(dir) => RowIsAssigned(dir, labels[i])
    BY <1>19, <1>20
  <2> QED BY <1>4, <1>8, <1>9, <1>12, <2>2, <2>3, <2>4, Zenon DEF WorklistVerifies, m
<1>21. ASSUME WorklistVerifies(dir, labels, ctx) PROVE IsTaken(o, b)
  <2>1. /\ ShapeHolds(m) /\ ManifestConsistent(m)
        /\ \A e \in m.assignments : AssignmentHolds(dir.files[e.path], e, m, ctx, labels)
    BY <1>21, Zenon DEF WorklistVerifies, m
  <2> HIDE DEF settling
  <2>2. /\ WorklistNames(o) \cap SuggestiveNames = {} /\ ReasonsGiven(o)
        /\ o.mode = "blind" => labels = <<>> /\ ~o.allowExisting
    BY <1>10, <1>11, <2>1
  <2>3. settling
    BY <1>6, <1>18, <2>1
  <2> QED BY <2>2, <2>3, Zenon DEF IsTaken, settling
<1> QED BY <1>20, <1>21 DEF dir, ctx

-----------------------------------------------------------------------------
(* Labels that move                                                        *)

MovingTargets(c) ==
  {f.findingId : f \in {x \in c.target.findings : x.findingId \in c.target.sampled /\ x.precisionEligible}}
AllLabels(c) == c.source.labels \o c.extra
MovingPlaces(c) == {i \in DOMAIN AllLabels(c) : AllLabels(c)[i].findingId \in MovingTargets(c)}
MovedAt(c, i) == Moved(c, AllLabels(c)[i])
ReboundFrom(c, i) == Rebound(MovedAt(c, i), c.worklists)

(* What transferLabels writes, and when it writes.                         *)
LEMMA TransferForm ==
  ASSUME NEW c
  PROVE  /\ TransferLabels(c).rows = [i \in MovingPlaces(c) |-> ReboundFrom(c, i)]
         /\ TransferLabels(c).missing = MovingTargets(c) \ {ReboundFrom(c, i).findingId : i \in MovingPlaces(c)}
         /\ TransferLabels(c).written =>
              /\ TargetsHold(c)
              /\ c.worklists # <<>> => \A i \in MovingPlaces(c) : AssignedTo(MovedAt(c, i), c.worklists) # {}
              /\ c.strict => /\ c.worklists # <<>>
                             /\ \A i \in MovingPlaces(c) : StrictlyHolds(ReboundFrom(c, i))
<1> DEFINE moved == [i \in MovingPlaces(c) |-> MovedAt(c, i)]
           rows == [i \in MovingPlaces(c) |-> Rebound(moved[i], c.worklists)]
           stopped == \E i, k \in MovingPlaces(c) :
                        Len(c.source.labels) < i /\ k < i /\ LabelKey(rows[i]) = LabelKey(rows[k])
           issues ==
             \/ c.strict /\ c.worklists = <<>>
             \/ ~TargetsHold(c)
             \/ c.worklists # <<>> /\ \E i \in MovingPlaces(c) : AssignedTo(moved[i], c.worklists) = {}
             \/ c.strict /\ \E i \in MovingPlaces(c) : ~StrictlyHolds(moved[i]) \/ ~StrictlyHolds(rows[i])
<1>1. TransferLabels(c) = [rows |-> rows, written |-> ~stopped /\ ~issues,
                           missing |-> MovingTargets(c) \ {rows[i].findingId : i \in MovingPlaces(c)}]
  BY Zenon DEF TransferLabels, MovingPlaces, MovedAt, AllLabels, MovingTargets
<1>2. \A i \in MovingPlaces(c) : moved[i] = MovedAt(c, i)
  BY Zenon
<1>3. \A i \in MovingPlaces(c) : rows[i] = ReboundFrom(c, i)
  BY <1>2, Zenon DEF ReboundFrom
<1>4. rows = [i \in MovingPlaces(c) |-> ReboundFrom(c, i)]
  BY <1>3, Zenon
<1>5. TransferLabels(c).rows = rows /\ TransferLabels(c).written = (~stopped /\ ~issues)
      /\ TransferLabels(c).missing = MovingTargets(c) \ {rows[i].findingId : i \in MovingPlaces(c)}
  <2> HIDE DEF moved, rows, stopped, issues
  <2> DEFINE said == ~stopped /\ ~issues
             missing == MovingTargets(c) \ {rows[i].findingId : i \in MovingPlaces(c)}
  <2>1. TransferLabels(c) = [rows |-> rows, written |-> said, missing |-> missing]
    BY <1>1
  <2> HIDE DEF said, missing
  <2>2. TransferLabels(c).rows = rows /\ TransferLabels(c).written = said /\ TransferLabels(c).missing = missing
    BY <2>1
  <2> QED BY <2>2 DEF said, missing
<1> HIDE DEF moved, rows, stopped
<1>6. ASSUME ~issues
      PROVE  /\ TargetsHold(c)
             /\ c.worklists # <<>> => \A i \in MovingPlaces(c) : AssignedTo(MovedAt(c, i), c.worklists) # {}
             /\ c.strict => /\ c.worklists # <<>>
                            /\ \A i \in MovingPlaces(c) : StrictlyHolds(ReboundFrom(c, i))
  BY <1>6, <1>2, <1>3, Zenon
<1> HIDE DEF issues
<1>7. {rows[i].findingId : i \in MovingPlaces(c)} = {ReboundFrom(c, i).findingId : i \in MovingPlaces(c)}
  BY <1>3
<1> QED BY <1>4, <1>5, <1>6, <1>7, Zenon

(* The rows of the source and then those from other files.                 *)
LEMMA LabelsInOrder ==
  ASSUME NEW c, AreRows(c.source.labels), AreRows(c.extra)
  PROVE  /\ \A i \in DOMAIN AllLabels(c) : IsRow(AllLabels(c)[i])
         /\ {AllLabels(c)[i] : i \in DOMAIN AllLabels(c)} = Range(c.source.labels) \cup Range(c.extra)
<1> DEFINE s == c.source.labels
           x == c.extra
<1>1. /\ s \in Seq(Range(s)) /\ x \in Seq(Range(x))
      /\ \A i \in DOMAIN s : IsRow(s[i])
      /\ \A i \in DOMAIN x : IsRow(x[i])
  BY DEF AreRows
<1>2. Range(s) = {s[i] : i \in DOMAIN s} /\ Range(x) = {x[i] : i \in DOMAIN x}
  BY Zenon DEF Range
<1>3. AllLabels(c) = s \o x
  BY DEF AllLabels
<1> HIDE DEF s, x
<1>4. /\ DOMAIN s = 1..Len(s) /\ DOMAIN x = 1..Len(x) /\ Len(s) \in Nat /\ Len(x) \in Nat
      /\ DOMAIN (s \o x) = 1..(Len(s) + Len(x))
      /\ \A i \in 1..(Len(s) + Len(x)) : (s \o x)[i] = IF i <= Len(s) THEN s[i] ELSE x[i - Len(s)]
  BY <1>1
<1>5. \A i \in DOMAIN (s \o x) : (\E k \in DOMAIN s : (s \o x)[i] = s[k]) \/ (\E k \in DOMAIN x : (s \o x)[i] = x[k])
  <2> SUFFICES ASSUME NEW i \in DOMAIN (s \o x)
               PROVE  (\E k \in DOMAIN s : (s \o x)[i] = s[k]) \/ (\E k \in DOMAIN x : (s \o x)[i] = x[k])
    OBVIOUS
  <2>1. CASE i <= Len(s)
    BY <1>4, <2>1
  <2>2. CASE ~(i <= Len(s))
    <3>1. i - Len(s) \in DOMAIN x /\ (s \o x)[i] = x[i - Len(s)]
      BY <1>4, <2>2
    <3> QED BY <3>1
  <2> QED BY <2>1, <2>2
<1>6. \A k \in DOMAIN s : k \in DOMAIN (s \o x) /\ (s \o x)[k] = s[k]
  BY <1>4
<1>7. \A k \in DOMAIN x : Len(s) + k \in DOMAIN (s \o x) /\ (s \o x)[Len(s) + k] = x[k]
  <2> SUFFICES ASSUME NEW k \in DOMAIN x PROVE Len(s) + k \in DOMAIN (s \o x) /\ (s \o x)[Len(s) + k] = x[k]
    OBVIOUS
  <2>1. Len(s) + k \in 1..(Len(s) + Len(x)) /\ ~(Len(s) + k <= Len(s)) /\ (Len(s) + k) - Len(s) = k
    BY <1>4
  <2> QED BY <2>1, <1>4
<1> DEFINE all == s \o x
<1>8. {all[i] : i \in DOMAIN all} = Range(s) \cup Range(x)
  <2> HIDE DEF all
  <2>1. ASSUME NEW y \in {all[i] : i \in DOMAIN all} PROVE y \in Range(s) \cup Range(x)
    BY <1>2, <1>5 DEF all
  <2>2. ASSUME NEW y \in Range(s) PROVE y \in {all[i] : i \in DOMAIN all}
    <3>1. PICK k \in DOMAIN s : y = s[k]
      BY <1>2
    <3>2. k \in DOMAIN all /\ all[k] = y
      BY <1>6, <3>1 DEF all
    <3> QED BY <3>2
  <2>3. ASSUME NEW y \in Range(x) PROVE y \in {all[i] : i \in DOMAIN all}
    <3>1. PICK k \in DOMAIN x : y = x[k]
      BY <1>2
    <3>2. Len(s) + k \in DOMAIN all /\ all[Len(s) + k] = y
      BY <1>7, <3>1 DEF all
    <3> QED BY <3>2
  <2> QED BY <2>1, <2>2, <2>3
<1> QED BY <1>1, <1>3, <1>5, <1>8 DEF s, x

(* A row that moves gets the study of the target and perhaps a type.       *)
LEMMA MovedRow ==
  ASSUME NEW c, NEW l, IsRow(l)
  PROVE  LET m == Moved(c, l)
         IN /\ DOMAIN m = RowFields /\ m.studyId = c.target.studyId
            /\ m.findingId = l.findingId /\ m.rater = l.rater /\ m.round = l.round /\ m.role = l.role
            /\ m.flagged = l.flagged /\ m.legacy = l.legacy /\ m.label = l.label /\ m.reasoned = l.reasoned
<1>1. DOMAIN l = RowFields
  BY DEF IsRow
<1>2. {"studyId", "findingId", "rater", "raterType", "round", "role", "flagged", "legacy", "label", "reasoned"} \subseteq RowFields
  BY DEF RowFields
<1>3. Moved(c, l) = [l EXCEPT !.studyId = c.target.studyId,
                              !.raterType = IF l.raterType = "" THEN c.defaultType ELSE l.raterType]
  BY <1>1, <1>2 DEF Moved
<1> QED BY <1>1, <1>2, <1>3

(* A blank row (labelTemplate).                                            *)
IsBlank(t, study, e) ==
  /\ t = [k \in RowFields |-> t[k]]
  /\ t.studyId = study /\ t.findingId = e.findingId /\ t.rater = e.rater /\ t.round = e.round
  /\ t.legacy = FALSE /\ t.flagged = FALSE /\ t.reasoned = FALSE /\ t.label = "" /\ t.worklist = <<>>
  /\ t.assignmentId = e.assignmentId

LEMMA TemplateIsBlank ==
  ASSUME NEW study, NEW e, NEW has
  PROVE  IsBlank(TemplateOf(study, e, has), study, e)
<1> DEFINE t == TemplateOf(study, e, has)
<1>1. DOMAIN t = RowFields
  BY DEF TemplateOf, RowFields
<1>2. t = [k \in DOMAIN t |-> t[k]]
  BY DEF TemplateOf
<1>3. t.studyId = study /\ t.findingId = e.findingId /\ t.rater = e.rater /\ t.round = e.round
  BY Zenon DEF TemplateOf
<1>4. t.legacy = FALSE /\ t.flagged = FALSE /\ t.reasoned = FALSE
  BY Zenon DEF TemplateOf
<1>5. t.label = "" /\ t.worklist = <<>> /\ t.assignmentId = e.assignmentId
  BY Zenon DEF TemplateOf
<1> HIDE DEF t
<1>6. t = [k \in RowFields |-> t[k]]
  BY <1>1, <1>2
<1>7. IsBlank(t, study, e)
  BY <1>3, <1>4, <1>5, <1>6, Zenon DEF IsBlank
<1> QED BY <1>7 DEF t

(* A row is what it has, whatever of it was written anew.                  *)
LEMMA WrittenAnew ==
  ASSUME NEW t, t = [k \in RowFields |-> t[k]],
         t.legacy = FALSE, t.flagged = FALSE, t.reasoned = FALSE, t.label = "", t.worklist = <<>>,
         NEW w, NEW a, NEW r, NEW g
  PROVE  LET l == [t EXCEPT !.worklist = w, !.label = a, !.reasoned = r, !.flagged = g, !.legacy = FALSE]
         IN [l EXCEPT !.studyId = t.studyId, !.worklist = <<>>, !.label = "", !.reasoned = FALSE, !.flagged = FALSE] = t
<1> DEFINE l == [t EXCEPT !.worklist = w, !.label = a, !.reasoned = r, !.flagged = g, !.legacy = FALSE]
           n == [l EXCEPT !.studyId = t.studyId, !.worklist = <<>>, !.label = "", !.reasoned = FALSE, !.flagged = FALSE]
<1>1. DOMAIN t = RowFields /\ DOMAIN l = DOMAIN t /\ DOMAIN n = DOMAIN l
  OBVIOUS
<1>2. \A k \in DOMAIN t : n[k] = t[k]
  BY <1>1 DEF RowFields
<1>3. n = [k \in DOMAIN n |-> n[k]]
  OBVIOUS
<1> HIDE DEF n
<1>4. n = t
  BY <1>1, <1>2, <1>3
<1> QED BY <1>4 DEF n

(* What the rows of a target worklist that holds are.                      *)
LEMMA TargetRow ==
  ASSUME NEW c, TargetsHold(c), NEW x \in TargetTemplates(c.worklists)
  PROVE  \E i \in DOMAIN c.worklists : \E e \in AssignedIn(c.worklists[i]) : \E has :
           /\ x.seal = c.worklists[i].seal
           /\ x.template = c.worklists[i].files[e.path].template
           /\ x.template = TemplateOf(c.target.studyId, e, has)
<1>1. PICK i \in DOMAIN c.worklists : \E e \in AssignedIn(c.worklists[i]) :
        x = [seal |-> c.worklists[i].seal, template |-> c.worklists[i].files[e.path].template, place |-> <<i, e>>]
  BY Zenon DEF TargetTemplates
<1>2. PICK e \in AssignedIn(c.worklists[i]) :
        x = [seal |-> c.worklists[i].seal, template |-> c.worklists[i].files[e.path].template, place |-> <<i, e>>]
  BY <1>1
<1> DEFINE dir == c.worklists[i]
           ctx == [Context(c.target) EXCEPT !.artifactSet = c.target.artifactSet]
           m == ManifestOf(dir)
<1>3. WorklistVerifies(dir, c.target.labels, ctx)
  BY Zenon DEF TargetsHold
<1>4. ctx.studyId = c.target.studyId
  BY DEF Context
<1> HIDE DEF ctx
<1>5. /\ ManifestPath \in DOMAIN dir.files /\ m.studyId = c.target.studyId
      /\ \A d \in m.assignments : AssignmentHolds(dir.files[d.path], d, m, ctx, c.target.labels)
  BY <1>3, <1>4, Zenon DEF WorklistVerifies
<1>6. e \in m.assignments
  BY <1>5 DEF AssignedIn
<1>7. dir.files[e.path].template = TemplateOf(m.studyId, e, e.round = "adjudication")
  BY <1>5, <1>6, Zenon DEF AssignmentHolds
<1> HIDE DEF m
<1>8. x.seal = dir.seal /\ x.template = dir.files[e.path].template
  BY <1>2
<1>9. \E has : x.template = TemplateOf(c.target.studyId, e, has)
  BY <1>5, <1>7, <1>8, Zenon
<1> HIDE DEF dir
<1> QED BY <1>8, <1>9, Zenon DEF dir

(* A row that is bound to an assignment keeps its finding, its rater, its  *)
(* round, its verdict and what it is for.                                  *)
VerdictOf(l) == <<l.findingId, l.rater, l.round, IsAdjudication(l), l.label, l.reasoned>>
LEMMA ReboundKeeps ==
  ASSUME NEW c, TargetsHold(c), NEW l, DOMAIN l = RowFields, l.flagged \in BOOLEAN, l.legacy \in BOOLEAN,
         l.studyId = c.target.studyId,
         c.worklists # <<>> => AssignedTo(l, c.worklists) # {}
  PROVE  LET n == Rebound(l, c.worklists)
         IN /\ VerdictOf(n) = VerdictOf(l) /\ n.findingId = l.findingId
            /\ n.studyId = c.target.studyId
            /\ c.worklists # <<>> /\ StrictlyHolds(n) =>
                 \E i \in DOMAIN c.worklists :
                   n.worklist = c.worklists[i].seal /\ RowIsAssigned(c.worklists[i], n)
<1>1. CASE c.worklists = <<>>
  <2>1. Rebound(l, c.worklists) = l
    BY <1>1, Zenon DEF Rebound
  <2> QED BY <1>1, <2>1, Zenon
<1>2. CASE c.worklists # <<>>
  <2> DEFINE x == CHOOSE y \in AssignedTo(l, c.worklists) : TRUE
             t == x.template
             n == [t EXCEPT !.worklist = x.seal, !.label = l.label, !.reasoned = l.reasoned,
                            !.flagged = l.flagged, !.legacy = l.legacy]
  <2>1. AssignedTo(l, c.worklists) # {}
    BY <1>2
  <2>2. x \in AssignedTo(l, c.worklists)
    BY <2>1, Zenon
  <2>3. x \in TargetTemplates(c.worklists) /\ AssignmentKey(t) = AssignmentKey(l)
    BY <2>2, Zenon DEF AssignedTo
  <2>4. Rebound(l, c.worklists) = n
    BY <1>2, <2>1, Zenon DEF Rebound
  <2> HIDE DEF x
  <2>5. PICK i \in DOMAIN c.worklists : \E e \in AssignedIn(c.worklists[i]) : \E has :
           /\ x.seal = c.worklists[i].seal
           /\ t = c.worklists[i].files[e.path].template
           /\ t = TemplateOf(c.target.studyId, e, has)
    BY <2>3, TargetRow
  <2>6. PICK e \in AssignedIn(c.worklists[i]) : \E has :
           /\ x.seal = c.worklists[i].seal
           /\ t = c.worklists[i].files[e.path].template
           /\ t = TemplateOf(c.target.studyId, e, has)
    BY <2>5
  <2>7. PICK has : t = TemplateOf(c.target.studyId, e, has)
    BY <2>6
  <2> HIDE DEF t
  <2>8. /\ t = [k \in RowFields |-> t[k]]
        /\ t.studyId = c.target.studyId
        /\ t.legacy = FALSE /\ t.flagged = FALSE /\ t.reasoned = FALSE /\ t.label = "" /\ t.worklist = <<>>
        /\ t.assignmentId = e.assignmentId
    <3>1. IsBlank(t, c.target.studyId, e)
      BY <2>7, TemplateIsBlank, Zenon
    <3> QED BY <3>1, Zenon DEF IsBlank
  <2>9. /\ n.studyId = t.studyId /\ n.findingId = t.findingId /\ n.rater = t.rater /\ n.round = t.round
        /\ n.role = t.role /\ n.flagged = l.flagged /\ n.label = l.label /\ n.reasoned = l.reasoned
        /\ n.legacy = l.legacy /\ n.worklist = x.seal /\ n.assignmentId = t.assignmentId
    <3>1. DOMAIN t = RowFields
      BY <2>8
    <3> QED BY <3>1 DEF RowFields
  <2>10. t.findingId = l.findingId /\ t.rater = l.rater /\ t.round = l.round /\ IsAdjudication(t) = IsAdjudication(l)
    BY <2>3 DEF AssignmentKey
  <2>11. IsAdjudication(n) = IsAdjudication(l)
    BY <2>8, <2>9, <2>10 DEF IsAdjudication
  <2>12. VerdictOf(n) = VerdictOf(l)
    <3> HIDE DEF n
    <3> QED BY <2>9, <2>10, <2>11 DEF VerdictOf
  <2>13. ASSUME StrictlyHolds(n) PROVE n.worklist = c.worklists[i].seal /\ RowIsAssigned(c.worklists[i], n)
    <3>1. MetadataHolds(n, TRUE) /\ n.label \in AllowedLabels
      BY <2>13, Zenon DEF StrictlyHolds
    <3>2. ~n.legacy
      BY <3>1, Zenon DEF MetadataHolds
    <3>3. l.legacy = FALSE
      BY <2>9, <3>2
    <3>4. [n EXCEPT !.studyId = t.studyId, !.worklist = <<>>, !.label = "", !.reasoned = FALSE, !.flagged = FALSE] = t
      <4> DEFINE l0 == [t EXCEPT !.worklist = x.seal, !.label = l.label, !.reasoned = l.reasoned,
                                 !.flagged = l.flagged, !.legacy = FALSE]
      <4>1. n = l0
        BY <3>3
      <4> HIDE DEF n
      <4>2. [l0 EXCEPT !.studyId = t.studyId, !.worklist = <<>>, !.label = "", !.reasoned = FALSE, !.flagged = FALSE] = t
        BY <2>8, WrittenAnew
      <4> HIDE DEF l0
      <4> QED BY <4>1, <4>2
    <3> HIDE DEF n
    <3>5. x.seal = c.worklists[i].seal /\ t = c.worklists[i].files[e.path].template
      BY <2>6
    <3>6. n.worklist = c.worklists[i].seal
      BY <2>9, <3>5
    <3>7. e.assignmentId = n.assignmentId
      BY <2>8, <2>9
    <3>8. RowIsAssigned(c.worklists[i], n)
      BY <3>1, <3>4, <3>5, <3>6, <3>7, Zenon DEF RowIsAssigned
    <3> QED BY <3>6, <3>8
  <2>14. n.studyId = c.target.studyId /\ n.findingId = l.findingId
    BY <2>8, <2>9, <2>10
  <2> HIDE DEF n
  <2> QED BY <2>4, <2>12, <2>13, <2>14, Zenon
<1> QED BY <1>1, <1>2

(* What is written of a transfer keeps the verdicts.                       *)
LEMMA VerdictsMove ==
  ASSUME NEW c, AreRows(c.source.labels), AreRows(c.extra), TransferLabels(c).written
  PROVE  LET answered == TransferLabels(c)
             origins == Range(c.source.labels) \cup Range(c.extra)
             rows == Range(answered.rows)
         IN /\ {VerdictOf(l) : l \in rows} = {VerdictOf(l) : l \in {x \in origins : x.findingId \in MovingTargets(c)}}
            /\ \A l \in rows : l.studyId = c.target.studyId
            /\ c.strict => \A l \in rows : \E i \in DOMAIN c.worklists :
                 l.worklist = c.worklists[i].seal /\ RowIsAssigned(c.worklists[i], l)
            /\ answered.missing = {} <=> MovingTargets(c) \subseteq {l.findingId : l \in rows}
<1> DEFINE answered == TransferLabels(c)
           origins == Range(c.source.labels) \cup Range(c.extra)
           rows == Range(answered.rows)
           all == AllLabels(c)
           places == MovingPlaces(c)
           targets == MovingTargets(c)
           Row(i) == ReboundFrom(c, i)
<1>1. /\ answered.rows = [i \in places |-> Row(i)]
      /\ answered.missing = targets \ {Row(i).findingId : i \in places}
      /\ TargetsHold(c)
      /\ c.worklists # <<>> => \A i \in places : AssignedTo(MovedAt(c, i), c.worklists) # {}
      /\ c.strict => c.worklists # <<>> /\ \A i \in places : StrictlyHolds(Row(i))
  BY TransferForm
<1>2. (\A i \in DOMAIN all : IsRow(all[i])) /\ {all[i] : i \in DOMAIN all} = origins
  BY LabelsInOrder
<1>3. rows = {Row(i) : i \in places}
  BY <1>1 DEF Range
<1>4. ASSUME NEW i \in places
      PROVE  /\ i \in DOMAIN all /\ all[i].findingId \in targets
             /\ VerdictOf(Row(i)) = VerdictOf(all[i]) /\ Row(i).studyId = c.target.studyId
             /\ c.strict => \E k \in DOMAIN c.worklists :
                  Row(i).worklist = c.worklists[k].seal /\ RowIsAssigned(c.worklists[k], Row(i))
  <2> DEFINE l == all[i]
             m == MovedAt(c, i)
  <2>1. i \in DOMAIN all /\ l.findingId \in targets
    BY DEF MovingPlaces
  <2>2. IsRow(l)
    BY <1>2, <2>1
  <2>3. m = Moved(c, l)
    BY Zenon DEF MovedAt
  <2> HIDE DEF m, l
  <2>4. /\ DOMAIN m = RowFields /\ m.studyId = c.target.studyId
        /\ m.findingId = l.findingId /\ m.rater = l.rater /\ m.round = l.round /\ m.role = l.role
        /\ m.flagged = l.flagged /\ m.legacy = l.legacy /\ m.label = l.label /\ m.reasoned = l.reasoned
    BY <2>2, <2>3, MovedRow
  <2>5. m.flagged \in BOOLEAN /\ m.legacy \in BOOLEAN
    BY <2>2, <2>4 DEF IsRow
  <2>6. VerdictOf(m) = VerdictOf(l)
    BY <2>4, Zenon DEF VerdictOf, IsAdjudication
  <2>7. c.worklists # <<>> => AssignedTo(m, c.worklists) # {}
    BY <1>1 DEF m
  <2>8. Row(i) = Rebound(m, c.worklists)
    BY Zenon DEF ReboundFrom, m
  <2> HIDE DEF Row, places
  <2>9. /\ VerdictOf(Row(i)) = VerdictOf(m) /\ Row(i).studyId = c.target.studyId
        /\ c.worklists # <<>> /\ StrictlyHolds(Row(i)) =>
              \E k \in DOMAIN c.worklists :
                Row(i).worklist = c.worklists[k].seal /\ RowIsAssigned(c.worklists[k], Row(i))
    <3> DEFINE n == Rebound(m, c.worklists)
    <3>1. TargetsHold(c) /\ DOMAIN m = RowFields /\ m.studyId = c.target.studyId
      BY <1>1, <2>4
    <3>2. /\ VerdictOf(n) = VerdictOf(m) /\ n.studyId = c.target.studyId
          /\ c.worklists # <<>> /\ StrictlyHolds(n) =>
                \E k \in DOMAIN c.worklists :
                  n.worklist = c.worklists[k].seal /\ RowIsAssigned(c.worklists[k], n)
      BY <3>1, <2>5, <2>7, ReboundKeeps, Zenon
    <3>3. n = Row(i)
      BY <2>8
    <3> HIDE DEF n
    <3> QED BY <3>2, <3>3
  <2>10. c.strict => c.worklists # <<>> /\ StrictlyHolds(Row(i))
    BY <1>1
  <2> QED BY <2>1, <2>6, <2>9, <2>10 DEF l
<1>5. \A i \in DOMAIN all : all[i].findingId \in targets => i \in places
  BY Zenon DEF MovingPlaces
<1> HIDE DEF Row, places, targets, all, rows, origins, answered
<1>6. {VerdictOf(l) : l \in rows} = {VerdictOf(l) : l \in {x \in origins : x.findingId \in targets}}
  <2>1. ASSUME NEW l \in rows PROVE \E x \in origins : x.findingId \in targets /\ VerdictOf(l) = VerdictOf(x)
    <3>1. PICK i \in places : l = Row(i)
      BY <1>3
    <3>2. all[i] \in origins /\ all[i].findingId \in targets /\ VerdictOf(l) = VerdictOf(all[i])
      BY <1>2, <1>4, <3>1
    <3> QED BY <3>2
  <2>2. ASSUME NEW x \in origins, x.findingId \in targets PROVE \E l \in rows : VerdictOf(l) = VerdictOf(x)
    <3>1. PICK i \in DOMAIN all : x = all[i]
      BY <1>2
    <3>2. i \in places
      BY <1>5, <2>2, <3>1
    <3> QED BY <1>3, <1>4, <3>1, <3>2
  <2> QED BY <2>1, <2>2
<1>7. \A l \in rows : l.studyId = c.target.studyId
  BY <1>3, <1>4
<1>8. c.strict => \A l \in rows : \E i \in DOMAIN c.worklists :
        l.worklist = c.worklists[i].seal /\ RowIsAssigned(c.worklists[i], l)
  BY <1>3, <1>4
<1>9. {Row(i).findingId : i \in places} = {l.findingId : l \in rows}
  BY <1>3
<1>10. answered.missing = {} <=> targets \subseteq {l.findingId : l \in rows}
  BY <1>1, <1>9
<1> QED BY <1>6, <1>7, <1>8, <1>10 DEF targets, rows, origins, answered

-----------------------------------------------------------------------------
(* Samples, worklists and labels that move                                 *)

(* Every repository has its minimum of the sample, and balancing takes away *)
(* no repository's last finding and nothing that is not counted.           *)
LEMMA SamplesBalance == SamplesDecided => SampleIsBalanced
<1> SUFFICES ASSUME SamplesDecided, Is("sample") PROVE SampleIsBalanced
  BY DEF SampleIsBalanced
<1>1. answer = Sample(input) /\ IsSampled(input)
  BY SampleAssumption DEF SamplesDecided, IsSampled
<1>2. /\ Drawn(input) \subseteq MaySample(input)
      /\ \A f \in MaySample(input) :
           \/ Cardinality(FromRepository(Drawn(input), RepositoryOf(f))) >= input.perRepository
           \/ FromRepository(MaySample(input), RepositoryOf(f)) \subseteq Drawn(input)
  BY <1>1, DrawnHasMinimum
<1> DEFINE drawn == Sample([input EXCEPT !.share = <<>>])
           counted == Balance(drawn, input.rules)
           repositories == {RepositoryOf(f) : f \in counted}
           enough == input.share # <<>> /\ Cardinality(repositories) * input.share[1][1] >= input.share[1][2]
<1>3. drawn = Drawn(input)
  BY <1>1, SampleSettles
<1> HIDE DEF drawn
<1>4. /\ answer \subseteq drawn
      /\ drawn \ counted \subseteq answer
      /\ ~enough => answer = drawn
      /\ enough =>
           \A r \in repositories :
             LET kept == FromRepository(Balance(answer, input.rules), r)
             IN /\ kept # {}
                /\ Cardinality(kept) * input.share[1][2]
                     <= Cardinality(Balance(answer, input.rules)) * input.share[1][1]
  BY <1>1, <1>3, SampleSettles
<1> HIDE DEF counted, repositories, enough
<1> QED BY <1>2, <1>3, <1>4
        DEF SampleIsBalanced, drawn, counted, repositories, enough, FromRepository, MaySample

(* The verifier takes a worklist that was made, but for the four kinds that *)
(* it refuses.                                                             *)
LEMMA WorklistsVerify == WorklistsDecided => MadeWorklistsVerify
<1> SUFFICES ASSUME WorklistsDecided, Is("worklist"), answer.made PROVE MadeWorklistsVerify
  BY DEF MadeWorklistsVerify
<1> DEFINE o == input.options
           b == input.bundle
<1>1. /\ input \in WorklistCases /\ WorklistIsMade(o, b)
      /\ answer.verifies <=> WorklistVerifies(CreateWorklist(o, b, "seal"), b.labels, Context(b))
  <2> DEFINE made == WorklistIsMade(o, b)
             taken == WorklistVerifies(CreateWorklist(o, b, "seal"), b.labels, Context(b))
  <2>1. input \in WorklistCases /\ answer = [made |-> made, verifies |-> made /\ taken]
    BY Zenon DEF WorklistsDecided
  <2> HIDE DEF made, taken
  <2>2. answer.made = made /\ answer.verifies = (made /\ taken)
    BY <2>1, Zenon
  <2>3. made /\ (answer.verifies <=> taken)
    BY <2>2, Zenon
  <2> QED BY <2>1, <2>3, Zenon DEF made, taken
<1>2. OptionsAreTyped(o) /\ ExclusionsAreTyped(o) /\ IsFiniteSet(b.findings) /\ AreRows(b.labels)
  BY <1>1, WorklistAssumption DEF OptionsAreTyped, ExclusionsAreTyped
<1>3. answer.verifies <=> IsTaken(o, b)
  BY <1>1, <1>2, MadeIsTaken
<1> DEFINE names == IF o.mode = "adjudication" THEN {o.adjudicator} ELSE Range(o.raters)
           excluding == IF o.protocol = <<>> THEN {} ELSE o.protocol[1].exclusions
           settled == {i \in DOMAIN b.labels : \E f \in WorklistSelection(o, b) : f.findingId = b.labels[i].findingId}
<1>4. names = WorklistNames(o) /\ settled = SettledRows(o, b)
  BY DEF WorklistNames, SettledRows
<1>5. (\A r \in excluding : r.reason = "given") <=> ReasonsGiven(o)
  BY DEF ReasonsGiven
<1> HIDE DEF names, excluding, settled, o, b
<1>6. answer.verifies
         <=> /\ o.mode = "blind" => b.labels = <<>> /\ ~o.allowExisting
             /\ names \cap SuggestiveNames = {}
             /\ \A r \in excluding : r.reason = "given"
             /\ o.mode = "adjudication" => \A i \in settled : ~b.labels[i].legacy
  BY <1>3, <1>4, <1>5 DEF IsTaken
<1> QED BY <1>6 DEF MadeWorklistsVerify, names, excluding, settled, o, b

(* Labels that move say what they said, of the same findings.              *)
LEMMA LabelsKeepVerdicts == TransfersDecided => TransferKeepsVerdicts
<1> SUFFICES ASSUME TransfersDecided, Is("label transfer"), answer.written PROVE TransferKeepsVerdicts
  BY DEF TransferKeepsVerdicts
<1>1. input \in TransferCases /\ answer = TransferLabels(input)
  BY DEF TransfersDecided
<1>2. AreRows(input.source.labels) /\ AreRows(input.extra)
  BY <1>1, TransferAssumption
<1> DEFINE origins == Range(input.source.labels) \cup Range(input.extra)
           rows == Range(answer.rows)
<1>3. /\ {VerdictOf(l) : l \in rows} = {VerdictOf(l) : l \in {x \in origins : x.findingId \in MovingTargets(input)}}
      /\ \A l \in rows : l.studyId = input.target.studyId
      /\ input.strict => \A l \in rows : \E i \in DOMAIN input.worklists :
           l.worklist = input.worklists[i].seal /\ RowIsAssigned(input.worklists[i], l)
      /\ answer.missing = {} <=> MovingTargets(input) \subseteq {l.findingId : l \in rows}
  BY <1>1, <1>2, VerdictsMove
<1> HIDE DEF origins, rows
<1> QED BY <1>3 DEF TransferKeepsVerdicts, VerdictOf, MovingTargets, origins, rows

(* A sample gives every repository its minimum and, where there are enough  *)
(* repositories, none of them more than its share (deterministicSample,    *)
(* enforceRepositoryContribution).                                         *)
THEOREM SamplesAreAlwaysBalanced == Spec => []SampleIsBalanced
<1>1. Decided => SampleIsBalanced
  BY SamplesBalance DEF Decided
<1> QED BY <1>1, AlwaysDecided, PTL

(* A worklist that precision-label-worklist makes is one that the verifier  *)
(* of precision-worklist-lib takes, but for four kinds that are made and    *)
(* refused.                                                                *)
THEOREM WorklistsAlwaysVerify == Spec => []MadeWorklistsVerify
<1>1. Decided => MadeWorklistsVerify
  BY WorklistsVerify DEF Decided
<1> QED BY <1>1, AlwaysDecided, PTL

(* precision-label-transfer neither loses nor makes nor changes a verdict.  *)
THEOREM LabelsAlwaysKeepVerdicts == Spec => []TransferKeepsVerdicts
<1>1. Decided => TransferKeepsVerdicts
  BY LabelsKeepVerdicts DEF Decided
<1> QED BY <1>1, AlwaysDecided, PTL

(* The records of a check and of a claim of precision stand: what was made  *)
(* verifies, what was tampered with does not, and what passes was earned.   *)
THEOREM RecordsAlwaysStand == Spec => []RecordsStand
<1>1. Decided => RecordsStand
  BY RecordsVerify, CutsSeen, RecordsHold, SamplesBalance, WorklistsVerify, BindingHoldsWhatItSays,
     EarnedClaim, ReadinessAgrees, LabelsKeepVerdicts DEF Decided, RecordsStand
<1> QED BY <1>1, AlwaysDecided, PTL
================================================================================
