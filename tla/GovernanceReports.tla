------------------------------ MODULE GovernanceReports ------------------------------
(***************************************************************************)
(* The reports beside the check: what the gate sees between two baselines  *)
(* (baseline-change-detector.ts, cli baseline-gate-*.ts), what the         *)
(* coverage command counts (coverage-*.ts), which controls of a workflow   *)
(* file changed (workflow-controls.ts), which declarations are dead        *)
(* (createPruneReport of index.ts), and whose approval the gate asks for   *)
(* (CODEOWNERS in the gate Action's index.ts).                             *)
(***************************************************************************)
EXTENDS Cases, Integers, Sequences, SequencesExt, FiniteSets

CONSTANTS
  GateCases, GateTrees,
  CoverageCases, CoverageFindings,
  WorkflowCases,
  PruneCases,
  OwnerCases

NotThere == "missing"

-----------------------------------------------------------------------------
(* The gate.  A baseline has ids, <<>> or <<the accepted cells>>, a seal,   *)
(* and a record per cell.  The lists of a record are optional: <<>>, or     *)
(* <<a set>>; its hash and entry may be NotThere; the rest are counts.       *)
OptionalLists == {"symbols", "edges", "resources", "artifacts", "packages"}
ListOrNone(optional) == IF optional = <<>> THEN {} ELSE Head(optional)

EmptyBaseline == [ids |-> <<{}>>, seal |-> NotThere, cells |-> <<>>]

AcceptedIds(b) == IF b.ids = <<>> THEN DOMAIN b.cells ELSE Head(b.ids)
Recorded(b, cell) == cell \in AcceptedIds(b) \cap DOMAIN b.cells

(* diffPublicSymbols, diffCrossCellEdges, diffResourceAccesses,             *)
(* diffArtifactContracts, diffExternalDependencies, of one cell             *)
ListRecorded(b, cell, field) == IF Recorded(b, cell) THEN ListOrNone(b.cells[cell][field]) ELSE {}
ListsDiffer(base, head, cell) == {f \in OptionalLists : ListRecorded(base, cell, f) # ListRecorded(head, cell, f)}

(* diffOwnedPaths, diffPublicSurfaceMetadata, diffDependencyCounts: of one  *)
(* cell.  Paths that are not listed are skipped, which is a change as well. *)
SkippedPaths(b, cell) == Recorded(b, cell) /\ b.cells[cell].paths = <<>>
PathsDiffer(base, head, cell) ==
  \/ SkippedPaths(base, cell) \/ SkippedPaths(head, cell)
  \/ ListRecorded(base, cell, "paths") # ListRecorded(head, cell, "paths")
  \/ Recorded(base, cell) /\ Recorded(head, cell) /\ base.cells[cell].patterns # head.cells[cell].patterns
SurfaceMetadata(b, cell) ==
  IF Recorded(b, cell) THEN LET r == b.cells[cell] IN <<r.hash, r.entry, r.symbolCount, r.lines>> ELSE <<>>
EdgeCount(b, cell) == IF Recorded(b, cell) THEN <<b.cells[cell].edgeCount>> ELSE <<>>

(* detectBaselineChanges: <<dimension, cell>> for every difference. *)
BaselineChanges(base, head) ==
  LET cells == AcceptedIds(base) \cup AcceptedIds(head) IN
  {<<"cellIds", c>> : c \in (AcceptedIds(base) \cup AcceptedIds(head)) \ (AcceptedIds(base) \cap AcceptedIds(head))}
  \cup (IF base.seal # head.seal THEN {<<"signatures", "">>} ELSE {})
  \cup (UNION {{<<f, c>> : f \in ListsDiffer(base, head, c)} : c \in cells})
  \cup {<<"ownedPaths", c>> : c \in {x \in cells : PathsDiffer(base, head, x)}}
  \cup {<<"publicSurfaceMetadata", c>> : c \in {x \in cells : SurfaceMetadata(base, x) # SurfaceMetadata(head, x)}}
  \cup {<<"dependencyCounts", c>> : c \in {x \in cells : EdgeCount(base, x) # EdgeCount(head, x)}}

(* Where a baseline is read from: a ref, which comes first, and a file.     *)
(* Each is NotThere when it is not named, or has a state and what is there.  *)
(* readBaselineAtRef and readBaselineAt: <<>> when that fails, or when      *)
(* validateBaselineValue refuses what was read.                             *)
ReadBaseline(source) ==
  LET r == IF source.ref # NotThere THEN source.ref ELSE source.file
      state == IF r = "same" THEN "there" ELSE r
  IN CASE state = "gone" -> <<EmptyBaseline>>
       [] state = "there" -> <<source.value>>
       [] OTHER -> <<>>    \* an ill-formed or unknown ref, a path outside the repository, no JSON, not valid

(* commandBaselineGate, runBaselineGateFull, runBaselineGateCommand *)
BaselineGate(c) ==
  LET named(s) == s.ref # NotThere \/ s.file # NotThere
      base == ReadBaseline(c.base)
      head == ReadBaseline(c.head)
  IN CASE ~named(c.base) \/ ~named(c.head) -> [exit |-> 2, changes |-> {}]
       [] named(c.base) /\ named(c.head) /\ (base = <<>> \/ head = <<>>) -> [exit |-> 3, changes |-> {}]
       [] OTHER -> LET changes == BaselineChanges(Head(base), Head(head))
                   IN [exit |-> IF changes = {} THEN 0 ELSE 1, changes |-> changes]

GateBaselines ==
  /\ Asked("gate")
  /\ \E c \in GateCases : Take(c, BaselineGate(c))

(* compareBaseline and validateExternalDependencyPolicy, of a tree with the *)
(* one cell t.cell, which declares none of its packages: no finding.        *)
RatchetAllows(field, r, t) == r[field] = <<>> \/ t[field] \subseteq Head(r[field])
Ratcheted(b, t) ==
  /\ Recorded(b, t.cell)
  /\ LET r == b.cells[t.cell] IN
     /\ r.entry \in {NotThere, t.entry} /\ r.hash \in {NotThere, t.hash}
     /\ \A f \in OptionalLists \cup {"paths"} : RatchetAllows(f, r, t)
     /\ Cardinality(t.paths) <= r.patterns /\ Cardinality(t.symbols) <= r.symbolCount /\ Cardinality(t.edges) <= r.edgeCount
     /\ r.hash = NotThere => t.lines <= r.lines

(* A list that was there, and empty, is gone: the detector reads both as an *)
(* empty list, while the ratchet holds the cell to the first only.          *)
ListDropped(base, head) ==
  \E c \in DOMAIN base.cells \cap DOMAIN head.cells, f \in OptionalLists : base.cells[c][f] = <<{}>> /\ head.cells[c][f] = <<>>

(* When the gate sees no change, every tree that the new baseline lets pass *)
(* did pass the old one, whichever of its fields were written by an older   *)
(* version, other than lists that were dropped; it fails when it could not  *)
(* read both; and it is silent on baselines that are the same.              *)
GateSeesWidening ==
  Is("gate") =>
    LET base == ReadBaseline(input.base)
        head == ReadBaseline(input.head)
    IN /\ answer.exit = 0 => base # <<>> /\ head # <<>>
       /\ answer.exit = 0 /\ ~ListDropped(Head(base), Head(head)) =>
            \A t \in GateTrees : Ratcheted(Head(head), t) => Ratcheted(Head(base), t)
       /\ answer.exit = 1 => base # head \/ \E c \in DOMAIN Head(base).cells : SkippedPaths(Head(base), c)

-----------------------------------------------------------------------------
(* Coverage.  A case has the source files, the findings of the check        *)
(* [rule, file] with file NotThere for a finding of the repository, whether  *)
(* an input was named, and the thresholds of the option and the environment *)
(* in ten-thousandths: <<>> when absent or no number.                       *)
ImportUnresolved ==
  {"UNSUPPORTED_DYNAMIC_IMPORT", "UNSUPPORTED_DYNAMIC_REQUIRE", "UNSUPPORTED_TYPESCRIPT_SYNTAX", "UNSUPPORTED_PYTHON_SYNTAX",
   "UNRESOLVED_IMPORT", "UNRESOLVED_REQUIRE"}
ResourceUnresolved ==
  {"UNRESOLVED_RESOURCE_ACCESS", "RESOURCE_EVIDENCE_INVALID", "RESOURCE_EVIDENCE_TRANSCRIPT_INACTIVE",
   "RESOURCE_EVIDENCE_TRANSCRIPT_INCOMPLETE"}
SurfaceUnresolved == {"PUBLIC_ENTRY_MISSING"}
ConfigurationUnresolved == {"MANIFEST_INVALID", "BASELINE_SEAL_INVALID"}

(* bucketForRule *)
BucketForRule(rule) ==
  CASE rule \in ImportUnresolved -> <<"import">>
    [] rule \in ResourceUnresolved -> <<"resource">>
    [] rule \in SurfaceUnresolved -> <<"public-surface">>
    [] rule \in ConfigurationUnresolved -> <<"resource">>
    [] OTHER -> <<>>

(* walkCoverage; without a manifest that can be read there are no sources. *)
WalkCoverage(c) ==
  LET counted(f) == BucketForRule(f.rule) # <<>> /\ (f.rule \in ConfigurationUnresolved => c.explicit)
      kept == SelectSeq(c.found, LAMBDA f : counted(f))
      unresolved == [i \in DOMAIN kept |-> [kind |-> Head(BucketForRule(kept[i].rule)), file |-> kept[i].file,
                                            configuration |-> kept[i].rule \in ConfigurationUnresolved]]
      external == {i \in DOMAIN unresolved : unresolved[i].file \notin c.sources}
  IN [unresolved |-> unresolved,
      analyzed |-> Cardinality({p \in c.sources : ~\E i \in DOMAIN unresolved : unresolved[i].file = p}),
      total |-> Cardinality(c.sources) + Cardinality(external)]

(* buildCoverageReport, rounded to four digits *)
CoverageOf(walked) == IF walked.total = 0 THEN 0 ELSE (2 * 10000 * walked.analyzed + walked.total) \div (2 * walked.total)
OfKind(walked, kind) == Cardinality({i \in DOMAIN walked.unresolved : walked.unresolved[i].kind = kind})
CoverageReport(walked) ==
  [total |-> walked.total, analyzed |-> walked.analyzed, coverage |-> CoverageOf(walked),
   imports |-> OfKind(walked, "import"), resources |-> OfKind(walked, "resource"), surface |-> OfKind(walked, "public-surface"),
   findings |-> walked.unresolved]

(* readFailUnder *)
FailUnder(c) == IF c.option # <<>> THEN c.option ELSE c.environment

(* coverageReportToSarif: the rules, and a row per observation *)
SarifLevel(kind) == IF kind = "public-surface" THEN "note" ELSE "warning"
CoverageSarif(report) ==
  [rules |-> {<<report.findings[i].kind, SarifLevel(report.findings[i].kind)>> : i \in DOMAIN report.findings},
   rows |-> [i \in DOMAIN report.findings |-> <<report.findings[i].kind, SarifLevel(report.findings[i].kind)>>]]

(* runCoverageCommand *)
CoverageCommand(c) ==
  LET report == CoverageReport(WalkCoverage(c))
      configured == \E i \in DOMAIN report.findings : report.findings[i].configuration
  IN [report |-> report, sarif |-> CoverageSarif(report),
      exit |-> IF configured THEN 1 ELSE IF FailUnder(c) # <<>> /\ report.coverage < Head(FailUnder(c)) THEN 2 ELSE 0]

MeasureCoverage ==
  /\ Asked("coverage")
  /\ \E c \in CoverageCases : Take(c, CoverageCommand(c))

(* The coverage is full only if nothing was left unresolved, inside or      *)
(* outside the sources; one more finding never raises it and never makes a  *)
(* run succeed that failed; and the counts by kind and the SARIF have every *)
(* observation once.                                                        *)
CoverageIsHonest ==
  Is("coverage") =>
    LET r == answer.report IN
    /\ r.analyzed = r.total => r.findings = <<>>
    /\ r.findings = <<>> /\ input.sources # {} => r.coverage = 10000
    /\ r.imports + r.resources + r.surface = Len(r.findings)
    /\ {answer.sarif.rows[i] : i \in DOMAIN answer.sarif.rows} = answer.sarif.rules /\ Len(answer.sarif.rows) = Len(r.findings)
    /\ \A f \in CoverageFindings :
         LET more == CoverageCommand([input EXCEPT !.found = Append(@, f)]) IN
         more.report.coverage <= r.coverage /\ (more.exit = 0 => answer.exit = 0)

-----------------------------------------------------------------------------
(* Workflows.  A text is a sequence of lines:                               *)
(*   [line |-> "top", key, events]    a key without indentation; events are *)
(*                                    those that follow "on:" on the line   *)
(*   [line |-> "pair", key, value]    indented by two blanks                *)
(*   [line |-> "uses", action, ref]   "- uses:"                             *)
(*   [line |-> "run", secrets, publishes, suppressed, plusE, id]            *)
(* of which suppressed is the command before "|| true", or NotThere.         *)
Controlled(kind, path, value) == [kind |-> kind, path |-> path, value |-> value]

(* collectWorkflowTriggers *)
TriggerControls(text) ==
  FoldLeft(LAMBDA acc, l :
             CASE l.line = "top" /\ l.key = "on" -> [on |-> TRUE, found |-> acc.found \cup l.events]
               [] l.line = "top" /\ l.key # "on" -> [acc EXCEPT !.on = FALSE]
               [] l.line = "pair" /\ acc.on -> [acc EXCEPT !.found = @ \cup {l.key}]
               [] OTHER -> acc,
           [on |-> FALSE, found |-> {}], text).found

(* collectPermissions: the section that has a line of its own *)
PermissionControls(text) ==
  FoldLeft(LAMBDA acc, l :
             CASE l.line = "top" -> [acc EXCEPT !.inside = (l.key = "permissions") /\ (l.events = {} \/ @)]
               [] l.line = "pair" /\ acc.inside /\ l.value # 0 -> [acc EXCEPT !.found = @ \cup {<<l.key, l.value>>}]
               [] OTHER -> acc,
           [inside |-> FALSE, found |-> {}], text).found

(* collectActionReferences: an action is counted without its ref. *)
ActionControls(text) ==
  LET uses == SelectSeq(text, LAMBDA l : l.line = "uses")
  IN {<<uses[i].action, Cardinality({k \in 1..(i - 1) : uses[k].action = uses[i].action}), uses[i].ref>> : i \in DOMAIN uses}

(* collectTextControls, normalizedSuppressedCommands *)
RunLines(text) == SelectSeq(text, LAMBDA l : l.line = "run")
PublishLines(text) == SelectSeq(RunLines(text), LAMBDA l : l.publishes)
SuppressedControls(text) ==
  LET hushed == SelectSeq(RunLines(text), LAMBDA l : l.suppressed # NotThere)
  IN {<<hushed[i].suppressed, Cardinality({k \in 1..(i - 1) : hushed[k].suppressed = hushed[i].suppressed})>> : i \in DOMAIN hushed}
TextControls(text) ==
  {Controlled("secret", <<s>>, <<>>) : s \in UNION {RunLines(text)[i].secrets : i \in DOMAIN RunLines(text)}}
  \cup (IF PublishLines(text) = <<>> THEN {} ELSE {Controlled("publish", PublishLines(text), <<>>)})
  \cup {Controlled("suppressed", p, <<>>) : p \in SuppressedControls(text)}
  \cup (IF \E i \in DOMAIN RunLines(text) : RunLines(text)[i].plusE THEN {Controlled("errexit", text, <<>>)} ELSE {})

(* snapshotWorkflowControls *)
SnapshotControls(text) ==
  {Controlled("trigger", <<e>>, <<>>) : e \in TriggerControls(text)}
  \cup {Controlled("permission", <<p[1]>>, <<p[2]>>) : p \in PermissionControls(text)}
  \cup {Controlled("action", <<a[1], a[2]>>, <<a[3]>>) : a \in ActionControls(text)}
  \cup TextControls(text)

(* diffWorkflowControls: a path has the last of its values, in their order. *)
Keys(items) == {[kind |-> x.kind, path |-> x.path] : x \in items}
ValuesAt(items, key) == {x.value : x \in {y \in items : y.kind = key.kind /\ y.path = key.path}}
ControlAt(items, key) ==
  LET values == ValuesAt(items, key)
  IN IF Cardinality(values) = 1 THEN values ELSE {v \in values : \A u \in values : u[1] <= v[1]}
DiffControls(before, after) ==
  LET old == SnapshotControls(before)
      new == SnapshotControls(after)
  IN {[key |-> k, before |-> ControlAt(old, k), after |-> ControlAt(new, k)] :
        k \in {x \in Keys(old) \cup Keys(new) : ControlAt(old, x) # ControlAt(new, x)}}

CompareWorkflows ==
  /\ Asked("workflow")
  /\ \E c \in WorkflowCases : Take(c, DiffControls(c.before, c.after))

(* The controls of a workflow as they stand in its sections. *)
Section(text, i) ==
  LET tops == {k \in 1..i : text[k].line = "top"}
  IN IF tops = {} THEN NotThere ELSE text[CHOOSE k \in tops : \A m \in tops : m <= k].key
Events(text) ==
  {text[i].key : i \in {k \in DOMAIN text : text[k].line = "pair" /\ Section(text, k) = "on"}}
  \cup UNION {text[i].events : i \in {k \in DOMAIN text : text[k].line = "top" /\ text[k].key = "on"}}
Grants(text) ==
  {<<text[i].key, text[i].value>> :
     i \in {k \in DOMAIN text : text[k].line = "pair" /\ text[k].value # 0 /\ Section(text, k) = "permissions"}}
RefsOf(text, action) ==
  LET uses == SelectSeq(text, LAMBDA l : l.line = "uses" /\ l.action = action) IN [i \in DOMAIN uses |-> uses[i].ref]
Actions(text) == {text[i].action : i \in {k \in DOMAIN text : text[k].line = "uses"}}
Hushed(text) == SelectSeq(RunLines(text), LAMBDA l : l.suppressed # NotThere)
TimesHushed(text, s) == Cardinality({i \in DOMAIN Hushed(text) : Hushed(text)[i].suppressed = s})
Once(text) ==    \* as YAML wants it: a section comes once, a key once in its section
  /\ \A i, k \in DOMAIN text : text[i].line = "top" /\ text[k].line = "top" /\ text[i].key = text[k].key => i = k
  /\ \A i, k \in DOMAIN text : text[i].line = "pair" /\ text[k].line = "pair" /\ text[i].key = text[k].key
                               /\ Section(text, i) = Section(text, k) => i = k

(* No control changes unseen: without a delta, both texts have the same     *)
(* events, the same grants at the top, the same refs of every action in the *)
(* same order, the same secrets and publishing lines, the same commands     *)
(* whose failure is hidden as often, and both or neither go on after        *)
(* errors.  And the deltas of the way back are those of the way there.      *)
ControlsAreSeen ==
  Is("workflow") =>
    LET a == input.before
        b == input.after
        hushedBy == {Hushed(a)[i].suppressed : i \in DOMAIN Hushed(a)} \cup {Hushed(b)[i].suppressed : i \in DOMAIN Hushed(b)}
    IN
    /\ answer = {} /\ Once(a) /\ Once(b) =>
         /\ Events(a) = Events(b) /\ Grants(a) = Grants(b) /\ Actions(a) = Actions(b)
         /\ \A x \in Actions(a) : RefsOf(a, x) = RefsOf(b, x)
         /\ \A s \in hushedBy : TimesHushed(a, s) = TimesHushed(b, s)
         /\ PublishLines(a) = PublishLines(b)
         /\ \A i \in DOMAIN RunLines(a) : \A s \in RunLines(a)[i].secrets : \E k \in DOMAIN RunLines(b) : s \in RunLines(b)[k].secrets
         /\ (\E i \in DOMAIN RunLines(a) : RunLines(a)[i].plusE) = (\E i \in DOMAIN RunLines(b) : RunLines(b)[i].plusE)
    /\ DiffControls(b, a) = {[key |-> d.key, before |-> d.after, after |-> d.before] : d \in answer}

-----------------------------------------------------------------------------
(* Prune.  A case has the cells; consumes, [cell, from, lanes]; produces,   *)
(* [cell, lane]; symbols, <<cell, symbol>>; refs, the imports that were     *)
(* seen, [from, to, entry, form, names] with entry when they lead to the    *)
(* public entry of to; waivers and findings, of a rule at a line; accesses, *)
(* <<cell, resource>>; and the baseline, <<>> or <<those it accepts>>.      *)
Candidate(kind, what) == [kind |-> kind, what |-> what]

(* importClausePublicSymbols, exportDeclarationPublicSymbols *)
SymbolsUsedBy(r, offered) ==
  CASE r.form = "import" -> r.names \cap offered              \* names of the producer, whatever they are called here
    [] r.form \in {"import *", "export * as"} -> offered
    [] r.form = "export *" -> offered \ {"default"}
    [] r.form = "export" -> r.names \cap offered
    [] OTHER -> {}                                            \* for its effect only, require, import(), Python

(* collectUsedPublicSymbols *)
UsedSymbols(c, cell) ==
  LET offered == {s[2] : s \in {x \in c.symbols : x[1] = cell}}
  IN UNION {SymbolsUsedBy(r, offered) : r \in {x \in c.refs : x.to = cell /\ x.entry /\ x.from # x.to}}

(* createPruneReport *)
PruneReport(c) ==
  {Candidate("unused-consumer", u) :
     u \in {x \in c.consumes : x.lanes = {} /\ ~\E r \in c.refs : r.from = x.cell /\ r.to = x.from}}
  \cup {Candidate("unconsumed-artifact-lane", l) :
          l \in {x \in c.produces : ~\E u \in c.consumes : u.from = x.cell /\ x.lane \in u.lanes}}
  \cup {Candidate("unused-public-symbol", s) : s \in {x \in c.symbols : x[2] \notin UsedSymbols(c, x[1])}}
  \cup {Candidate("stale-waiver", w) : w \in {x \in c.waivers : x.valid /\ ~\E f \in c.findings : f.rule = x.rule /\ f.line = x.line}}
  \cup {Candidate("stale-baseline-resource", a) : a \in (IF c.baseline = <<>> THEN {} ELSE Head(c.baseline)) \ c.accesses}

Prune ==
  /\ Asked("prune")
  /\ \E c \in PruneCases : Take(c, PruneReport(c))

PrunedAs(kind) == {x.what : x \in {y \in answer : y.kind = kind}}
Pruned(c) ==
  [c EXCEPT !.consumes = @ \ PrunedAs("unused-consumer"), !.produces = @ \ PrunedAs("unconsumed-artifact-lane"),
            !.symbols = @ \ PrunedAs("unused-public-symbol"), !.waivers = @ \ PrunedAs("stale-waiver"),
            !.baseline = IF @ = <<>> THEN <<>> ELSE <<Head(@) \ PrunedAs("stale-baseline-resource")>>]
(* What a check would object to in the declarations of c: an import that no *)
(* consumer declares, a lane that is consumed and not produced, a named     *)
(* symbol that is not public, a waived finding, a resource beyond the       *)
(* baseline.                                                                *)
Objections(c) ==
  {<<"import", r.from, r.to>> : r \in {x \in c.refs : x.from # x.to /\ ~\E u \in c.consumes : u.cell = x.from /\ u.from = x.to}}
  \cup (UNION {{<<"lane", u.from, l>> : l \in {x \in u.lanes : ~\E p \in c.produces : p.cell = u.from /\ p.lane = x}} : u \in c.consumes})
  \cup (UNION {{<<"symbol", r.to, s>> : s \in {x \in r.names : <<r.to, x>> \notin c.symbols}} :
                r \in {x \in c.refs : x.form \in {"import", "export"} /\ x.entry /\ x.from # x.to}})
  \cup {<<"finding", f.rule, f.line>> : f \in {x \in c.findings : ~\E w \in c.waivers : w.valid /\ w.rule = x.rule /\ w.line = x.line}}
  \cup {<<"access", a[1], a[2]>> : a \in IF c.baseline = <<>> THEN {} ELSE c.accesses \ Head(c.baseline)}

(* What is reported as dead can go: without it the check has no new         *)
(* objection, and a second look finds nothing more, of references by        *)
(* import and export declarations.                                          *)
PruneIsSafe ==
  Is("prune") =>
    /\ Objections(Pruned(input)) \subseteq Objections(input)
    /\ PruneReport(Pruned(input)) = {}

-----------------------------------------------------------------------------
(* Code owners.  A pattern and a path are sequences of characters, of which *)
(* only "/", "*", "?", "!" and "." matter.  An owner is                       *)
(* [kind, login], a user, a team or a mail address; "@" and capitals make no *)
(* difference.  A case has the owners that the workflow names, the baseline *)
(* file, and per revision what the three places of CODEOWNERS hold:         *)
(* "missing", "error", "directory" or "file", with its lines.               *)
CharAt(s, i) == IF i \in DOMAIN s THEN s[i] ELSE ""
Slashed(s) == [i \in DOMAIN s |-> IF s[i] = "\\" THEN "/" ELSE s[i]]

(* codeownersGlobToRegExpBody: what stands for anything, for directories,   *)
(* for a name, for one character, or for itself                             *)
GlobBody(pattern) ==
  LET body[i \in 1..(Len(pattern) + 1)] ==
        CASE i > Len(pattern) -> <<>>
          [] CharAt(pattern, i) = "*" /\ CharAt(pattern, i + 1) = "*" /\ CharAt(pattern, i + 2) = "/" -> <<"directories">> \o body[i + 3]
          [] CharAt(pattern, i) = "*" /\ CharAt(pattern, i + 1) = "*" /\ CharAt(pattern, i + 2) # "/" -> <<"anything">> \o body[i + 2]
          [] CharAt(pattern, i) = "*" /\ CharAt(pattern, i + 1) # "*" -> <<"name">> \o body[i + 1]
          [] CharAt(pattern, i) = "?" -> <<"one">> \o body[i + 1]
          [] OTHER -> <<pattern[i]>> \o body[i + 1]
  IN body[1]

(* The regular expression of that body, from its i-th part, on path from j. *)
BodyFits(body, path) ==
  LET fits[i \in 1..(Len(body) + 1), j \in 1..(Len(path) + 1)] ==
        IF i > Len(body) THEN j > Len(path)
        ELSE CASE body[i] = "directories" -> fits[i + 1, j] \/ \E k \in j..Len(path) : path[k] = "/" /\ fits[i + 1, k + 1]
               [] body[i] = "anything" -> fits[i + 1, j] \/ (j <= Len(path) /\ fits[i, j + 1])
               [] body[i] = "name" -> fits[i + 1, j] \/ (j <= Len(path) /\ path[j] # "/" /\ fits[i, j + 1])
               [] body[i] = "one" -> j <= Len(path) /\ path[j] # "/" /\ fits[i + 1, j + 1]
               [] OTHER -> j <= Len(path) /\ path[j] = body[i] /\ fits[i + 1, j + 1]
  IN fits[1, 1]

(* codeownersPatternMatches *)
PatternWithoutSlash(pattern) ==
  LET rest == {i \in DOMAIN pattern : pattern[i] # "/"}
  IN IF rest = {} THEN <<>> ELSE SubSeq(pattern, CHOOSE i \in rest : \A k \in rest : i <= k, Len(pattern))
CodeownersPatternMatches(pattern, path) ==
  LET bare == Slashed(PatternWithoutSlash(pattern))
      whole == IF CharAt(bare, Len(bare)) = "/" THEN bare \o <<"*", "*">> ELSE bare
      anywhere == pattern[1] # "/" /\ ~Contains(whole, "/")
  IN pattern[1] # "!" /\ bare # <<>>
     /\ BodyFits((IF anywhere THEN <<"directories">> ELSE <<>>) \o GlobBody(whole), path)

TargetPath(file) == Slashed(IF CharAt(file, 1) = "." /\ CharAt(file, 2) = "/" THEN SubSeq(file, 3, Len(file)) ELSE file)

(* codeownersForPath: the last line that matches *)
CodeownersForPath(lines, file) ==
  LET matches == SelectSeq(lines, LAMBDA l : CodeownersPatternMatches(l.pattern, TargetPath(file)))
  IN IF matches = <<>> THEN {} ELSE Last(matches).owners

(* validateUsernameCodeowners, parseCodeowners, loadCodeownersFromRepo at   *)
(* the base, and the first steps of runAction                               *)
OwnersOf(owners) ==
  IF \E o \in owners : o.kind = "team" THEN [state |-> "teams are not resolved", owners |-> {}]
  ELSE [state |-> IF owners = {} THEN "no owners" ELSE "owners", owners |-> owners]
LoadCodeowners(places, file) ==
  LET read == SelectSeq(places, LAMBDA p : p.state = "file")
  IN IF read = <<>> THEN {} ELSE CodeownersForPath(Head(read).lines, file)
GateOwners(c) == OwnersOf(IF c.named # {} THEN c.named ELSE LoadCodeowners(c.base, c.file))

(* userMatchesAllowlist *)
MayApprove(login, owners) == \E o \in owners : o.kind = "user" /\ o.login = login

ResolveOwners ==
  /\ Asked("owners")
  /\ \E c \in OwnerCases : Take(c, GateOwners(c))

(* CODEOWNERS as GitHub reads it: by names between slashes.  A pattern with *)
(* a slash before its end starts at the root, one that ends in a slash is a *)
(* directory with all that is in it.                                        *)
NamesIn(s) ==
  SelectSeq(FoldLeft(LAMBDA acc, ch : IF ch = "/" THEN Append(acc, <<>>) ELSE [acc EXCEPT ![Len(acc)] = Append(@, ch)], <<<<>>>>, s),
            LAMBDA name : name # <<>>)
NameFits(glob, name) ==
  LET agree(a, b) == Len(a) = Len(b) /\ \A i \in DOMAIN a : a[i] \in {"?", b[i]}
  IN IF ~Contains(glob, "*") THEN agree(glob, name)
     ELSE \E i \in DOMAIN glob :
            /\ glob[i] = "*" /\ Len(name) >= Len(glob) - 1
            /\ agree(SubSeq(glob, 1, i - 1), SubSeq(name, 1, i - 1))
            /\ agree(SubSeq(glob, i + 1, Len(glob)), SubSeq(name, Len(name) - Len(glob) + i + 1, Len(name)))
Deep == <<"*", "*">>
NamesFit(globs, names) ==
  LET same(a, b) == Len(a) = Len(b) /\ \A i \in DOMAIN a : NameFits(a[i], b[i])
  IN IF ~Contains(globs, Deep) THEN same(globs, names)
     ELSE \E i \in DOMAIN globs :
            LET after == Len(globs) - i IN
            /\ globs[i] = Deep /\ Len(names) >= Len(globs) - (IF after = 0 THEN 0 ELSE 1)
            /\ same(SubSeq(globs, 1, i - 1), SubSeq(names, 1, i - 1))
            /\ same(SubSeq(globs, i + 1, Len(globs)), SubSeq(names, Len(names) - after + 1, Len(names)))
Rooted(pattern) == Contains(SubSeq(pattern, 1, Len(pattern) - 1), "/")
OfDirectory(pattern) == Last(pattern) = "/"
FitsPart(pattern, names, i, j) == NamesFit(NamesIn(pattern), SubSeq(names, i, j))
GitHubOwns(pattern, names) ==
  /\ pattern[1] # "!" /\ NamesIn(pattern) # <<>>
  /\ \E i \in (IF Rooted(pattern) THEN {1} ELSE DOMAIN names), j \in DOMAIN names :
       FitsPart(pattern, names, i, j) /\ (OfDirectory(pattern) <=> j < Len(names))

(* A directory is written with its slashes, before and behind, and no "\"   *)
(* is used, which GitHub takes for an escape and the gate for a slash.      *)
PlainPattern(pattern, names) ==
  /\ ~Contains(pattern, "\\")
  /\ OfDirectory(pattern) => Rooted(pattern) \/ NamesIn(pattern) = <<>>
  /\ ~OfDirectory(pattern) => ~\E i, j \in DOMAIN names : i <= j /\ j < Len(names) /\ FitsPart(pattern, names, i, j) /\ ~Contains(Last(NamesIn(pattern)), "*")

(* The gate takes an approval only of a user whom the workflow names or, if *)
(* it names nobody, whom GitHub takes for an owner of the baseline by the   *)
(* CODEOWNERS of the base, where directories are written with their slashes *)
(* and no lookup failed; the pull request's own CODEOWNERS change nothing;  *)
(* and where a team owns the baseline the gate stops instead of passing it  *)
(* on to the others of the line.                                            *)
OwnersAreGitHubs ==
  Is("owners") =>
    LET names == NamesIn(TargetPath(input.file))
        there == SelectSeq(input.base, LAMBDA p : p.state # "missing")
        lines == IF there = <<>> THEN <<>> ELSE Head(there).lines
        mine == SelectSeq(lines, LAMBDA l : GitHubOwns(l.pattern, names))
        owners == IF input.named # {} THEN input.named ELSE IF mine = <<>> THEN {} ELSE Last(mine).owners
    IN (\A i \in DOMAIN lines : PlainPattern(lines[i].pattern, names)) /\ (there # <<>> => Head(there).state = "file") =>
         /\ \A o \in owners : o.kind = "user" => (MayApprove(o.login, answer.owners) <=> ~\E t \in owners : t.kind = "team")
         /\ answer.owners \subseteq owners
         /\ (answer.state = "owners") = (owners # {} /\ ~\E t \in owners : t.kind = "team")
=============================================================================
