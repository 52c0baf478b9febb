----------------------------- MODULE EvidenceRecords -----------------------------
(***************************************************************************)
(* What a check leaves behind for somebody who does not trust it: the      *)
(* evidence graph (governance/evidence-graph.ts) and the acceptance record *)
(* (governance/acceptance-record.ts), and the two scripts that verify them *)
(* without the engine.                                                     *)
(*                                                                         *)
(* A check is a case of CheckVerdict whose findings also have a producer   *)
(* (a cell or Absent) and details, the keys of their details whose values  *)
(* become subjects of a witness: texts, numbers, flags and lists of them.  *)
(* A digest is the value itself, an id the contents it was made from; the  *)
(* order of nodes, edges and witnesses is left out.                        *)
(***************************************************************************)
EXTENDS CheckVerdict, SequencesExt

CONSTANTS
  RecordCases,     \* checks whose graph and record are written
  VerifyCases      \* calls of the two scripts

-----------------------------------------------------------------------------
(* The findings that a graph is verified about, as their rules report them. *)
FindingOf(rule, cell, producer, file, details) ==
  [rule |-> rule, severity |-> "error", cell |-> cell, producer |-> producer, file |-> file, what |-> "x",
   line |-> IF "line" \in details THEN 1 ELSE 0, details |-> details]

(* addPrivateImportFinding, addUndeclaredConsumerFinding *)
PrivateImport(cell, producer, file) ==
  FindingOf("PRIVATE_IMPORT", cell, producer, file, {"specifier", "targetPath", "line"})
UndeclaredConsumer(cell, producer, file) ==
  FindingOf("UNDECLARED_CONSUMER", cell, producer, file, {"specifier", "line", "kind", "typeOnly"})

(* validateImports *)
UnresolvedImport(file) == FindingOf("UNRESOLVED_IMPORT", Absent, Absent, file, {"line", "specifier"})
UnownedTarget(cell, file) == FindingOf("UNOWNED_IMPORT_TARGET", cell, Absent, file, {"specifier", "targetPath", "line"})
UndeclaredArtifact(cell, producer, file) ==
  FindingOf("UNDECLARED_ARTIFACT", cell, producer, file, {"specifier", "artifactLaneId", "line"})

(* validateResourceAccesses *)
UndeclaredAccess(cell, file) ==
  FindingOf("UNDECLARED_RESOURCE_ACCESS", cell, Absent, file,
           {"kind", "access", "selector", "line", "source", "detectedBy", "confidence"})

(* validatePublicEntries, validateOwnership *)
SymbolMismatch(cell, file) ==
  FindingOf("PUBLIC_SYMBOL_MISMATCH", cell, Absent, file, {"missingSymbols", "undeclaredSymbols", "line"})
UnownedSource(file) == FindingOf("UNOWNED_SOURCE", Absent, Absent, file, {"path"})

(* compareBaseline: no file; accesses to resources are lists of objects.    *)
RatchetDetails ==
  LET growth == {"metric", "previous", "current"} IN
  [RATCHET_CELL_SET_GROWTH |-> {"baselineCellIds", "currentCellIds"}, RATCHET_PUBLIC_ENTRY_CHANGE |-> {"previous", "current"},
   RATCHET_OWNERSHIP_SCOPE_CHANGE |-> {"previous", "current", "uncovered"},
   RATCHET_PUBLIC_SYMBOL_SET_CHANGE |-> {"previous", "current", "addedSymbols"},
   RATCHET_DEPENDENCY_EDGE_CHANGE |-> {"previous", "current", "addedEdges"},
   RATCHET_ARTIFACT_CONTRACT_CHANGE |-> {"previous", "current", "addedArtifacts"}, RATCHET_RESOURCE_ACCESS_CHANGE |-> {},
   RATCHET_PUBLIC_SURFACE_SIGNATURE_CHANGE |-> {"previous", "current"},
   RATCHET_OWNED_PATH_GROWTH |-> growth, RATCHET_PUBLIC_SYMBOL_GROWTH |-> growth,
   RATCHET_PUBLIC_SURFACE_LINE_GROWTH |-> growth, RATCHET_CROSS_CELL_DEPENDENCY_GROWTH |-> growth]
RatchetFinding(rule, cell) == FindingOf(rule, cell, Absent, Absent, RatchetDetails[rule])

Has(value) == value # Absent

(* What a rule reports of check c, but for its severity and the rest of its *)
(* details: a finding about imports is of a source that was read, one about *)
(* an access also of evidence, a mismatch of an entry that may be no source,*)
(* and a ratchet has a baseline to compare with.                            *)
ReportedIn(c, f) ==
  LET g == [f EXCEPT !.severity = "error", !.what = "x"]
      sources == c.sources \cap c.present
  IN \/ f.file \in sources /\ g = UnresolvedImport(f.file)
     \/ f.file \in sources /\ Has(f.cell) /\ g = UnownedTarget(f.cell, f.file)
     \/ /\ f.file \in sources /\ Has(f.cell) /\ Has(f.producer)
        /\ g \in {PrivateImport(f.cell, f.producer, f.file), UndeclaredConsumer(f.cell, f.producer, f.file),
                  UndeclaredArtifact(f.cell, f.producer, f.file)}
     \/ /\ f.file \in sources \cup (c.evidence \cap c.present)
        /\ Has(f.cell) /\ g = UndeclaredAccess(f.cell, f.file)
     \/ /\ Has(f.file) /\ (f.file \in c.sources => f.file \in sources \cap c.entries)
        /\ Has(f.cell) /\ g = SymbolMismatch(f.cell, f.file)
     \/ Has(f.file) /\ g = UnownedSource(f.file)
     \/ /\ f.rule \in DOMAIN RatchetDetails /\ Has(c.baseline)
        /\ Has(f.cell) /\ g = RatchetFinding(f.rule, f.cell)

(* The checks whose evidence is written: what is found is what the rules    *)
(* report, no required rule is weakened and no waiver is invalid (what is   *)
(* reported of those has no details here), and a path has one role.         *)
ASSUME RecordsAssumption ==
  \A c \in RecordCases :
    /\ Configured(c) /\ \A f \in Range(c.found) : ReportedIn(c, f)
    /\ ConfigurationFindings(c) = {}
    /\ \A n \in WaiverLines(c) : n \in ValidLines(c) /\ ~Astray(c, n)
    /\ Absent \notin c.present /\ c.evidence \cap c.sources = {}
    /\ {c.manifest, c.baseline, ConfigFile} \cap (c.evidence \cup c.sources) = {}

-----------------------------------------------------------------------------
(* createEvidenceGraph *)

Detail(keys) == {<<"detail", k>> : k \in keys}
CellSubject == <<"cell", "cellId">>
ProducerSubject == <<"producer-cell", "producerCellId">>

(* findingWitness of a finding that brings none *)
Subjects(f) ==
  {<<"file", "filePath">> : x \in {f.file} \ {Absent}} \cup {CellSubject : x \in {f.cell} \ {Absent}}
  \cup {ProducerSubject : x \in {f.producer} \ {Absent}} \cup Detail(f.details)
WitnessOf(f) == [rule |-> f.rule, severity |-> f.severity, fingerprint |-> "of the finding", file |-> f.file, line |-> f.line,
                 subjects |-> Subjects(f)]

FileId(p) == <<"file", p>>
FileNode(p) == [id |-> FileId(p), kind |-> "subject-file", label |-> p, file |-> p]
ObservationNode(o) ==
  [id |-> <<"observation", o>>, kind |-> "observation", label |-> o.status, file |-> o.file, family |-> o.family, status |-> o.status]
FindingNode(f) ==
  [id |-> <<"finding", f>>, kind |-> "finding", label |-> f.rule, file |-> f.file, rule |-> f.rule, severity |-> f.severity]

(* A defect of the evidence is of a file or of a family. *)
DefectFile(d) == IF d[1] = "missing family" THEN Absent ELSE d[2]
DefectNode(d) == [id |-> <<"defect", d>>, kind |-> "evidence-defect", label |-> d[1], file |-> DefectFile(d)]

GraphEdge(from, to, kind, label) == [from |-> from, to |-> to, kind |-> kind, label |-> label]

(* The files of the snapshot, and those an entry refers to. *)
GraphFiles(w, observations, found, defects) ==
  SubjectFiles(w)
  \cup (({o.file : o \in observations} \cup {f.file : f \in found} \cup {DefectFile(d) : d \in defects}) \ {Absent})

EvidenceGraph(w, observations, found, defects) ==
  [snapshot |-> SubjectFiles(w),
   nodes |-> {FileNode(p) : p \in GraphFiles(w, observations, found, defects)} \cup {ObservationNode(o) : o \in observations}
             \cup {FindingNode(f) : f \in found} \cup {DefectNode(d) : d \in defects},
   edges |-> {GraphEdge(FileId(o.file), ObservationNode(o).id, "observed-as", o.family) : o \in observations}
             \cup (UNION {{GraphEdge(FileId(f.file), FindingNode(f).id, "reported-finding", f.rule),
                          GraphEdge(FindingNode(f).id, FileId(f.file), "witnesses", "filePath")} : f \in {x \in found : Has(x.file)}})
             \cup {GraphEdge(FileId(DefectFile(d)), DefectNode(d).id, "has-defect", d[1]) : d \in {x \in defects : Has(DefectFile(x))}},
   witnesses |-> {WitnessOf(f) : f \in found}]

-----------------------------------------------------------------------------
(* verifyEvidenceGraph *)

NodesOf(g, kind) == {n \in g.nodes : n.kind = kind}
GraphPaths(g) == {n.file : n \in NodesOf(g, "subject-file")}

(* validateEdgeShape *)
EndKinds(kind) ==
  CASE kind = "observed-as" -> <<"subject-file", "observation">>
    [] kind = "reported-finding" -> <<"subject-file", "finding">>
    [] kind = "has-defect" -> <<"subject-file", "evidence-defect">>
    [] kind = "witnesses" -> <<"finding", "subject-file">>
WellShaped(e, from, to) ==
  /\ <<from.kind, to.kind>> = EndKinds(e.kind)
  /\ e.kind = "observed-as" => e.label = to.family /\ from.file = to.file
  /\ e.kind = "reported-finding" => e.label = to.rule
  /\ e.kind = "has-defect" => e.label = to.label
  /\ e.kind = "witnesses" /\ Has(from.file) => from.file = to.file

EdgeDefects(g) ==
  UNION {LET from == {n \in g.nodes : n.id = e.from}
             to == {n \in g.nodes : n.id = e.to}
         IN {<<"UNKNOWN_EDGE_FROM", e.kind>> : x \in {from} \cap {{}}} \cup {<<"UNKNOWN_EDGE_TO", e.kind>> : x \in {to} \cap {{}}}
            \cup {<<"INVALID_EDGE_SHAPE", e.kind>> : x \in {y \in from \X to : ~WellShaped(e, y[1], y[2])}} : e \in g.edges}

(* validateWitnesses, validateWitnessSubject *)
WitnessDefects(g) ==
  {<<"WITNESS_FILE_NOT_IN_GRAPH", w.rule>> : w \in {x \in g.witnesses : Has(x.file) /\ x.file \notin GraphPaths(g)}}
  \cup {<<"WITNESS_WITHOUT_ANCHOR", w.rule>> : w \in {x \in g.witnesses : ~Has(x.file) /\ ~Has(x.fingerprint) /\ x.subjects = {}}}

(* witnessMatchesFindingNode *)
WitnessMatches(w, n) == w.rule = n.rule /\ w.severity = n.severity /\ (Has(n.file) => w.file = n.file)

(* validateNodeAnchors: a node of a file is reached from it, and a finding  *)
(* node and a witness answer each other.                                    *)
NodeDefects(g) ==
  LET path(n) == Has(n.file) /\ n.file \notin GraphPaths(g)
      reached(n, kind) == \E e \in g.edges : e.from = FileId(n.file) /\ e.to = n.id /\ e.kind = kind
      reaches(n) == \E e \in g.edges : e.from = n.id /\ e.to = FileId(n.file) /\ e.kind = "witnesses"
      unreached(kind, edge) == {n \in NodesOf(g, kind) : Has(n.file) /\ ~path(n) /\ ~reached(n, edge)}
      matched(n) == \E w \in g.witnesses : WitnessMatches(w, n)
  IN {<<"FILE_NOT_IN_GRAPH", n.kind>> : n \in {x \in g.nodes : path(x)}}
     \cup {<<"OBSERVATION_WITHOUT_OBSERVED_AS_EDGE", n.label>> : n \in unreached("observation", "observed-as")}
     \cup {<<"DEFECT_WITHOUT_HAS_DEFECT_EDGE", n.label>> : n \in unreached("evidence-defect", "has-defect")}
     \cup {<<"FINDING_WITHOUT_REPORTED_FINDING_EDGE", n.label>> : n \in unreached("finding", "reported-finding")}
     \cup {<<"FINDING_WITHOUT_WITNESSES_EDGE", n.label>> :
             n \in {x \in NodesOf(g, "finding") : Has(x.file) /\ ~path(x) /\ ~reaches(x)}}
     \cup {<<"FINDING_NODE_WITHOUT_WITNESS_RECORD", n.label>> : n \in {x \in NodesOf(g, "finding") : ~matched(x)}}
     \cup {<<"WITNESS_WITHOUT_FINDING_NODE", w.rule>> : w \in {x \in g.witnesses : ~\E n \in NodesOf(g, "finding") : WitnessMatches(x, n)}}

(* policyRuleProfiles *)
Profile(family, sameFile, allOf, anyOf) == [family |-> family, sameFile |-> sameFile, allOf |-> allOf, anyOf |-> anyOf]
RatchetProfile(keys) == Profile("baseline", FALSE, {CellSubject} \cup Detail(keys), {})
PolicyRuleProfiles ==
  LET growth == RatchetProfile({"metric", "previous", "current"})
      change == RatchetProfile({"previous", "current"})
  IN
  [PRIVATE_IMPORT |-> Profile("imports", TRUE, Detail({"targetPath"}), {}),
   UNDECLARED_CONSUMER |-> Profile("imports", TRUE, {CellSubject, ProducerSubject} \cup Detail({"specifier"}), {}),
   UNOWNED_IMPORT_TARGET |-> Profile("imports", TRUE, Detail({"targetPath"}), {}),
   UNRESOLVED_IMPORT |-> Profile("imports", TRUE, Detail({"specifier"}), {}),
   UNDECLARED_ARTIFACT |-> Profile("imports", TRUE, {CellSubject, ProducerSubject} \cup Detail({"specifier", "artifactLaneId"}), {}),
   UNDECLARED_RESOURCE_ACCESS |-> Profile("resources", TRUE, {CellSubject} \cup Detail({"kind", "access", "selector"}), {}),
   PUBLIC_SYMBOL_MISMATCH |-> Profile("public-surface", TRUE, {CellSubject}, Detail({"missingSymbols", "undeclaredSymbols"})),
   UNOWNED_SOURCE |-> Profile("ownership", FALSE, {}, {<<"detail", "path">>, <<"file", "filePath">>}),
   RATCHET_CELL_SET_GROWTH |-> RatchetProfile({"baselineCellIds", "currentCellIds"}),
   RATCHET_OWNERSHIP_SCOPE_CHANGE |-> RatchetProfile({"uncovered"}),
   RATCHET_PUBLIC_SYMBOL_SET_CHANGE |-> RatchetProfile({"addedSymbols"}),
   RATCHET_DEPENDENCY_EDGE_CHANGE |-> RatchetProfile({"addedEdges"}),
   RATCHET_ARTIFACT_CONTRACT_CHANGE |-> RatchetProfile({"addedArtifacts"}),
   RATCHET_PUBLIC_ENTRY_CHANGE |-> change, RATCHET_PUBLIC_SURFACE_SIGNATURE_CHANGE |-> change,
   RATCHET_OWNED_PATH_GROWTH |-> growth, RATCHET_PUBLIC_SYMBOL_GROWTH |-> growth,
   RATCHET_PUBLIC_SURFACE_LINE_GROWTH |-> growth, RATCHET_CROSS_CELL_DEPENDENCY_GROWTH |-> growth]

(* policyObservationIsPresent *)
ObservationPresent(g, w, profile) ==
  \E n \in NodesOf(g, "observation") :
    n.status = "processed" /\ n.family = profile.family /\ (profile.sameFile => Has(w.file) /\ n.file = w.file)

(* verifyPolicyWitnesses, verifyWitnessAgainstPolicyProfile *)
PolicyDefects(g) ==
  UNION {LET profile == PolicyRuleProfiles[w.rule] IN
         {<<"POLICY_WITNESS_MISSING_OBSERVATION", w.rule>> : x \in {y \in {w} : ~ObservationPresent(g, y, profile)}}
         \cup {<<"POLICY_WITNESS_MISSING_SUBJECT", w.rule>> : x \in profile.allOf \ w.subjects}
         \cup {<<"POLICY_WITNESS_MISSING_ALTERNATIVE_SUBJECT", w.rule>> :
                 x \in {y \in {profile.anyOf} \ {{}} : y \cap w.subjects = {}}} :
         w \in {x \in g.witnesses : x.rule \in DOMAIN PolicyRuleProfiles}}

GraphDefects(g) == EdgeDefects(g) \cup WitnessDefects(g) \cup NodeDefects(g)

-----------------------------------------------------------------------------
(* createAcceptanceRecord *)

Errors(active) == {f \in active : f.severity # "warning"}

(* ruleResultsForFindings, satisfiedRequiredRules *)
RuleResults(w, active, defects) ==
  LET violated == {f.rule : f \in Errors(active)} IN
  {[rule |-> r, status |-> "VIOLATED"] : r \in violated}
  \cup {[rule |-> r, status |-> "SATISFIED"] : r \in RequiredRules(w) \ violated}
  \cup {[rule |-> "EVIDENCE_COVERAGE", status |-> "UNKNOWN"] : x \in {defects} \ {{}}}

(* requiredRuleStatus *)
Assurance(results) ==
  LET statuses == {r.status : r \in results} IN
  IF "VIOLATED" \in statuses THEN "VIOLATED" ELSE IF "UNKNOWN" \in statuses THEN "UNKNOWN" ELSE "SATISFIED"

Complete(defects) == IF defects = {} THEN "COMPLETE" ELSE "INCOMPLETE"

(* The body of the record; a digest that is not there is empty.             *)
RecordBody(w, active, defects, graph) ==
  LET results == RuleResults(w, active, defects) IN
  [controls |-> [manifestPath |-> w.manifest, graphDigest |-> graph],
   evidence |-> [snapshot |-> SubjectFiles(w), status |-> Complete(defects), defects |-> defects],
   decision |-> [gate |-> GateDecision(defects, active), input |-> "VALID", evidence |-> Complete(defects),
                 assurance |-> Assurance(results), rules |-> results],
   findings |-> [errors |-> Cardinality(Errors(active)), warnings |-> Cardinality(active \ Errors(active))]]
SealedRecord(body) == [body |-> body, digest |-> <<body>>]

-----------------------------------------------------------------------------
(* verifyAcceptanceRecord *)

(* validateGraphDigest, when a graph is given *)
GraphDigestDefects(body, given) ==
  IF given = <<>> THEN {}
  ELSE IF body.controls.graphDigest = <<>> THEN {"MISSING_EVIDENCE_GRAPH_DIGEST"}
  ELSE {"EVIDENCE_GRAPH_DIGEST_MISMATCH" : x \in {y \in {given} : y # body.controls.graphDigest}}
       \cup {"EVIDENCE_GRAPH_SNAPSHOT_MISMATCH" : x \in {y \in {given} : y[1].snapshot # body.evidence.snapshot}}

(* Mutant: the counts and the evidence are looked at, and what the decision *)
(* says of itself is believed.                                              *)
AllowDefectsOfEvidence(body) ==
  IF body.decision.gate # "ALLOW" THEN {}
  ELSE {"ALLOW_WITH_INCOMPLETE_EVIDENCE" : x \in {body.evidence.status} \ {"COMPLETE"}}
       \cup {"ALLOW_WITH_EVIDENCE_DEFECTS" : x \in {body.evidence.defects} \ {{}}}
       \cup {"ALLOW_WITH_ERROR_FINDINGS" : x \in {body.findings.errors} \ {0}}

(* validateAllowDecision *)
AllowDefects(body) ==
  IF body.decision.gate # "ALLOW" THEN {}
  ELSE {"ALLOW_WITH_INCOMPLETE_EVIDENCE" : x \in {body.evidence.status} \ {"COMPLETE"}}
       \cup {"ALLOW_WITH_INCOMPLETE_DECISION_EVIDENCE" : x \in {body.decision.evidence} \ {"COMPLETE"}}
       \cup {"ALLOW_WITH_INVALID_INPUT" : x \in {body.decision.input} \ {"VALID"}}
       \cup {"ALLOW_WITH_UNSATISFIED_ASSURANCE" : x \in {body.decision.assurance} \ {"SATISFIED"}}
       \cup {"ALLOW_WITH_EVIDENCE_DEFECTS" : x \in {body.evidence.defects} \ {{}}}
       \cup {"ALLOW_WITH_ERROR_FINDINGS" : x \in {body.findings.errors} \ {0}}
       \cup {"ALLOW_WITH_BLOCKING_RULE_STATUS" : x \in {r \in body.decision.rules : r.status \in {"VIOLATED", "UNKNOWN"}}}

(* validateRecordDigest: of a record that has one *)
RecordDefects(record, given) ==
  {"RECORD_DIGEST_MISMATCH" : x \in {y \in {record.digest} \ {<<>>} : y # <<record.body>>}}
  \cup GraphDigestDefects(record.body, given) \cup AllowDefects(record.body)

-----------------------------------------------------------------------------
(* The artifacts of checkRepository with --evidence-graph and               *)
(* --acceptance-record: over what is still active, and the statuses that    *)
(* were derived from everything that was found.                             *)
WriteEvidence ==
  Asked("records") /\ \E c \in RecordCases :
  LET raw == RawFindings(c)
      active == ApplyWaivers(c, ApplySeverities(c, raw))
      observations == Observations(c, raw)
      defects == EvidenceDefects(c, observations)
      graph == EvidenceGraph(c, observations, active, defects)
  IN Take(c, [graph |-> graph, defects |-> defects, record |-> SealedRecord(RecordBody(c, active, defects, <<graph>>))])

-----------------------------------------------------------------------------
(* The scripts. A call is [tool, args, read], args the sequence of its      *)
(* arguments, each [option, value] with the value in line, in the next      *)
(* argument or Absent, and read what the file that is named last holds.     *)

Wanted(tool) == IF tool = "record" THEN {"record"} ELSE {"graph", "check-result"}

(* parseArgs: stops at the first help, and at the first mistake *)
ParsedCall(c) ==
  FoldLeft(LAMBDA acc, a : IF acc.stop # Absent THEN acc
                           ELSE IF a.option = "help" THEN [acc EXCEPT !.stop = "help"]
                           ELSE IF a.option \notin Wanted(c.tool) \cup {"out", "graph"} \/ a.value = Absent THEN [acc EXCEPT !.stop = "usage"]
                           ELSE [acc EXCEPT !.named = @ \cup {a.option}],
           [stop |-> Absent, named |-> {}], c.args)

(* loadGraph, readJson, main: what the file holds is "unreadable", "other"  *)
(* (JSON that is not what the option asks for), "defective" or "sound".     *)
VerifierExit(c) ==
  LET parsed == ParsedCall(c)
      inputs == parsed.named \cap Wanted(c.tool)
  IN CASE parsed.stop = "help" -> 0
       [] parsed.stop = "usage" \/ Cardinality(inputs) # 1 -> 2
       [] c.read = "unreadable" -> IF c.tool = "record" THEN 1 ELSE 2
       [] c.read = "other" -> IF "check-result" \in inputs THEN 2 ELSE 1
       [] c.read = "defective" -> 1
       [] c.read = "sound" -> 0

RunVerifier == Asked("verifier") /\ \E c \in VerifyCases : Take(c, VerifierExit(c))

-----------------------------------------------------------------------------
(* The graph of a check has no structural defect, and every finding of a    *)
(* check with complete evidence is backed by an observation and by all the  *)
(* facts its policy is about: what the engine writes is what the verifier,  *)
(* which shares no code with it, expects. (A symbol mismatch of an entry    *)
(* that is no source has no observation to be backed by.)                   *)
GraphsVerify ==
  Is("records") =>
    /\ GraphDefects(answer.graph) = {}
    /\ answer.defects = {} =>
         \A d \in PolicyDefects(answer.graph) :
           \E f \in Range(input.found) : f.rule = d[2] /\ f.rule = "PUBLIC_SYMBOL_MISMATCH" /\ f.file \notin input.sources

(* Nothing can be taken out of a graph unseen but what another node or      *)
(* witness repeats or nothing refers to: each edge, each witness, each node.*)
Without(g, part, x) == [g EXCEPT ![part] = @ \ {x}]
CutsAreSeen ==
  Is("records") =>
    LET g == answer.graph
        free(n) == \/ n.kind = "evidence-defect" /\ ~Has(n.file)
                   \/ /\ n.kind = "finding" /\ ~Has(n.file)
                      /\ \E m \in NodesOf(g, "finding") \ {n} : <<m.rule, m.severity, m.file>> = <<n.rule, n.severity, n.file>>
                   \/ n.kind = "subject-file" /\ ~\E m \in g.nodes \ {n} : m.file = n.file
    IN /\ \A e \in g.edges : GraphDefects(Without(g, "edges", e)) # {}
       /\ \A n \in g.nodes : ~free(n) => GraphDefects(Without(g, "nodes", n)) # {}
       /\ \A w \in g.witnesses :
            (\A v \in g.witnesses \ {w} : <<v.rule, v.severity>> = <<w.rule, w.severity>> => Has(w.file) /\ v.file # w.file) =>
              GraphDefects(Without(g, "witnesses", w)) # {}

(* A record and its graph verify, and no other graph does with that record. *)
(* A BLOCK cannot be passed off as an ALLOW by rewriting the decision and   *)
(* any one of the sections of the record, with the digest made anew.        *)
RecordsCannotBeTurned ==
  Is("records") =>
    LET body == answer.record.body
        allowed == [body EXCEPT !.decision.gate = "ALLOW"]
        clean == [gate |-> "ALLOW", input |-> "VALID", evidence |-> "COMPLETE", assurance |-> "SATISFIED", rules |-> {}]
    IN /\ RecordDefects(answer.record, <<answer.graph>>) = {}
       /\ \A w \in answer.graph.witnesses :
            RecordDefects(answer.record, <<Without(answer.graph, "witnesses", w)>>) # {}
       /\ body.decision.gate = "BLOCK" =>
            \A forged \in {allowed, [allowed EXCEPT !.decision = clean], [allowed EXCEPT !.findings.errors = 0],
                           [allowed EXCEPT !.evidence.status = "COMPLETE", !.evidence.defects = {}]} :
              RecordDefects(SealedRecord(forged), <<>>) # {}

(* A verifier is content only with one input that it has read to the end,   *)
(* unless it was asked for help.                                            *)
VerifierReadsFirst ==
  Is("verifier") /\ answer = 0 =>
    \/ \E a \in Range(input.args) : a.option = "help"
    \/ /\ input.read = "sound"
       /\ Cardinality({a.option : a \in Range(input.args)} \cap Wanted(input.tool)) = 1
=============================================================================
