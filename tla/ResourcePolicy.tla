----------------------------- MODULE ResourcePolicy -----------------------------
(***************************************************************************)
(* The resources a cell uses: found in its source, by the adapters of      *)
(* plugins, or in the evidence of a recorded run (index.ts,                *)
(* resource-evidence.ts), and the packages it imports from outside         *)
(* (external-dependencies.ts).                                             *)
(*                                                                         *)
(* An access is [kind, mode, selector, unresolved].  A world is            *)
(*   contracts   of the cell: [kind, modes, matches: selectors matched]    *)
(*   recorded    the accesses the baseline has for the cell, as keys       *)
(*   verified    whether the seal of the baseline was verified             *)
(*   head        the commit of the repository, or NoCommit                 *)
(***************************************************************************)
EXTENDS Cases, Sequences, FiniteSets

CONSTANTS
  AccessCases,      \* [world, access]
  EvidenceCases,    \* [world, files: the evidence files]
  PluginCases,      \* [world, plugins]
  DependencyCases   \* [claims, allows, locked, baseline, uses]

NoCommit == "no commit"
ThisCell == "cell"
OtherCell == "other cell"
KnownCells == {ThisCell, OtherCell}
Report(rule, severity, selector) == [rule |-> rule, severity |-> severity, selector |-> selector]
Invalid(rule) == Report(rule, "error", "-")

(* resourceBaselineKey *)
AccessKey(a) == <<a.kind, a.mode, a.selector>>

(* resourceAccessDeclaredByManifest *)
InContract(w, a) ==
  \E c \in w.contracts : c.kind = a.kind /\ a.mode \in c.modes /\ a.selector \in c.matches

(* resourceAccessDeclaredByManifest or resourceAccessDeclaredByBaseline     *)
DeclaredAccess(w, recorded, a) == InContract(w, a) \/ AccessKey(a) \in recorded

(* What counts for an access that is told of a cell of the manifest: the    *)
(* other cell has no contract and no record.                                *)
OfCell(w, cell) == IF cell = ThisCell THEN w ELSE [w EXCEPT !.contracts = {}, !.recorded = {}]

(* checkRepository: the accesses of a baseline count only under a verified  *)
(* seal, save for plugins, which are given the baseline as it is.           *)
Sealed(w) == IF w.verified THEN w.recorded ELSE {}

(* validateResourceAccesses and validatePluginResourceAccesses on one access*)
JudgeAccess(w, recorded, a) ==
  LET declared == DeclaredAccess(w, recorded, a) IN
  [kept |-> IF a.unresolved /\ ~declared THEN {} ELSE {a},
   findings |-> IF declared THEN {}
                ELSE IF a.unresolved
                     THEN {Report("UNRESOLVED", IF a.kind = "file" THEN "warning" ELSE "error", a.selector)}
                     ELSE {Report("UNDECLARED", "error", a.selector)}]

-----------------------------------------------------------------------------
(* An evidence file is [inside, valid, commit, status, entries], an entry   *)
(* [cell, access]; "none" stands for a commit or status that is absent.     *)
Transcript(f) == IF f.status = "none" THEN "incomplete" ELSE f.status

EvidenceEntry(w, e) ==
  LET own == OfCell(w, e.cell) IN
  IF e.cell \notin KnownCells THEN [kept |-> {}, findings |-> {Invalid("EVIDENCE_INVALID")}]
  ELSE [kept |-> {e.access},
        findings |-> IF DeclaredAccess(own, Sealed(own), e.access) THEN {}
                     ELSE {Report("UNDECLARED", "error", e.access.selector)}]

(* Evidence is bound to the commit that is checked. *)
BoundToHead(w, f) == w.head # NoCommit /\ f.commit # "none" /\ f.commit = w.head

(* resourceEvidenceAccesses, one file *)
EvidenceFile(w, f) ==
  IF ~f.inside \/ ~f.valid \/ ~BoundToHead(w, f)
  THEN [kept |-> {}, findings |-> {Invalid("EVIDENCE_INVALID")}]
  ELSE [kept |-> UNION {EvidenceEntry(w, e).kept : e \in f.entries},
        findings |-> (UNION {EvidenceEntry(w, e).findings : e \in f.entries}) \cup
                     {Invalid("TRANSCRIPT") : s \in {Transcript(f)} \ {"active"}}]

-----------------------------------------------------------------------------
(* A plugin is [api, throws, emits, rules]: whether its adapter throws, the *)
(* accesses [cell, access] it emits, and its rules [throws, reports], the   *)
(* findings reported before one throws included.                            *)
Supported(p) == p.api = 1

JudgeEmitted(w, e) == JudgeAccess(OfCell(w, e.cell), OfCell(w, e.cell).recorded, e.access)

(* runPluginAdapters, followed by validatePluginResourceAccesses            *)
PluginAccesses(w, p) ==
  IF ~Supported(p) \/ p.throws THEN [kept |-> {}, findings |-> {Invalid("PLUGIN_INVALID")}]
  ELSE [kept |-> UNION {JudgeEmitted(w, e).kept : e \in {x \in p.emits : x.cell \in KnownCells}},
        findings |-> UNION {IF e.cell \in KnownCells THEN JudgeEmitted(w, e).findings
                            ELSE {Invalid("PLUGIN_INVALID")} : e \in p.emits}]

(* Mutant: what a rule has reported before it throws is kept. *)
PluginRulesPartial(p) ==
  IF ~Supported(p) THEN {Invalid("PLUGIN_INVALID")}
  ELSE UNION {r.reports : r \in p.rules}

(* runPluginRules: a rule that throws reports nothing but its failure.      *)
PluginRules(p) ==
  IF ~Supported(p) THEN {Invalid("PLUGIN_INVALID")}
  ELSE UNION {IF r.throws THEN {Invalid("PLUGIN_INVALID")} ELSE r.reports : r \in p.rules}

-----------------------------------------------------------------------------
(* Dependencies: claims and allows give the packages per cell, uses the     *)
(* pairs of a cell and a package, locked the cells, and baseline, per cell, *)
(* the packages accepted, AnyPackage for a record older than that field,    *)
(* NotListed for a cell it lacks; has tells whether there is a baseline.    *)
AnyPackage == {"any"}
NotListed == {"not listed"}

Claimers(d, package) == {c \in DOMAIN d.claims : package \in d.claims[c]}

BaselineHas(d, cell, package) ==
  /\ d.has /\ d.baseline[cell] # NotListed
  /\ d.baseline[cell] = AnyPackage \/ package \in d.baseline[cell]

(* validateExternalDependencyPolicy, one observation *)
JudgeDependency(d, cell, package) ==
  IF Claimers(d, package) # {} /\ cell \notin Claimers(d, package) THEN "claim violation"
  ELSE IF BaselineHas(d, cell, package) THEN "quiet"
  ELSE IF cell \in d.locked /\ d.has THEN "locked expansion"
  ELSE IF package \in d.claims[cell] \cup d.allows[cell] \/ ~d.has THEN "quiet"
  ELSE "added"

(* The record that a new baseline keeps: externalDependencySetForCell       *)
Accepted(d) ==
  [d EXCEPT !.has = TRUE,
            !.baseline = [c \in DOMAIN d.claims |-> {u[2] : u \in {x \in d.uses : x[1] = c}}]]

(* The cases have the parts named above, uses are of cells of the manifest, *)
(* and no package is called what stands for a cell without a record.        *)
ASSUME PolicyAssumption ==
  /\ \A c \in AccessCases : DOMAIN c.world = {"contracts", "recorded", "verified", "head"}
  /\ \A c \in DependencyCases :
       /\ DOMAIN c = {"claims", "allows", "locked", "baseline", "has", "uses"}
       /\ \A u \in c.uses : u[1] \in DOMAIN c.claims /\ {u[2]} # NotListed

-----------------------------------------------------------------------------
ValidateAccess ==
  Asked("access") /\ \E c \in AccessCases : Take(c, JudgeAccess(c.world, Sealed(c.world), c.access))

ReadEvidence ==
  Asked("evidence") /\ \E c \in EvidenceCases : Take(c, [f \in c.files |-> EvidenceFile(c.world, f)])

RunPlugins ==
  Asked("plugin") /\ \E c \in PluginCases :
  Take(c, [kept |-> PluginAccesses(c.world, c.plugin).kept,
           findings |-> PluginAccesses(c.world, c.plugin).findings \cup PluginRules(c.plugin)])

ValidateDependencies ==
  Asked("dependency") /\ \E c \in DependencyCases :
  Take(c, [u \in c.uses |-> JudgeDependency(c, u[1], u[2])])

-----------------------------------------------------------------------------
(* It makes no difference how an access becomes known: the source scan, an  *)
(* adapter and, for an access that is resolved, evidence report the same    *)
(* findings and keep the same access, as long as a baseline is sealed; and  *)
(* what they keep is enough: the baseline made of it, without any contract, *)
(* turns no access that was accepted into an error.                         *)
SameAccessSameVerdict ==
  LET w == input.world
      a == input.access
      plugin == [api |-> 1, throws |-> FALSE, emits |-> {[cell |-> ThisCell, access |-> a]}, rules |-> {}]
      errors == {f \in answer.findings : f.severity = "error"}
      next == [w EXCEPT !.contracts = {}, !.recorded = {AccessKey(x) : x \in answer.kept}, !.verified = TRUE]
  IN Is("access") =>
       /\ w.verified \/ w.recorded = {} => PluginAccesses(w, plugin) = answer
       /\ ~a.unresolved => EvidenceEntry(w, [cell |-> ThisCell, access |-> a]) = answer
       /\ errors = {} => \A f \in JudgeAccess(next, Sealed(next), a).findings : f.severity = "warning"
       /\ AccessKey(a) \notin w.recorded /\ errors # {} /\ a.unresolved => answer.kept = {}

(* Evidence of another commit says nothing about this one: no access of it  *)
(* is taken over, and no evidence is passed over in silence.                *)
EvidenceIsBound ==
  Is("evidence") =>
    \A f \in input.files :
      /\ answer[f].kept # {} => f.commit = input.world.head /\ f.commit # "none"
      /\ f.commit # input.world.head => answer[f].findings # {}
      /\ answer[f].findings = {} => \A e \in f.entries : e.access \in answer[f].kept

(* A plugin that fails, wholly or in one rule, fails the check, and nothing *)
(* that only the failing part has reported is passed on as a finding.       *)
PluginFailureIsSeen ==
  LET p == input.plugin
      failed == p.throws \/ p.api # 1 \/ \E r \in p.rules : r.throws
      sound == (UNION {r.reports : r \in {x \in p.rules : ~x.throws}})
               \cup PluginAccesses(input.world, p).findings \cup {Invalid("PLUGIN_INVALID")}
  IN Is("plugin") =>
       /\ failed => \E f \in answer.findings : f = Invalid("PLUGIN_INVALID")
       /\ \A r \in p.rules : r.throws => answer.findings \cap (r.reports \ sound) = {}

(* A package that some cells claim is used without a finding by these cells *)
(* only, whatever the baseline has accepted; and a baseline that accepts    *)
(* all present uses leaves no finding but those of claims.                  *)
ClaimedPackagesStayPut ==
  Is("dependency") =>
    \A u \in input.uses :
      /\ answer[u] = "quiet" /\ Claimers(input, u[2]) # {} => u[1] \in Claimers(input, u[2])
      /\ JudgeDependency(Accepted(input), u[1], u[2]) \in {"quiet", "claim violation"}
      /\ answer[u] = "quiet" => JudgeDependency(Accepted(input), u[1], u[2]) = "quiet"
=============================================================================
