------------------------------ MODULE CheckVerdict ------------------------------
(***************************************************************************)
(* From what the rules have found to the exit code of a check (index.ts:   *)
(* rule severities; waivers.ts; governance): severities are applied,       *)
(* findings that a signed attestation waives are dropped, the evidence is  *)
(* assessed over what was found before both, and the gate decides.  At the *)
(* end of the module, the check of a change against its base.              *)
(*                                                                         *)
(* A check is a record of                                                  *)
(*   found        the findings and warnings of the rules, in order:        *)
(*                [rule, severity, cell, file, what, line], where what     *)
(*                stands for the details but the line, and line is 0 for a *)
(*                finding without one                                      *)
(*   repo, cells, overrides, cli     configured severities, rule by rule   *)
(*   extra        governance.requiredRules                                 *)
(*   manifest, baseline, evidence, sources, entries, present               *)
(*                the paths, the public entries, the files that are there  *)
(*   read         per family, the files that its analysis went through     *)
(*   text         the file that may hold waivers: [file, sha, lines, quiet]*)
(*                where a line is Code or a directive                      *)
(*                [rule, id, spaced, requested, expires, reason]           *)
(*   attested     the entries of the attestation files, in order           *)
(*   env          what the environment says: [approvers, key, keyId, head, *)
(*                repository]                                              *)
(***************************************************************************)
EXTENDS Cases, Integers, Sequences, FiniteSets, Functions

CONSTANTS
  CheckCases,
  CoreRequiredRules,
  ConcreteRules,     \* rule ids that name one rule
  SafeIdentities     \* approver names in plain letters

Absent == "none"
MAX_WAIVER_DAYS == 90

RequiredRules(w) == CoreRequiredRules \cup w.extra

Severities == {"off", "warning", "error"}
Finding(f) == f = [rule |-> f.rule, severity |-> f.severity, cell |-> f.cell, file |-> f.file, what |-> f.what, line |-> f.line]
Settings(rules) == \A r \in DOMAIN rules : rules[r] \in Severities

(* What is found and configured is as described above, but for the fields   *)
(* of a finding.                                                            *)
Configured(c) ==
  /\ c.found \in Seq(Range(c.found)) /\ c.overrides \in Seq(Range(c.overrides))
  /\ \A f \in Range(c.found) : f.severity \in Severities \ {"off"} /\ f.cell \in DOMAIN c.cells
  /\ Settings(c.repo) /\ Settings(c.cli)
  /\ \A cell \in DOMAIN c.cells : Settings(c.cells[cell])
  /\ \A o \in Range(c.overrides) : Settings(o.rules)

(* No waiver hides that a waiver is invalid; and the parts of a case are as *)
(* described above.                                                         *)
ASSUME VerdictAssumption ==
  /\ "WAIVER_INVALID" \in CoreRequiredRules
  /\ \A c \in CheckCases :
       /\ Configured(c) /\ \A f \in Range(c.found) : Finding(f)
       /\ c.attested \in Seq(Range(c.attested)) /\ c.text.lines \in Seq(Range(c.text.lines))

-----------------------------------------------------------------------------
(* Severities. *)
First(positions) == CHOOSE i \in positions : \A j \in positions : i <= j

(* configuredRuleSeverity: what is given on the command line, then in the   *)
(* last override of the file, for the cell, and for the repository.         *)
ConfiguredSeverity(w, f) ==
  LET given == {i \in DOMAIN w.overrides : f.file \in w.overrides[i].files /\ f.rule \in DOMAIN w.overrides[i].rules}
      last == CHOOSE i \in given : \A j \in given : j <= i
  IN IF f.rule \in DOMAIN w.cli THEN w.cli[f.rule]
     ELSE IF given # {} THEN w.overrides[last].rules[f.rule]
     ELSE IF f.rule \in DOMAIN w.cells[f.cell] THEN w.cells[f.cell][f.rule]
     ELSE IF f.rule \in DOMAIN w.repo THEN w.repo[f.rule] ELSE Absent

Weakened(source, cell, file, rule) ==
  [rule |-> "REQUIRED_RULE_DISABLED", severity |-> "error", cell |-> cell, file |-> file, what |-> <<source, rule>>, line |-> 0]

(* validateRequiredRuleConfiguration *)
ConfigurationFindings(w) ==
  LET weak(rules) == {r \in DOMAIN rules \cap RequiredRules(w) : rules[r] # "error"}
  IN {Weakened("repo", Absent, Absent, r) : r \in weak(w.repo)}
     \cup (UNION {{Weakened("cell", c, Absent, r) : r \in weak(w.cells[c])} : c \in DOMAIN w.cells})
     \cup (UNION {{Weakened("override", Absent, Absent, r) : r \in weak(w.overrides[i].rules)} : i \in DOMAIN w.overrides})
     \cup {Weakened("cli", Absent, Absent, r) : r \in weak(w.cli)}

(* What the rules and the configuration gave rise to. Its order matters to  *)
(* a waiver that looks for the first finding it aims at, which is never one *)
(* of the configuration.                                                    *)
RawFindings(w) == Range(w.found) \cup ConfigurationFindings(w)

(* One round of applyRuleSeverityPolicy. *)
Adjusted(w, f) ==
  LET configured == ConfiguredSeverity(w, f)
      required == f.rule \in RequiredRules(w)
      severity == IF required THEN "error" ELSE IF configured = Absent THEN f.severity ELSE configured
  IN IF configured # "off" THEN {[f EXCEPT !.severity = severity]}
     ELSE IF required THEN {Weakened("off", f.cell, f.file, f.rule), f} ELSE {}

(* applyRuleSeverityPolicy, warnings and findings still together *)
ApplySeverities(w, raw) == UNION {Adjusted(w, f) : f \in raw}

(* findingFingerprint: the details without the line *)
Fingerprint(f) == [f EXCEPT !.line = 0]

-----------------------------------------------------------------------------
(* Waivers. *)
Code == [rule |-> "code"]
Directive(l) == l # Code

(* loadWaiverAttestations: the first well-formed entry of an id counts, and *)
(* an id with an ill-formed or a second entry is spoilt.                    *)
EntriesOf(w, id) == {i \in DOMAIN w.attested : w.attested[i].id = id}
Attestation(w, id) == w.attested[First({i \in EntriesOf(w, id) : w.attested[i].shaped})]
Loaded(w, id) == \E i \in EntriesOf(w, id) : w.attested[i].shaped
Spoilt(w, id) == \E i, j \in EntriesOf(w, id) : i # j \/ ~w.attested[i].shaped

(* The line of the first directive that spells rule and id as the search    *)
(* of validateWaiverAttestation expects them, 0 when there is none.         *)
DirectiveLine(w, d) ==
  LET spelt == {n \in DOMAIN w.text.lines :
                  LET l == w.text.lines[n] IN Directive(l) /\ ~l.spaced /\ l.rule = d.rule /\ l.id = d.id}
  IN IF spelt = {} THEN 0 ELSE First(spelt)

(* validateWaiverAttestation; expires is in days from now, and a signature  *)
(* is the key that made it, Absent when the entry was altered since.        *)
AttestationHolds(w, d) ==
  /\ Loaded(w, d.id)
  /\ ~Spoilt(w, d.id)
  /\ LET a == Attestation(w, d.id) IN
     /\ a.rule = d.rule /\ a.file = w.text.file /\ a.sha = w.text.sha
     /\ DirectiveLine(w, d) # 0 => a.line = DirectiveLine(w, d) + 1
     /\ a.head = w.env.head /\ a.repository = w.env.repository
     /\ a.expires \in 0..MAX_WAIVER_DAYS
     /\ a.approver \in w.env.approvers \cap SafeIdentities
     /\ w.env.key # Absent /\ a.signedBy = w.env.key
     /\ w.env.keyId # Absent => a.keyId = w.env.keyId

(* parseWaiverDirective: every error makes the waiver invalid, so that only *)
(* one with an attestation is ever valid.                                   *)
ValidWaiver(w, d) ==
  /\ d.rule \in ConcreteRules
  /\ d.id # Absent
  /\ d.requested = Absent
  /\ IF Loaded(w, d.id) THEN Attestation(w, d.id).reason ELSE d.reason
  /\ AttestationHolds(w, d)
  /\ d.rule \notin RequiredRules(w)

(* collectWaiversForManifest, for the one file that holds directives *)
WaiverLines(w) ==
  IF w.text.quiet \/ w.text.file \notin w.sources THEN {}
  ELSE {n \in DOMAIN w.text.lines : Directive(w.text.lines[n])}

(* waiverTargetsFindingLocation, waiverMatchesFinding: of valid waivers *)
Targets(w, d, f) ==
  f.file = w.text.file /\ f.rule = d.rule /\ f.line # 0 /\ f.line = Attestation(w, d.id).line
WaiverMatches(w, d, f) == Targets(w, d, f) /\ Fingerprint(f) = Attestation(w, d.id).print

WaiverInvalid(w, n) ==
  [rule |-> "WAIVER_INVALID", severity |-> "error", cell |-> Absent, file |-> w.text.file, what |-> <<"waiver", n>>, line |-> n]

(* The errors that a waiver aims at, by the positions of what was found.    *)
AimedAt(w, n) ==
  {i \in DOMAIN w.found :
     \E f \in Adjusted(w, w.found[i]) : f.severity # "warning" /\ Targets(w, w.text.lines[n], f)}
ValidLines(w) == {n \in WaiverLines(w) : ValidWaiver(w, w.text.lines[n])}
Astray(w, n) ==
  AimedAt(w, n) # {} /\ ~\E f \in Adjusted(w, w.found[First(AimedAt(w, n))]) : WaiverMatches(w, w.text.lines[n], f)

Waived(w, f) ==
  f.rule \notin RequiredRules(w) /\ \E n \in ValidLines(w) : WaiverMatches(w, w.text.lines[n], f)

(* applyWaiversToFindings *)
ApplyWaivers(w, adjusted) ==
  {f \in adjusted : ~Waived(w, f)}
  \cup {WaiverInvalid(w, n) : n \in (WaiverLines(w) \ ValidLines(w)) \cup {m \in ValidLines(w) : Astray(w, m)}}

-----------------------------------------------------------------------------
(* Evidence. *)
ConfigFile == "tsconfig"
SyntaxRules == {"UNSUPPORTED_TYPESCRIPT_SYNTAX", "UNSUPPORTED_PYTHON_SYNTAX"}
OpenImportRules ==
  {"UNSUPPORTED_DYNAMIC_IMPORT", "UNSUPPORTED_DYNAMIC_REQUIRE", "UNRESOLVED_IMPORT", "IMPORT_TARGET_OUTSIDE_ROOT",
   "UNRESOLVED_REQUIRE"}
OpenEvidenceRules == {"RESOURCE_EVIDENCE_INVALID", "TRANSCRIPT_INACTIVE", "TRANSCRIPT_INCOMPLETE"}

(* governanceSubjectFiles: a path keeps the first role it is given. *)
SubjectFiles(w) == ({w.manifest, w.baseline, ConfigFile} \cup w.evidence \cup w.sources) \cap w.present
RoleOf(w, p) ==
  IF p = w.manifest THEN "manifest" ELSE IF p = w.baseline THEN "baseline" ELSE IF p = ConfigFile THEN "config"
  ELSE IF p \in w.evidence THEN "runtime-evidence" ELSE "source"

(* observationStatusFor *)
DiagnosedStatus(p, family, diagnostics) ==
  LET rules == {d.rule : d \in {x \in diagnostics : x.file = p}} IN
  CASE family = "imports" /\ rules \cap SyntaxRules # {} -> "parse-error"
    [] family = "imports" /\ rules \cap OpenImportRules # {} -> "unsupported"
    [] family = "resources" /\ rules \cap OpenEvidenceRules # {} -> "unsupported"
    [] OTHER -> "processed"

(* sourceObservationStatusFor *)
SourceStatus(w, p, family, diagnostics) ==
  IF DiagnosedStatus(p, family, diagnostics) # "processed" \/ p \in w.read[family]
  THEN DiagnosedStatus(p, family, diagnostics)
  ELSE IF family = "public-surface" THEN "not-applicable" ELSE "unsupported"

Observed(p, family, status) == [file |-> p, family |-> family, status |-> status]

(* The statuses of governanceEvidenceEnvelopeForCheck. *)
Observations(w, diagnostics) ==
  UNION {LET role == RoleOf(w, p) IN
         CASE role = "manifest" -> {Observed(p, "manifest", "processed"), Observed(p, "ownership", "processed")}
           [] role = "baseline" -> {Observed(p, "baseline", "processed")}
           [] role = "runtime-evidence" -> {Observed(p, "resources", DiagnosedStatus(p, "resources", diagnostics))}
           [] role = "config" -> {Observed(p, "imports", "not-applicable")}
           [] role = "source" -> {Observed(p, f, SourceStatus(w, p, f, diagnostics)) : f \in {"imports", "public-surface", "resources"}} :
         p \in SubjectFiles(w)}

(* requiredGovernanceFamilies, requiredGovernanceObservations *)
RequiredFamilies(w) ==
  {"manifest", "ownership", "public-surface", "imports", "resources"} \cup (IF w.baseline = Absent THEN {} ELSE {"baseline"})
RequiredObservations(w) ==
  UNION {LET role == RoleOf(w, p) IN
         {<<p, f>> : f \in CASE role = "manifest" -> {"manifest", "ownership"}
                             [] role = "baseline" -> {"baseline"}
                             [] role = "runtime-evidence" -> {"resources"}
                             [] role = "config" -> {}
                             [] role = "source" -> {"imports", "resources"} \cup (IF p \in w.entries THEN {"public-surface"} ELSE {})} :
         p \in SubjectFiles(w)}

(* assessEvidence over a snapshot and a report of this very check, whose    *)
(* digests agree and which observe no file twice.                           *)
EvidenceDefects(w, observations) ==
  LET done == {o \in observations : o.status # "not-applicable"} IN
  {<<o.status, o.file>> : o \in {x \in observations : x.status \in {"parse-error", "unsupported"}}}
  \cup {<<"missing file", p>> : p \in {x \in SubjectFiles(w) : ~\E o \in observations : o.file = x}}
  \cup {<<"missing observation", r[1]>> : r \in {x \in RequiredObservations(w) : ~\E o \in done : o.file = x[1] /\ o.family = x[2]}}
  \cup {<<"missing family", f>> : f \in RequiredFamilies(w) \ {o.family : o \in done}}

(* evaluateGovernance: BLOCK on open evidence and on any error *)
GateDecision(defects, active) ==
  IF defects # {} \/ \E f \in active : f.severity = "error" THEN "BLOCK" ELSE "ALLOW"

(* legacyDecisionFromEvaluation, of a valid manifest *)
CheckExitCode(gate) == IF gate = "ALLOW" THEN 0 ELSE 1

(* checkRepository after its rules have run *)
ConcludeCheck ==
  Asked("check") /\ \E c \in CheckCases :
  LET raw == RawFindings(c)
      active == ApplyWaivers(c, ApplySeverities(c, raw))
      gate == GateDecision(EvidenceDefects(c, Observations(c, raw)), active)
  IN Take(c, [active |-> active, exit |-> CheckExitCode(gate)])

-----------------------------------------------------------------------------
(* The severity a finding is reported with. *)
Effective(f) ==
  IF f.rule \in RequiredRules(input) THEN "error"
  ELSE IF ConfiguredSeverity(input, f) = Absent THEN f.severity ELSE ConfiguredSeverity(input, f)

(* What the finding was issued a waiver for, now and for this very finding. *)
Attests(a, f) ==
  /\ a.print = Fingerprint([f EXCEPT !.severity = Effective(f)])
  /\ a.line = f.line /\ a.rule = f.rule /\ a.file = f.file
  /\ a.sha = input.text.sha /\ a.head = input.env.head /\ a.repository = input.env.repository
  /\ a.expires \in 0..MAX_WAIVER_DAYS
  /\ a.signedBy = input.env.key /\ a.approver \in input.env.approvers

(* A finding disappears from the report only when its rule is not required, *)
(* and either the configuration switches it off or an attestation that was  *)
(* signed for this commit, text, line and finding says so; and a finding of *)
(* a required rule makes the check fail whatever is configured or attested. *)
SuppressedIsAttested ==
  Is("check") =>
    \A f \in RawFindings(input) :
      LET gone == ~\E g \in answer.active : [g EXCEPT !.severity = f.severity] = f
      IN /\ gone => /\ f.rule \notin RequiredRules(input)
                    /\ \/ Effective(f) = "off"
                       \/ \E a \in Range(input.attested) : Attests(a, f)
         /\ f.rule \in RequiredRules(input) => answer.exit = 1

(* A directive above an error, where its attestation aims, takes an error of*)
(* that line away or is reported itself.                                    *)
AimedWaiversSettle ==
  Is("check") =>
    \A n \in WaiverLines(input) :
      LET d == input.text.lines[n]
          above == {f \in RawFindings(input) :
                      f.rule = d.rule /\ f.file = input.text.file /\ f.line = n + 1 /\ Effective(f) = "error"}
      IN above # {} /\ (Loaded(input, d.id) => Attestation(input, d.id).line = n + 1) =>
           \/ \E g \in answer.active : g.rule = "WAIVER_INVALID" /\ g.line = n
           \/ \E f \in above : [f EXCEPT !.severity = "error"] \notin answer.active

(* Exit code 0 means that every source file was read for imports and for    *)
(* resources, and every public entry for its surface, and that no import of *)
(* it remained open, waived and switched off findings included.             *)
GreenIsEvidenced ==
  Is("check") /\ answer.exit = 0 =>
    \A p \in input.sources \cap input.present :
      RoleOf(input, p) = "source" =>
        /\ p \in input.read["imports"] \cap input.read["resources"]
        /\ p \in input.entries => p \in input.read["public-surface"]
        /\ ~\E f \in Range(input.found) : f.file = p /\ f.rule \in SyntaxRules \cup OpenImportRules

-----------------------------------------------------------------------------
(* The check of a change against its base (checkChangedRepository;         *)
(* changed-cache.ts): both trees are checked, the base perhaps by a result *)
(* that an earlier check left in the cache, and what is new is reported.   *)
(*                                                                         *)
(* A case is                                                               *)
(*   trees     per tree name: [broken, findings, waived, warnings, open,   *)
(*             manifest]: exit code 2 or 3 of a check that cannot run, 0   *)
(*             otherwise; fingerprints of errors, those of them that a     *)
(*             waiver attested for the commit covers, and of warnings;     *)
(*             whether the evidence is incomplete; the owner of each path  *)
(*   base, head      commits; head is NoRef for the working tree           *)
(*   moves     the moves git sees from base, per tree: [from, to]          *)
(*   options   [cache, external, plugins, pluginKey]                       *)
(*   env       [approvers, minute, waiverKey] now                          *)
(*   earlier   <<>>, or the [base, options, env] of an earlier check       *)
(*   git       whether git answers                                         *)
CONSTANT ChangedCases

NoRef == "no ref"
WorkTree == "work tree"
NoKey == "no key"

(* checkRepository of a tree, as far as a changed check looks at its result:*)
(* waivers are verified with the environment of the moment.                 *)
ResultOf(w, tree, env) ==
  LET t == w.trees[tree]
      errors == IF "alice" \in env.approvers /\ env.waiverKey = "k" THEN t.findings \ t.waived ELSE t.findings
  IN [exit |-> IF t.broken # 0 THEN t.broken ELSE IF errors # {} \/ t.open THEN 1 ELSE 0,
      findings |-> IF t.broken = 0 THEN errors ELSE {"invalid"}, warnings |-> IF t.broken = 0 THEN t.warnings ELSE {}]

(* Mutant: any result that could be computed is kept. *)
ReusableAnyComputed(result) == result.exit \in {0, 1}

(* isReusableCleanResult, for reading and for writing *)
Reusable(result) == result.exit = 0 /\ result.findings = {}

(* changedBaseCacheIdentity and changedBaseTrustedInputIdentity: of what the*)
(* environment says about waivers, the approvers and the minute.            *)
HasCacheKey(options) ==
  options.cache /\ ~options.external /\ (options.plugins => options.pluginKey # NoKey)
CacheKey(base, options, env) ==
  [base |-> base, plugins |-> options.pluginKey, approvers |-> env.approvers, minute |-> env.minute]

(* readChangedBaseCache: what the earlier check has left, if this one looks *)
(* for it under the same key.                                               *)
CacheHit(w) ==
  /\ w.earlier # <<>> /\ HasCacheKey(w.options)
  /\ LET e == Head(w.earlier) IN
     /\ HasCacheKey(e.options) /\ Reusable(ResultOf(w, e.base, e.env))
     /\ CacheKey(e.base, e.options, e.env) = CacheKey(w.base, w.options, w.env)

(* checkChangedBase: with a policy path outside the tree the base is judged *)
(* by the same policy, which the trees of this model agree on.              *)
BaseResult(w) ==
  IF CacheHit(w) THEN ResultOf(w, Head(w.earlier).base, Head(w.earlier).env) ELSE ResultOf(w, w.base, w.env)

(* crossCellMovementFindings, by the owners in the current manifest *)
MoveFindings(w, tree) ==
  LET owner == w.trees[tree].manifest IN
  {<<"CROSS_CELL_MOVE", m.from, m.to>> :
     m \in {x \in w.moves[tree] : x.from \in DOMAIN owner /\ x.to \in DOMAIN owner /\ owner[x.from] # owner[x.to]}}

Unavailable == [exit |-> 2, findings |-> {"GIT_METADATA_UNAVAILABLE"}, warnings |-> {}, hit |-> FALSE]

(* checkChangedRepository; a head commit is checked out beside the work tree*)
(* and checked there.                                                       *)
ChangedResult(w) ==
  LET tree == IF w.head = NoRef THEN WorkTree ELSE w.head
      current == ResultOf(w, tree, w.env)
      base == BaseResult(w)
      findings == (current.findings \ base.findings) \cup MoveFindings(w, tree)
  IN IF ~w.git THEN Unavailable
     ELSE IF current.exit \in {2, 3}
     THEN [exit |-> current.exit, findings |-> current.findings, warnings |-> current.warnings, hit |-> FALSE]
     ELSE IF base.exit \in {2, 3}
     THEN [exit |-> base.exit, findings |-> base.findings, warnings |-> base.warnings, hit |-> CacheHit(w)]
     ELSE [exit |-> IF findings = {} THEN 0 ELSE 1, findings |-> findings, warnings |-> current.warnings \ base.warnings,
           hit |-> CacheHit(w)]

(* Commits are other names than that of the work tree. *)
ASSUME ChangeAssumption ==
  \A c \in ChangedCases :
    /\ c = [trees |-> c.trees, base |-> c.base, head |-> c.head, moves |-> c.moves, options |-> c.options, env |-> c.env,
            earlier |-> c.earlier, git |-> c.git]
    /\ c.base \in DOMAIN c.trees \ {WorkTree}
    /\ c.head \in (DOMAIN c.trees \ {WorkTree}) \cup {NoRef}
    /\ c.earlier # <<>> => Head(c.earlier).base \in DOMAIN c.trees \ {WorkTree}

CheckChange == Asked("changed") /\ \E c \in ChangedCases : Take(c, ChangedResult(c))

-----------------------------------------------------------------------------
(* The cache may make the check report more, never less: every error of the *)
(* change that a fresh check of the base does not find too is reported and  *)
(* fails the check, also after the key that verifies waivers has changed.   *)
CacheHidesNothing ==
  Is("changed") /\ input.git =>
    LET tree == IF input.head = NoRef THEN WorkTree ELSE input.head
        current == ResultOf(input, tree, input.env)
        fresh == ChangedResult([input EXCEPT !.earlier = <<>>])
    IN /\ current.exit \in {0, 1} /\ fresh.exit \in {0, 1} => fresh.findings \subseteq answer.findings
       /\ answer.exit = 0 => fresh.exit # 1
       /\ current.exit \in {2, 3} => answer.exit = current.exit

(* With a head commit, what lies about in the work tree decides nothing, and*)
(* a file that changes its cell fails the check even when nothing else does.*)
SnapshotDecides ==
  Is("changed") =>
    /\ input.head # NoRef => ChangedResult([input EXCEPT !.trees[WorkTree] = input.trees[input.base]]) = answer
    /\ answer.exit = 0 =>
         \A m \in input.moves[IF input.head = NoRef THEN WorkTree ELSE input.head] :
           LET owner == input.trees[IF input.head = NoRef THEN WorkTree ELSE input.head].manifest IN
           {m.from, m.to} \subseteq DOMAIN owner => owner[m.from] = owner[m.to]
=============================================================================
