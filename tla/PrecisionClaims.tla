---------------------------- MODULE PrecisionClaims ----------------------------
(***************************************************************************)
(* How the project earns a claim about the precision of its findings.  The *)
(* findings of a corpus are sampled into an evidence bundle                *)
(* (corpus-evidence-bundle.mjs); sealed worklists are made of it           *)
(* (precision-label-worklist.mjs), their digests are written into the      *)
(* protocol (precision-bind-worklists.mjs), two raters label every finding *)
(* blind, a third decides where they differ, labels move to a newer bundle *)
(* (precision-label-transfer.mjs), readiness is checked                    *)
(* (precision-labels-validate.mjs) and the claim is evaluated              *)
(* (corpus-precision-claim.mjs); precision-worklist-lib.mjs verifies a     *)
(* worklist, precision-policy-filters.mjs filters findings.                *)
(*                                                                         *)
(* Digests are opaque values, equal where what was digested is: artifactSet*)
(* is that of the sums of a bundle, preLabelSet that of what it has before  *)
(* labels come, preLabel the one it was registered with.  A directory is   *)
(* [files, sums, intact, seal]: a function from paths to contents, the     *)
(* paths that its sums name, whether the sums are those of the files, and  *)
(* the digest of the sums, <<>> or a one-tuple as every digest that may be *)
(* absent; the empty text is an absent one.  A finding is [findingId,      *)
(* subjectId, repository, ruleId, severity, precisionEligible, fingerprint,*)
(* replayed], replayed: it is of a reviewed replay of one commit that      *)
(* introduced the file.  A label row is [studyId, findingId, rater,        *)
(* raterType, legacy, role, round, flagged, assignmentId,                  *)
(* evidencePackageId, worklist, sawPeerLabels, sourceHasLabels, claimUse,  *)
(* label, reasoned]: legacy, the type is given as raterClass; flagged,     *)
(* adjudication or adjudicated is set; reasoned, it has a rationale.  A    *)
(* bundle is [sealed, artifactSet, preLabelSet, preLabel, studyId, history,*)
(* subjects, copies, sampled, findings, labels, evidence, commit, harness],*)
(* subjects and evidence functions from subject ids, copies from those that*)
(* have one; labels is a sequence.  Lists of rules, severities, types and   *)
(* assignments are sets.                                                   *)
(***************************************************************************)
EXTENDS Cases, Integers, FiniteSets, SequencesExt, TLC

CONSTANTS
  SampleCases,        \* [findings, cap, perRepository, share, rules, exclusions]
  WorklistCases,      \* [options, bundle]
  BindCases,          \* [protocol, digests]
  TransferCases,      \* [source, target, worklists, extra, defaultType, strict]
  PrecisionCases,     \* [protocol, bundle, worklists]
  SuggestiveNames,    \* names that suggest a label (labelLeakPattern)
  NonHumanNames       \* names and types that do not look human (nonHumanRaterTerms)

AllowedLabels ==
  {"true_positive", "false_positive", "needs_policy", "needs_review", "invalid_setup", "out_of_scope"}
BlockingLabels == {"true_positive", "false_positive", "needs_policy", "needs_review"}
RaterTypes == {"human", "organization", "agent"}
BlindRounds == {"blind_first", "blind_second"}

(* The first of several places that has the key. *)
Setting(places, key, default) ==
  LET having == {i \in DOMAIN places : key \in DOMAIN places[i]}
  IN IF having = {} THEN default ELSE places[Min(having)][key]

-----------------------------------------------------------------------------
(* precision-policy-filters.mjs.  An exclusion rule is [field, how, values, *)
(* reason]: the texts that it matches, by "equals" or by "pattern".         *)

ExclusionFields == {"findingId", "subjectId", "repository", "ruleId", "severity"}
RuleIsWhole(r) == r.field \in ExclusionFields /\ r.how \in {"equals", "pattern"} /\ r.reason # "null"
RulesAreWhole(rules) == \A r \in rules : RuleIsWhole(r)

(* normalizeExclusionRules: a rule without a reason gets the reason null. *)
NormalRules(rules) ==
  {[r EXCEPT !.reason = IF @ = "none" THEN "null" ELSE @] : r \in {x \in rules : RuleIsWhole(x)}}

IsExcluded(f, rules) == \E r \in rules : f[r.field] \in r.values
FilterDigest(filters) == <<filters>>
SeverityOf(f) == IF f.severity = "" THEN "error" ELSE f.severity

-----------------------------------------------------------------------------
(* Labels. *)

IsAdjudication(l) == l.role = "adjudicator" \/ l.round = "adjudication" \/ l.flagged

(* validateClaimLabelMetadata *)
MetadataHolds(l, sealed) ==
  /\ sealed => ~l.legacy
  /\ l.rater \notin SuggestiveNames
  /\ IF IsAdjudication(l)
       THEN /\ l.role = "adjudicator" /\ l.round = "adjudication"
            /\ sealed => l.sawPeerLabels /\ l.sourceHasLabels /\ l.claimUse = "sealed_adjudication"
       ELSE l.role = "independent" /\ ~l.sourceHasLabels /\ l.claimUse = "blind_labeling"

RowKey(l) == <<l.findingId, l.rater, IsAdjudication(l)>>

(* validateLabelRows *)
RowHolds(l, known, studyId) ==
  /\ MetadataHolds(l, FALSE)
  /\ l.studyId = studyId /\ l.findingId \in known /\ l.label \in AllowedLabels
  /\ l.rater # "" /\ l.reasoned /\ l.assignmentId # <<>> /\ l.evidencePackageId # <<>>
  /\ ~IsAdjudication(l) => l.round \in BlindRounds /\ ~l.sawPeerLabels
RowsHold(labels, known, studyId) ==
  /\ \A i \in DOMAIN labels : RowHolds(labels[i], known, studyId)
  /\ \A i, j \in DOMAIN labels : i # j => RowKey(labels[i]) # RowKey(labels[j])

(* validateLabelRaterProvenance *)
RaterIsAdmitted(l, types, known, nonHuman) ==
  /\ known \/ types # {} => l.raterType # ""
  /\ l.raterType # "" /\ types # {} => l.raterType \in types
  /\ nonHuman \/ {l.rater, l.raterType} \cap NonHumanNames = {}

Independent(labels, id) == {i \in DOMAIN labels : labels[i].findingId = id /\ ~IsAdjudication(labels[i])}
Adjudicating(labels, id) == {i \in DOMAIN labels : labels[i].findingId = id /\ IsAdjudication(labels[i])}
RatersOf(labels, rows) == {labels[i].rater : i \in rows}
SaidIn(labels, rows) == {labels[i].label : i \in rows}
InRound(labels, rows, round) == {i \in rows : labels[i].round = round}

(* finalLabelForFinding: the empty set, or what two raters said alike, or   *)
(* what was adjudicated.                                                    *)
FinalLabels(labels, id, minimum) ==
  LET own == Independent(labels, id)
      settled == Adjudicating(labels, id)
      first == RatersOf(labels, InRound(labels, own, "blind_first"))
      second == RatersOf(labels, InRound(labels, own, "blind_second"))
  IN IF \/ Cardinality(RatersOf(labels, own)) < minimum
        \/ Cardinality(own) # Cardinality(RatersOf(labels, own))
        \/ Cardinality(first) # 1 \/ Cardinality(second) # 1 \/ first \cap second # {}
        \/ Cardinality(SaidIn(labels, own)) = 1 /\ settled # {}
        \/ Cardinality(SaidIn(labels, settled)) > 1
       THEN {}
     ELSE IF Cardinality(SaidIn(labels, own)) = 1 THEN SaidIn(labels, own)
     ELSE SaidIn(labels, settled)

(* An adjudicator gave no label of his own. *)
AdjudicatorsApart(labels, id) ==
  RatersOf(labels, Adjudicating(labels, id)) \cap RatersOf(labels, Independent(labels, id)) = {}

-----------------------------------------------------------------------------
(* corpus-evidence-bundle.mjs: the sample. *)

RepositoryOf(f) == IF f.repository = "" THEN f.subjectId ELSE f.repository
FirstFew(findings, places, n) == {findings[i] : i \in {k \in places : Cardinality({h \in places : h < k}) < n}}
InBalance(f, rules) == (rules = {} \/ f.ruleId \in rules) /\ SeverityOf(f) = "error"

(* deterministicSample: findings come in the order of their rank.  A rule    *)
(* gives at most its cap, then every repository is filled up to its minimum.*)
Candidates(c) == {i \in DOMAIN c.findings : ~IsExcluded(c.findings[i], c.exclusions)}
SampledByRule(findings, places, cap) ==
  UNION {FirstFew(findings, {i \in places : findings[i].ruleId = rule}, cap) : rule \in {findings[i].ruleId : i \in places}}
Wanting(findings, places, sample, r) == {i \in places : RepositoryOf(findings[i]) = r /\ findings[i] \notin sample}
FilledUp(findings, places, sample, minimum) ==
  sample \cup
  UNION {FirstFew(findings, Wanting(findings, places, sample, r),
                  minimum - Cardinality({f \in sample : RepositoryOf(f) = r}))
         : r \in {RepositoryOf(findings[i]) : i \in places}}

(* repositoryContribution, removablePriority, enforceRepositoryContribution: *)
(* as long as a repository has more than its share of the balance, the one  *)
(* with the most (of equals, some one) loses its last finding, of a rule     *)
(* over its cap before one of a rule with others.                           *)
Balance(sample, rules) == {f \in sample : InBalance(f, rules)}
SharesOf(balance) == [r \in {RepositoryOf(f) : f \in balance} |-> Cardinality({f \in balance : RepositoryOf(f) = r})]
Heaviest(balance) ==
  {r \in DOMAIN SharesOf(balance) : \A q \in DOMAIN SharesOf(balance) : SharesOf(balance)[q] <= SharesOf(balance)[r]}
Removable(balance, f, cap) ==
  LET n == Cardinality({g \in balance : g.ruleId = f.ruleId}) IN IF n > cap THEN 3 ELSE IF n > 1 THEN 2 ELSE 1
OverShare(n, of, share) == n * share[2] > of * share[1]
Removed(c, balance) ==
  LET repository == CHOOSE r \in Heaviest(balance) : TRUE
      theirs == {i \in DOMAIN c.findings : c.findings[i] \in balance /\ RepositoryOf(c.findings[i]) = repository}
      priority(i) == Removable(balance, c.findings[i], c.cap)
  IN c.findings[Max({i \in theirs : \A k \in theirs : priority(k) <= priority(i)})]
IsEven(balance, share) ==
  \A r \in DOMAIN SharesOf(balance) : ~OverShare(SharesOf(balance)[r], Cardinality(balance), share)
Balanced(c, sample) ==
  LET even[n \in 0..Cardinality(sample)] ==
        IF n = 0 THEN sample
        ELSE LET balance == Balance(even[n - 1], c.rules)
             IN IF IsEven(balance, c.share[1]) THEN even[n - 1] ELSE even[n - 1] \ {Removed(c, balance)}
  IN even[Cardinality(sample)]
Feasible(c, sample) ==
  Cardinality(DOMAIN SharesOf(Balance(sample, c.rules))) * c.share[1][1] >= c.share[1][2]
Drawn(c) ==
  FilledUp(c.findings, Candidates(c), SampledByRule(c.findings, Candidates(c), c.cap), c.perRepository)
Sample(c) == IF c.share = <<>> \/ ~Feasible(c, Drawn(c)) THEN Drawn(c) ELSE Balanced(c, Drawn(c))

-----------------------------------------------------------------------------
(* The bundle.  A manifest is [strategy, status, readers, attestations,      *)
(* noted, digest], an attestation [id, type, independent]; noted, the review*)
(* has its date and scope.  A subject is [before, after], the manifests of  *)
(* a replay, before the manifest of any other corpus.                       *)

Replayed(b, f, attested) ==
  LET s == b.subjects[f.subjectId]
  IN s.before.strategy = "copy" /\ s.before.status = "reviewed" /\ attested
     /\ s.after.strategy = "reuse-before" /\ f.replayed
Existing(m) == m.strategy \in {"existing", "copy"} /\ m.status = "reviewed"

(* manifestHasExternalReviewAttestation *)
HasAttestation(m) == \E a \in m.attestations : a.id # "" /\ a.type # "" /\ a.independent
EligibleByBundle(b, f) ==
  IF b.history THEN Replayed(b, f, HasAttestation(b.subjects[f.subjectId].before))
  ELSE Existing(b.subjects[f.subjectId].before)

(* validateLabels *)
BundleRowHolds(b, l) ==
  /\ MetadataHolds(l, FALSE)
  /\ l.studyId = b.studyId /\ l.label \in AllowedLabels /\ l.rater # "" /\ l.reasoned
  /\ l.findingId \in {f.findingId : f \in b.findings}
  /\ l.assignmentId # <<>> /\ l.evidencePackageId # <<>>
  /\ ~IsAdjudication(l) => l.round \in BlindRounds /\ ~l.sawPeerLabels

(* validateBundle, of a bundle whose own sums, logs and copies agree. *)
BundleHolds(b) ==
  /\ b.sealed /\ b.preLabel = b.preLabelSet
  /\ \A f, g \in b.findings : f.findingId = g.findingId => f = g
  /\ b.sampled \subseteq {f.findingId : f \in b.findings}
  /\ \A f \in b.findings : f.subjectId \in DOMAIN b.subjects /\ f.precisionEligible = EligibleByBundle(b, f)
  /\ \A i \in DOMAIN b.labels : BundleRowHolds(b, b.labels[i])
  /\ \A i, j \in DOMAIN b.labels :
       i # j => <<b.labels[i].rater, b.labels[i].findingId>> # <<b.labels[j].rater, b.labels[j].findingId>>

-----------------------------------------------------------------------------
(* precision-label-worklist.mjs.  Options are [mode, raters, types,         *)
(* adjudicator, adjudicatorType, allowExisting, protocol, rules, severities,*)
(* given, exists, force, apart], given the filters named on the command     *)
(* line; a protocol is [schema, studyId, claim, top, plan, review, share,   *)
(* exclusions], claim, top and plan records of the settings they have and   *)
(* claim <<>> or the one of that record.                                    *)

OptionsParse(o) ==
  /\ o.severities # {}
  /\ IF o.mode = "adjudication"
       THEN o.raters = <<>> /\ o.types = <<>> /\ o.adjudicator # "" /\ o.adjudicatorType \in RaterTypes
       ELSE /\ o.mode = "blind" /\ Len(o.raters) = 2 /\ o.raters[1] # o.raters[2]
            /\ Len(o.types) \in {1, 2} /\ Range(o.types) \subseteq RaterTypes

(* readProtocolBinding *)
ClaimPart(p) == IF p.claim = <<>> THEN p.top ELSE p.claim[1]
Claimed(p, key, default) == Setting(<<ClaimPart(p), p.top>>, key, default)
BindingFilters(p) ==
  [rules |-> Claimed(p, "includedRules", {}), severities |-> Claimed(p, "blockingSeverities", {"error"}),
   exclusions |-> NormalRules(p.exclusions)]
BindingHolds(p, o, b) ==
  LET preLabel == Claimed(p, "preLabel", <<>>)
  IN /\ p.schema /\ RulesAreWhole(p.exclusions)
     /\ BindingFilters(p).rules # {} /\ BindingFilters(p).severities # {}
     /\ "rules" \in o.given => o.rules = BindingFilters(p).rules
     /\ "severities" \in o.given => o.severities = BindingFilters(p).severities
     /\ p.studyId # "" => p.studyId = b.studyId
     /\ preLabel # <<>> => preLabel = b.preLabel
FiltersOf(o) ==
  IF o.protocol = <<>> THEN [rules |-> o.rules, severities |-> o.severities, exclusions |-> {}]
  ELSE BindingFilters(o.protocol[1])

Eligible(f, sampled, severities) ==
  f.findingId \in sampled /\ f.precisionEligible /\ SeverityOf(f) \in severities

(* selectedFindings: no rules are all rules. *)
WorklistFindings(b, filters) ==
  {f \in b.findings :
     /\ Eligible(f, b.sampled, filters.severities)
     /\ filters.rules = {} \/ f.ruleId \in filters.rules
     /\ ~IsExcluded(f, filters.exclusions)}

(* disagreementFindings *)
RatersDisagree(labels, id) ==
  LET own == Independent(labels, id)
  IN /\ Cardinality(InRound(labels, own, "blind_first")) = 1
     /\ Cardinality(InRound(labels, own, "blind_second")) = 1
     /\ Cardinality(SaidIn(labels, own)) > 1

WorklistSelection(o, b) ==
  {f \in WorklistFindings(b, FiltersOf(o)) : o.mode = "adjudication" => RatersDisagree(b.labels, f.findingId)}

WorklistRaters(o) ==
  IF o.mode = "adjudication" THEN {[rater |-> o.adjudicator, raterType |-> o.adjudicatorType, round |-> "adjudication"]}
  ELSE {[rater |-> o.raters[i], raterType |-> o.types[IF Len(o.types) = 1 THEN 1 ELSE i],
         round |-> IF i = 1 THEN "blind_first" ELSE "blind_second"] : i \in {1, 2}}

EntryId(studyId, id, round, rater) == <<studyId, id, round, rater>>
EntryPath(f, round, id) == <<"assignments", round, f.subjectId, f.ruleId, id>>
EntryOf(studyId, f, r) ==
  LET id == EntryId(studyId, f.findingId, r.round, r.rater)
  IN [path |-> EntryPath(f, r.round, id), assignmentId |-> id, evidencePackageId |-> <<f.findingId>>,
      findingId |-> f.findingId, subjectId |-> f.subjectId, ruleId |-> f.ruleId,
      round |-> r.round, rater |-> r.rater, raterType |-> r.raterType]

UseOf(round, hasLabels) ==
  IF round = "adjudication" THEN "sealed_adjudication"
  ELSE IF hasLabels THEN "diagnostic_only_existing_labels" ELSE "blind_labeling"

(* labelTemplate: a row without a label. *)
TemplateOf(studyId, e, hasLabels) ==
  [studyId |-> studyId, findingId |-> e.findingId, rater |-> e.rater, raterType |-> e.raterType, legacy |-> FALSE,
   role |-> IF e.round = "adjudication" THEN "adjudicator" ELSE "independent", round |-> e.round, flagged |-> FALSE,
   assignmentId |-> e.assignmentId, evidencePackageId |-> e.evidencePackageId, worklist |-> <<>>,
   sawPeerLabels |-> e.round = "adjudication", sourceHasLabels |-> hasLabels,
   claimUse |-> UseOf(e.round, hasLabels), label |-> "", reasoned |-> FALSE]

(* sourceLabelSnapshot; the verifier knows no raterClass. *)
Snapshot(l, verifier) == [l EXCEPT !.legacy = FALSE, !.flagged = FALSE, !.raterType = IF verifier /\ l.legacy THEN "" ELSE @]
SourceLabels(labels, id, verifier) == {Snapshot(labels[i], verifier) : i \in Independent(labels, id)}

(* buildAssignment *)
AssignmentOf(b, f, e) ==
  [studyId |-> b.studyId, bundle |-> [artifactSet |-> b.artifactSet, preLabel |-> b.preLabel], entry |-> e,
   sawPeerLabels |-> e.round = "adjudication", sourceHasLabels |-> b.labels # <<>>,
   claimUse |-> UseOf(e.round, b.labels # <<>>), evidence |-> b.evidence[f.subjectId], finding |-> f,
   sourceLabels |-> IF e.round = "adjudication" THEN SourceLabels(b.labels, f.findingId, FALSE) ELSE {},
   template |-> TemplateOf(b.studyId, e, b.labels # <<>>)]

ManifestPath == <<"worklist.json">>
WorklistManifest(o, b, entries) ==
  LET filters == FiltersOf(o) IN
  [version |-> IF o.mode = "adjudication" THEN 2 ELSE 1, mode |-> o.mode, studyId |-> b.studyId,
   bundle |-> [artifactSet |-> b.artifactSet, preLabel |-> b.preLabel], filters |-> filters,
   filterDigest |-> IF o.protocol = <<>> THEN <<>> ELSE FilterDigest(filters),
   allowExisting |-> o.mode = "adjudication" \/ o.allowExisting, raters |-> WorklistRaters(o),
   selected |-> Cardinality(WorklistSelection(o, b)), size |-> Cardinality(entries), existing |-> Len(b.labels),
   protocol |-> IF o.protocol = <<>> THEN <<>>
                ELSE <<[studyId |-> o.protocol[1].studyId, artifactSet |-> b.artifactSet,
                        preLabel |-> Claimed(o.protocol[1], "preLabel", <<>>), filters |-> filters]>>,
   assignments |-> entries]

(* createWorklist *)
WorklistIsMade(o, b) ==
  /\ OptionsParse(o) /\ o.apart /\ BundleHolds(b)
  /\ o.mode = "blind" => b.labels = <<>> \/ o.allowExisting
  /\ o.mode = "adjudication" => b.labels # <<>> /\ \A i \in DOMAIN b.labels : ~IsAdjudication(b.labels[i])
  /\ o.protocol # <<>> => BindingHolds(o.protocol[1], o, b)
  /\ WorklistSelection(o, b) # {}
  /\ o.exists => o.force
SealedWorklist(files, seal) == [files |-> files, sums |-> DOMAIN files, intact |-> TRUE, seal |-> <<seal>>]
CreateWorklist(o, b, seal) ==
  LET made == {<<f, EntryOf(b.studyId, f, r)>> : f \in WorklistSelection(o, b), r \in WorklistRaters(o)}
      entries == {m[2] : m \in made}
  IN SealedWorklist([path \in {ManifestPath} \cup {e.path : e \in entries} |->
               IF path = ManifestPath THEN WorklistManifest(o, b, entries)
               ELSE LET m == CHOOSE x \in made : x[2].path = path IN AssignmentOf(b, m[1], m[2])],
            seal)

-----------------------------------------------------------------------------
(* precision-worklist-lib.mjs: a directory is verified in a context [bundle,*)
(* studyId, artifactSet, protocol, digest], <<>> where there is none.       *)

ManifestOf(dir) == dir.files[ManifestPath]
AssignedIn(dir) == IF ManifestPath \in DOMAIN dir.files THEN ManifestOf(dir).assignments ELSE {}
RoundsOf(dir) == {e.round : e \in AssignedIn(dir)}
FoundIn(dir, round) == {e.findingId : e \in {x \in AssignedIn(dir) : x.round = round}}

(* validateWorklistShape *)
ShapeHolds(m) ==
  /\ RulesAreWhole(m.filters.exclusions)
  /\ m.protocol # <<>> => RulesAreWhole(m.protocol[1].filters.exclusions)
  /\ \A r \in m.raters : r.rater \notin SuggestiveNames /\ r.raterType \in RaterTypes

(* validateWorklistProtocolBinding *)
ProtocolBound(m, protocol) ==
  protocol # <<>> =>
    LET p == protocol[1]
        filters == [rules |-> p.rules, severities |-> p.severities, exclusions |-> p.exclusions]
    IN /\ m.protocol # <<>> \/ m.filterDigest # <<>> => m.filters = filters /\ m.filterDigest = FilterDigest(filters)
       /\ m.protocol # <<>> =>
            m.protocol[1] = [studyId |-> p.studyId, artifactSet |-> m.bundle.artifactSet,
                             preLabel |-> p.preLabel, filters |-> filters]

(* validateWorklistManifestConsistency *)
RequiredRounds(m) == IF m.mode = "adjudication" THEN {"adjudication"} ELSE BlindRounds
ManifestConsistent(m) ==
  /\ m.allowExisting = (m.mode = "adjudication")
  /\ IF m.mode = "adjudication" THEN m.version = 2 /\ m.existing > 0 ELSE m.existing = 0
  /\ m.size = Cardinality(m.assignments)
  /\ m.selected = Cardinality({e.findingId : e \in m.assignments})
  /\ Cardinality(m.raters) = Cardinality(RequiredRounds(m)) /\ {r.round : r \in m.raters} = RequiredRounds(m)
  /\ Cardinality({r.rater : r \in m.raters}) = Cardinality(m.raters)
  /\ {[rater |-> e.rater, raterType |-> e.raterType, round |-> e.round] : e \in m.assignments} = m.raters
  /\ \A e \in m.assignments, round \in RequiredRounds(m) :
       Cardinality({x \in m.assignments : x.findingId = e.findingId /\ x.round = round}) = 1
  /\ \A e \in m.assignments : e.round \in RequiredRounds(m)

(* validateDeclaredWorklistFiles; no path and no id is given twice. *)
DeclaredFiles(dir) ==
  LET entries == AssignedIn(dir)
  IN /\ dir.sums = {ManifestPath} \cup {e.path : e \in entries}
     /\ Cardinality({e.path : e \in entries}) = Cardinality(entries)
     /\ Cardinality({e.assignmentId : e \in entries}) = Cardinality(entries)

(* validateAssignmentSourceLabels *)
SourcesHold(a, e, labels) ==
  IF e.round = "adjudication"
    THEN RatersDisagree(labels, e.findingId)
         /\ {Snapshot(l, TRUE) : l \in a.sourceLabels} = SourceLabels(labels, e.findingId, TRUE)
  ELSE a.sourceLabels = {}

(* validateAssignmentEvidenceBinding, validateAssignment *)
AssignmentHolds(a, e, m, ctx, labels) ==
  LET f == CHOOSE x \in ctx.bundle.findings : x.findingId = e.findingId
      settles == e.round = "adjudication"
  IN /\ e.findingId \in {x.findingId : x \in ctx.bundle.findings}
     /\ a.finding = f /\ a.evidence = ctx.bundle.evidence[f.subjectId]
     /\ e = EntryOf(ctx.studyId, f, [rater |-> e.rater, raterType |-> e.raterType, round |-> e.round])
     /\ e.rater \notin SuggestiveNames /\ e.raterType \in RaterTypes
     /\ a.studyId = m.studyId /\ a.bundle = m.bundle /\ a.entry = e
     /\ a.sawPeerLabels = settles /\ a.sourceHasLabels = settles /\ a.claimUse = UseOf(e.round, FALSE)
     /\ SourcesHold(a, e, labels)
     /\ MetadataHolds(a.template, TRUE) /\ a.template = TemplateOf(m.studyId, e, settles)

(* verifyWorklistLabels: the rows of the rounds that a worklist covers are  *)
(* those that it assigned.                                                  *)
RowIsAssigned(dir, l) ==
  /\ MetadataHolds(l, TRUE)
  /\ l.worklist # <<>> => l.worklist = dir.seal
  /\ l.label \in AllowedLabels
  /\ \E e \in AssignedIn(dir) :
       LET t == dir.files[e.path].template
       IN /\ e.assignmentId = l.assignmentId
          /\ [l EXCEPT !.studyId = t.studyId, !.worklist = <<>>, !.label = "", !.reasoned = FALSE, !.flagged = FALSE] = t
WorklistVerifies(dir, labels, ctx) ==
  /\ ManifestPath \in DOMAIN dir.files /\ dir.intact /\ dir.sums = DOMAIN dir.files
  /\ ctx.digest # <<>> => dir.seal = ctx.digest
  /\ LET m == ManifestOf(dir)
     IN /\ ShapeHolds(m) /\ m.studyId = ctx.studyId
        /\ ctx.artifactSet # <<>> => m.bundle.artifactSet = ctx.artifactSet
        /\ m.bundle.preLabel = ctx.bundle.preLabel
        /\ ProtocolBound(m, ctx.protocol)
        /\ ManifestConsistent(m) /\ DeclaredFiles(dir)
        /\ \A e \in m.assignments : AssignmentHolds(dir.files[e.path], e, m, ctx, labels)
        /\ \A i \in DOMAIN labels : labels[i].round \in RoundsOf(dir) => RowIsAssigned(dir, labels[i])
Context(b) == [bundle |-> b, studyId |-> b.studyId, artifactSet |-> <<>>, protocol |-> <<>>, digest |-> <<>>]

-----------------------------------------------------------------------------
(* precision-bind-worklists.mjs *)

WithoutKeys(r, keys) == [k \in DOMAIN r \ keys |-> r[k]]
DigestKeys == {"worklists", "worklist"}
BindWorklists(p, digests) ==
  LET claim == IF p.claim = <<>> THEN <<>> ELSE p.claim[1]
  IN [p EXCEPT !.claim = <<[k \in (DOMAIN claim \ DigestKeys) \cup {"worklists"} |->
                              IF k = "worklists" THEN digests ELSE claim[k]]>>,
               !.top = WithoutKeys(@, DigestKeys), !.plan = WithoutKeys(@, DigestKeys)]

-----------------------------------------------------------------------------
(* corpus-precision-claim.mjs: the protocol.  Fractions are pairs.          *)

AtLeast(x, y) == x[1] * y[2] >= y[1] * x[2]
InUnit(x) == 0 < x[1] /\ x[1] < x[2]

(* normalizeProtocol *)
WorklistDigests(p) ==
  LET one == Setting(<<ClaimPart(p), p.plan, p.top>>, "worklist", <<>>)
  IN Setting(<<ClaimPart(p), p.plan, p.top>>, "worklists", IF one = <<>> THEN <<>> ELSE <<one>>)
NormalizeProtocol(p) ==
  LET minimum == Claimed(p, "minimum", <<99, 100>>)
      external == Setting(<<p.plan>>, "external", AtLeast(minimum, <<99, 100>>))
      plan(key, default) == Setting(<<p.plan>>, key, default)
  IN [studyId |-> p.studyId, metric |-> Claimed(p, "metric", "blocking_precision"),
      toolCommit |-> Claimed(p, "toolCommit", ""), artifactSet |-> Claimed(p, "artifactSet", <<>>),
      preLabel |-> Claimed(p, "preLabel", <<>>), rules |-> Claimed(p, "includedRules", {}),
      severities |-> Claimed(p, "blockingSeverities", {"error"}), exclusions |-> NormalRules(p.exclusions),
      minimum |-> minimum, confidence |-> Claimed(p, "confidence", <<95, 100>>),
      raters |-> plan("raters", 2), types |-> plan("types", {}), nonHuman |-> plan("nonHuman", TRUE),
      known |-> plan("known", FALSE), external |-> external,
      externalTypes |-> plan("externalTypes", {"human", "organization"}),
      minimumExternal |-> plan("minimumExternal", IF external THEN 1 ELSE 0),
      worklists |-> WorklistDigests(p),
      manifestReview |-> Setting(<<p.review>>, "required", FALSE),
      reviewerTypes |-> Setting(<<p.review>>, "types", {"human", "organization"}),
      share |-> IF p.share = <<>> THEN <<1, 10>> ELSE p.share[1]]
ProtocolHolds(p) ==
  LET n == NormalizeProtocol(p)
  IN /\ p.schema /\ n.studyId # "" /\ n.rules # {} /\ n.metric = "blocking_precision"
     /\ InUnit(n.minimum) /\ InUnit(n.confidence) /\ n.raters >= 1 /\ n.minimumExternal >= 0
     /\ RulesAreWhole(p.exclusions) /\ <<>> \notin Range(n.worklists)
     /\ 0 < n.share[1] /\ AtLeast(<<1, 10>>, n.share)

-----------------------------------------------------------------------------
(* corpus-precision-claim.mjs: the numbers. *)

(* binomialUpperTail of an attempt that succeeds with chance p: the chance   *)
(* of at least s successes in n, times p[2]^n.                              *)
UpperTail(n, s, p) ==
  LET tail[k \in 0..n, i \in -1..n] ==
        IF i <= 0 THEN p[2]^k ELSE IF k = 0 THEN 0 ELSE p[1] * tail[k - 1, i - 1] + (p[2] - p[1]) * tail[k - 1, i]
  IN tail[n, s]

(* oneSidedExactLowerBound is at least p: as many successes would be as     *)
(* rare as the confidence asks, were p the precision.                       *)
BoundReaches(n, s, p, confidence) ==
  n > 0 /\ s * p[2] >= n * p[1] /\ UpperTail(n, s, p) * confidence[2] <= (confidence[2] - confidence[1]) * p[2]^n

(* metricFromLabels, of pairs of a finding and its label *)
Trials(finals) == Cardinality({x \in finals : x[2] \in BlockingLabels})
Successes(finals) == Cardinality({x \in finals : x[2] = "true_positive"})
MetricReaches(finals, p) == BoundReaches(Trials(finals), Successes(finals), p.minimum, p.confidence)

(* uniqueFingerprintMetric: one finding of a group has the worst label.     *)
LabelPriority ==
  <<"false_positive", "needs_review", "needs_policy", "invalid_setup", "out_of_scope", "true_positive">>
WorstLabel(labels) ==
  LabelPriority[CHOOSE i \in 1..6 : LabelPriority[i] \in labels /\ \A k \in 1..(i - 1) : LabelPriority[k] \notin labels]
FingerprintKey(f) == <<f.subjectId, f.ruleId, IF f.fingerprint = "" THEN f.findingId ELSE f.fingerprint>>
UniqueFingerprints(finals) ==
  {<<key, WorstLabel({x[2] : x \in {y \in finals : FingerprintKey(y[1]) = key}})>> :
     key \in {FingerprintKey(x[1]) : x \in finals}}

OfRule(finals, rule) == {x \in finals : x[1].ruleId = rule}
OfRepository(finals, repository) == {x \in finals : RepositoryOf(x[1]) = repository}

-----------------------------------------------------------------------------
(* corpus-precision-claim.mjs: the evidence. *)

(* eligibleBlockingFindings, selectedFindings *)
ClaimFindings(b, p) ==
  {f \in b.findings : Eligible(f, b.sampled, p.severities) /\ f.ruleId \in p.rules /\ ~IsExcluded(f, p.exclusions)}

(* reviewReaders, subjectIsReviewed, historyReplaySubjectIsReviewed *)
Readers(m) ==
  LET attesting == {a.id : a \in m.attestations} \ {""} IN IF attesting # {} THEN attesting ELSE m.readers \ {""}
EligibleByClaim(b, f) ==
  IF b.history THEN Replayed(b, f, b.subjects[f.subjectId].before.attestations # {})
  ELSE Existing(b.subjects[f.subjectId].before) /\ Readers(b.subjects[f.subjectId].before) # {}

(* validateReviewedCopyManifest, validateManifestReviewProvenance *)
CopyIsReviewed(m, copies, id, types) ==
  /\ m.strategy = "copy" /\ m.status = "reviewed" /\ m.noted
  /\ m.attestations # {}
  /\ \A a \in m.attestations : a.id # "" /\ a.id \notin NonHumanNames /\ a.type \in types /\ a.independent
  /\ id \in DOMAIN copies /\ m.digest = <<copies[id]>>
ManifestsAreReviewed(b, p) ==
  p.manifestReview \/ b.history =>
    \A id \in DOMAIN b.subjects :
      /\ CopyIsReviewed(b.subjects[id].before, b.copies, id, p.reviewerTypes)
      /\ b.history => b.subjects[id].after.strategy = "reuse-before"

(* labelCountsAsExternal, externalRaterCoverage *)
IsExternal(l, p) == l.raterType \in p.externalTypes /\ {l.rater, l.raterType} \cap NonHumanNames = {}
ExternallyCovered(labels, id, p) ==
  LET required == IF p.minimumExternal < 1 THEN 1 ELSE p.minimumExternal
  IN Cardinality(RatersOf(labels, {i \in Independent(labels, id) : IsExternal(labels[i], p)})) >= required

(* validateSealedBlindWorklistSelection *)
SealedSelection(dirs, selected) ==
  \A round \in BlindRounds :
    LET found == UNION {FoundIn(dirs[i], round) : i \in DOMAIN dirs}
    IN found = {} \/ found = {f.findingId : f \in selected}

(* What evaluateClaim asks of the worklists: each is the one whose digest   *)
(* the protocol has at that place, and no two cover one round.              *)
WorklistsHold(b, p, dirs) ==
  /\ Len(dirs) = Len(p.worklists)
  /\ \A i \in DOMAIN dirs :
       WorklistVerifies(dirs[i], b.labels,
         [bundle |-> b, studyId |-> p.studyId, artifactSet |-> <<>>, protocol |-> <<p>>, digest |-> p.worklists[i]])
  /\ \A i, j \in DOMAIN dirs : i # j => RoundsOf(dirs[i]) \cap RoundsOf(dirs[j]) = {}
  /\ dirs # <<>> /\ (\E i \in DOMAIN b.labels : IsAdjudication(b.labels[i])) =>
       \E i \in DOMAIN dirs : "adjudication" \in RoundsOf(dirs[i])

(* The requirements of evaluateClaim, without which a claim is invalid. *)
BundleMeetsProtocol(b, p) ==
  /\ BundleHolds(b) /\ b.studyId = p.studyId
  /\ p.artifactSet = b.artifactSet /\ p.preLabel # <<>> /\ p.preLabel = b.preLabel
  /\ p.toolCommit # "" /\ p.toolCommit = b.commit
  /\ RowsHold(b.labels, {f.findingId : f \in b.findings}, p.studyId)
  /\ \A i \in DOMAIN b.labels : RaterIsAdmitted(b.labels[i], p.types, p.known, p.nonHuman)
  /\ \A f \in b.findings : f.precisionEligible = EligibleByClaim(b, f)
  /\ ManifestsAreReviewed(b, p)
ClaimIsValid(raw, p, b, dirs) ==
  LET selected == ClaimFindings(b, p)
  IN /\ ProtocolHolds(raw) /\ BundleMeetsProtocol(b, p) /\ WorklistsHold(b, p, dirs)
     /\ SealedSelection(dirs, selected)
     /\ selected # {}
     /\ \A f \in selected : FinalLabels(b.labels, f.findingId, p.raters) # {} /\ AdjudicatorsApart(b.labels, f.findingId)

(* Its gates.  The warning that too few trials had no failure, the macro     *)
(* mean over repositories and the semantic numbers decide nothing: where    *)
(* they fail, the pooled bound or a repository fails.                       *)
ClaimGates(p, b, dirs) ==
  LET selected == ClaimFindings(b, p)
      finals == {<<f, CHOOSE l \in FinalLabels(b.labels, f.findingId, p.raters) : TRUE>> : f \in selected}
      repositories == {RepositoryOf(f) : f \in selected}
  IN /\ b.harness = "clean"
     /\ BlindRounds \subseteq UNION {RoundsOf(dirs[i]) : i \in DOMAIN dirs}
     /\ Cardinality(repositories) * p.share[1] >= p.share[2]
     /\ \A r \in repositories : ~OverShare(Cardinality(OfRepository(finals, r)), Cardinality(selected), p.share)
     /\ p.external => \A f \in selected : ExternallyCovered(b.labels, f.findingId, p)
     /\ MetricReaches(finals, p) /\ MetricReaches(UniqueFingerprints(finals), p)
     /\ \A rule \in p.rules : MetricReaches(OfRule(finals, rule), p)
     /\ \A r \in repositories :
          LET of == OfRepository(finals, r) IN Trials(of) > 0 => Successes(of) * p.minimum[2] >= Trials(of) * p.minimum[1]

EvaluateClaim(c) ==
  LET p == NormalizeProtocol(c.protocol)
  IN IF ~ClaimIsValid(c.protocol, p, c.bundle, c.worklists) THEN "invalid"
     ELSE IF ClaimGates(p, c.bundle, c.worklists) THEN "pass" ELSE "insufficient_evidence"

-----------------------------------------------------------------------------
(* precision-labels-validate.mjs, with two raters of any kind *)

(* validateFindingLabels *)
FindingIsLabeled(labels, id, minimum) ==
  LET own == Independent(labels, id)
      settled == Adjudicating(labels, id)
      first == RatersOf(labels, InRound(labels, own, "blind_first"))
      second == RatersOf(labels, InRound(labels, own, "blind_second"))
      said == SaidIn(labels, own)
  IN /\ Cardinality(RatersOf(labels, own)) >= minimum /\ Cardinality(own) = Cardinality(RatersOf(labels, own))
     /\ Cardinality(first) = 1 /\ Cardinality(second) = 1 /\ first \cap second = {}
     /\ Cardinality(said) > 1 => /\ settled # {} /\ Cardinality(SaidIn(labels, settled)) = 1
                                 /\ RatersOf(labels, settled) \cap RatersOf(labels, own) = {}
     /\ Cardinality(said) = 1 => settled = {}

(* validateBundle *)
LabelsAreReady(b, dirs) ==
  /\ RowsHold(b.labels, {f.findingId : f \in b.findings}, b.studyId)
  /\ \A i \in DOMAIN dirs : WorklistVerifies(dirs[i], b.labels, Context(b))
  /\ \A i, j \in DOMAIN dirs : i # j => RoundsOf(dirs[i]) \cap RoundsOf(dirs[j]) = {}
  /\ dirs # <<>> /\ (\E i \in DOMAIN b.labels : IsAdjudication(b.labels[i])) =>
       \E i \in DOMAIN dirs : "adjudication" \in RoundsOf(dirs[i])
  /\ \A f \in b.findings : f.findingId \in b.sampled /\ f.precisionEligible => FindingIsLabeled(b.labels, f.findingId, 2)

-----------------------------------------------------------------------------
(* precision-label-transfer.mjs.  The rows keep the order of their origin,   *)
(* where the file is sorted for its readers.                                *)

(* withDefaultRaterType, and the study of the target *)
Moved(c, l) ==
  [l EXCEPT !.studyId = c.target.studyId, !.raterType = IF @ = "" THEN c.defaultType ELSE @]

(* assignmentKey, labelKey *)
AssignmentKey(l) == <<l.findingId, l.rater, l.round, IsAdjudication(l)>>
LabelKey(l) == <<l.findingId, l.rater, l.role = "adjudicator" \/ l.flagged>>

(* readTargetWorklistAssignments, rebindLabelToTargetWorklist *)
TargetTemplates(dirs) ==
  UNION {{[seal |-> dirs[i].seal, template |-> dirs[i].files[e.path].template, place |-> <<i, e>>] :
            e \in AssignedIn(dirs[i])} : i \in DOMAIN dirs}
TargetsHold(c) ==
  /\ \A i \in DOMAIN c.worklists :
       WorklistVerifies(c.worklists[i], c.target.labels, [Context(c.target) EXCEPT !.artifactSet = c.target.artifactSet])
  /\ LET all == TargetTemplates(c.worklists)
     IN \A x, y \in all : AssignmentKey(x.template) = AssignmentKey(y.template) => x.place = y.place
AssignedTo(l, dirs) == {x \in TargetTemplates(dirs) : AssignmentKey(x.template) = AssignmentKey(l)}
Rebound(l, dirs) ==
  IF dirs = <<>> \/ AssignedTo(l, dirs) = {} THEN l
  ELSE LET x == CHOOSE x \in AssignedTo(l, dirs) : TRUE
       IN [x.template EXCEPT !.worklist = x.seal, !.label = l.label, !.reasoned = l.reasoned,
                             !.flagged = l.flagged, !.legacy = l.legacy]

(* validateStrictClaimLabel *)
StrictlyHolds(l) ==
  /\ MetadataHolds(l, TRUE)
  /\ l.rater # "" /\ l.raterType # "" /\ l.assignmentId # <<>> /\ l.evidencePackageId # <<>>
  /\ l.label \in AllowedLabels /\ l.reasoned
  /\ ~IsAdjudication(l) => l.round \in BlindRounds

(* transferLabels: a supplemental row that repeats another stops it, an     *)
(* issue of any row or worklist keeps the file from being written.          *)
TransferLabels(c) ==
  LET targets == {f.findingId : f \in {x \in c.target.findings : x.findingId \in c.target.sampled /\ x.precisionEligible}}
      all == c.source.labels \o c.extra
      wanted == {i \in DOMAIN all : all[i].findingId \in targets}
      moved == [i \in wanted |-> Moved(c, all[i])]
      rows == [i \in wanted |-> Rebound(moved[i], c.worklists)]
      issues ==
        \/ c.strict /\ c.worklists = <<>>
        \/ ~TargetsHold(c)
        \/ c.worklists # <<>> /\ \E i \in wanted : AssignedTo(moved[i], c.worklists) = {}
        \/ c.strict /\ \E i \in wanted : ~StrictlyHolds(moved[i]) \/ ~StrictlyHolds(rows[i])
      stopped ==
        \E i, k \in wanted : Len(c.source.labels) < i /\ k < i /\ LabelKey(rows[i]) = LabelKey(rows[k])
      missing == targets \ {rows[i].findingId : i \in wanted}
  IN [rows |-> rows, written |-> ~stopped /\ ~issues, missing |-> missing]

-----------------------------------------------------------------------------
(* What the readers of a bundle and of a protocol leave: finitely many      *)
(* findings, rows, worklists and digests in order, and numbers.             *)
ASSUME PrecisionAssumption ==
  \A c \in PrecisionCases :
    LET p == NormalizeProtocol(c.protocol)
    IN /\ IsFiniteSet(c.bundle.findings)
       /\ \A list \in {c.bundle.labels, c.worklists, p.worklists} : list \in Seq(Range(list))
       /\ p.raters \in Int /\ p.minimumExternal \in Int
       /\ p.minimum \in Int \X Int /\ p.share \in Int \X Int
ASSUME BindAssumption ==
  \A c \in BindCases :
    /\ {"schema", "studyId", "claim", "top", "plan", "review", "share", "exclusions"} \subseteq DOMAIN c.protocol
    /\ <<>> \notin Range(c.digests)

ASSUME SampleAssumption ==
  \A c \in SampleCases :
    /\ {"findings", "cap", "perRepository", "share", "rules", "exclusions"} \subseteq DOMAIN c
    /\ c.findings \in Seq(Range(c.findings))
    /\ \A i, k \in DOMAIN c.findings : c.findings[i] = c.findings[k] => i = k
    /\ c.perRepository \in Nat /\ c.cap \in Nat
    /\ c.share # <<>> => c.share[1] \in (Nat \ {0}) \X (Nat \ {0})

(* A row of labels has all its fields, and legacy says that there is a type.*)
RowFields ==
  {"studyId", "findingId", "rater", "raterType", "legacy", "role", "round", "flagged", "assignmentId",
   "evidencePackageId", "worklist", "sawPeerLabels", "sourceHasLabels", "claimUse", "label", "reasoned"}
IsRow(l) ==
  /\ DOMAIN l = RowFields /\ l = [k \in RowFields |-> l[k]]
  /\ l.legacy \in BOOLEAN /\ l.flagged \in BOOLEAN
  /\ l.legacy => l.raterType # ""
AreRows(labels) == labels \in Seq(Range(labels)) /\ \A i \in DOMAIN labels : IsRow(labels[i])
ASSUME WorklistAssumption ==
  \A c \in WorklistCases :
    /\ IsFiniteSet(c.bundle.findings) /\ AreRows(c.bundle.labels)
    /\ c.options.allowExisting \in BOOLEAN
    /\ \A list \in {c.options.raters, c.options.types} : list \in Seq(Range(list))
    /\ c.options.protocol # <<>> =>
         \A r \in c.options.protocol[1].exclusions :
           DOMAIN r = {"field", "how", "values", "reason"} /\ r.reason \in {"given", "none", "null"}
ASSUME TransferAssumption ==
  \A c \in TransferCases : AreRows(c.source.labels) /\ AreRows(c.extra)

DrawSample == Asked("sample") /\ \E c \in SampleCases : Take(c, Sample(c))
MakeWorklist ==
  /\ Asked("worklist")
  /\ \E c \in WorklistCases :
       LET made == WorklistIsMade(c.options, c.bundle)
           dir == CreateWorklist(c.options, c.bundle, "seal")
       IN Take(c, [made |-> made, verifies |-> made /\ WorklistVerifies(dir, c.bundle.labels, Context(c.bundle))])
BindProtocol == Asked("bind") /\ \E c \in BindCases : Take(c, BindWorklists(c.protocol, c.digests))
JudgeClaim ==
  /\ Asked("precision claim")
  /\ \E c \in PrecisionCases :
       Take(c, [status |-> EvaluateClaim(c), ready |-> LabelsAreReady(c.bundle, c.worklists)])
MoveLabels == Asked("label transfer") /\ \E c \in TransferCases : Take(c, TransferLabels(c))

-----------------------------------------------------------------------------

(* Every repository keeps its minimum in a sample.  Balancing takes away     *)
(* only from what a repository has over its share: what is not counted stays,*)
(* no repository is lost, and where there are enough of them none has more. *)
SampleIsBalanced ==
  Is("sample") =>
    LET candidates == {f \in Range(input.findings) : ~IsExcluded(f, input.exclusions)}
        of(S, r) == {f \in S : RepositoryOf(f) = r}
        drawn == Sample([input EXCEPT !.share = <<>>])
        counted == Balance(drawn, input.rules)
        repositories == {RepositoryOf(f) : f \in counted}
        enough == input.share # <<>> /\ Cardinality(repositories) * input.share[1][1] >= input.share[1][2]
    IN /\ answer \subseteq drawn /\ drawn \subseteq candidates
       /\ \A f \in candidates :
            \/ Cardinality(of(drawn, RepositoryOf(f))) >= input.perRepository
            \/ of(candidates, RepositoryOf(f)) \subseteq drawn
       /\ drawn \ counted \subseteq answer
       /\ ~enough => answer = drawn
       /\ enough =>
            \A r \in repositories :
              LET kept == of(Balance(answer, input.rules), r)
              IN /\ kept # {}
                 /\ Cardinality(kept) * input.share[1][2] <= Cardinality(Balance(answer, input.rules)) * input.share[1][1]

(* A worklist that was made is one that the verifier takes, but for a blind  *)
(* one over a bundle that has labels, one for a rater whose name suggests a  *)
(* label, one whose protocol excludes findings without a reason, and one that*)
(* settles labels of which one has its type as raterClass: those four are   *)
(* made and refused.                                                         *)
MadeWorklistsVerify ==
  Is("worklist") /\ answer.made =>
    LET o == input.options
        b == input.bundle
        names == IF o.mode = "adjudication" THEN {o.adjudicator} ELSE Range(o.raters)
        excluding == IF o.protocol = <<>> THEN {} ELSE o.protocol[1].exclusions
        settled == {i \in DOMAIN b.labels : \E f \in WorklistSelection(o, b) : f.findingId = b.labels[i].findingId}
    IN answer.verifies
         <=> /\ o.mode = "blind" => b.labels = <<>> /\ ~o.allowExisting
             /\ names \cap SuggestiveNames = {}
             /\ \A r \in excluding : r.reason = "given"
             /\ o.mode = "adjudication" => \A i \in settled : ~b.labels[i].legacy

(* Binding writes the digests where the evaluator reads them, whatever the   *)
(* protocol had under its older names, and nothing else of it changes.      *)
BindingSettles ==
  Is("bind") =>
    /\ NormalizeProtocol(answer) = [NormalizeProtocol(input.protocol) EXCEPT !.worklists = input.digests]
    /\ ProtocolHolds(input.protocol) => ProtocolHolds(answer)

(* The rows of a finding, and those of its blind rounds.                     *)
RowsOn(labels, id) == {l \in Range(labels) : l.findingId = id}
BlindOn(labels, id) == {l \in RowsOn(labels, id) : l.round \in BlindRounds}

(* The row that decides on a finding: that of a rater where both say the    *)
(* same, else that of whoever settled it.                                   *)
DecisiveOn(labels, id) ==
  {l \in RowsOn(labels, id) : {x.label : x \in BlindOn(labels, id)} = {l.label} \/ l.round = "adjudication"}

(* A worklist assigned the row to its rater, a blind one before there was a *)
(* label.                                                                   *)
AssignedBy(dir, l) ==
  /\ dir.intact
  /\ \E e \in ManifestOf(dir).assignments :
       e.assignmentId = l.assignmentId /\ e.rater = l.rater /\ e.round = l.round
  /\ l.round # "adjudication" => ManifestOf(dir).existing = 0

(* A claim passes only when it was earned: every finding it counts has two   *)
(* rows by two raters, one in each blind round, of assignments of worklists  *)
(* that the protocol seals and that were made before there was a label; where*)
(* they differ a third person, who has them before him, decided; enough are  *)
(* true positives, and no repository has more than a tenth of them.         *)
PassingClaimsAreEarned ==
  Is("precision claim") /\ answer.status = "pass" =>
    LET b == input.bundle
        p == NormalizeProtocol(input.protocol)
        counted == ClaimFindings(b, p)
        judged(labels) == {f \in counted : \E l \in DecisiveOn(b.labels, f.findingId) : l.label \in labels}
    IN /\ b.harness = "clean" /\ b.commit = p.toolCommit
       /\ \A f \in counted :
            LET rows == RowsOn(b.labels, f.findingId)
                blind == BlindOn(b.labels, f.findingId)
            IN /\ Cardinality({l.rater : l \in blind}) = 2 /\ Cardinality(blind) = 2
               /\ {l.round : l \in blind} = BlindRounds
               /\ \A l \in rows :
                    /\ l.reasoned
                    /\ \E i \in DOMAIN input.worklists :
                         p.worklists[i] = input.worklists[i].seal /\ AssignedBy(input.worklists[i], l)
               /\ \A l \in blind : ~l.sawPeerLabels /\ ~l.sourceHasLabels
               /\ Cardinality({l.label : l \in blind}) = 2 =>
                    \E l \in rows \ blind : l.sawPeerLabels /\ l.rater \notin {x.rater : x \in blind}
               /\ p.external => \E l \in blind : l.raterType \in p.externalTypes
       /\ Cardinality(judged({"true_positive"})) * p.minimum[2] >= p.minimum[1] * Cardinality(judged(BlockingLabels))
       /\ \A f \in counted :
            10 * Cardinality({g \in counted : RepositoryOf(g) = RepositoryOf(f)}) <= Cardinality(counted)

(* Readiness and the claim agree: a claim over all that was sampled passes   *)
(* only over labels that are ready, and labels that are ready settle every   *)
(* finding that the claim counts.                                            *)
ReadinessAgreesWithClaim ==
  Is("precision claim") =>
    LET b == input.bundle
        counted == ClaimFindings(b, NormalizeProtocol(input.protocol))
        sampled == {f \in b.findings : f.findingId \in b.sampled /\ f.precisionEligible}
    IN /\ answer.status = "pass" /\ counted = sampled => answer.ready
       /\ answer.ready =>
            \A f \in counted : FinalLabels(b.labels, f.findingId, 2) # {} /\ AdjudicatorsApart(b.labels, f.findingId)

(* A row that moves keeps its finding, its rater, its round and its verdict, *)
(* and none is left behind; under --strict-claim every row that is written is*)
(* one of a worklist of the target, by its seal.                            *)
TransferKeepsVerdicts ==
  Is("label transfer") /\ answer.written =>
    LET targets ==
          {f.findingId : f \in {x \in input.target.findings : x.findingId \in input.target.sampled /\ x.precisionEligible}}
        origins == Range(input.source.labels) \cup Range(input.extra)
        verdict(l) == <<l.findingId, l.rater, l.round, IsAdjudication(l), l.label, l.reasoned>>
        rows == Range(answer.rows)
    IN /\ {verdict(l) : l \in rows} = {verdict(l) : l \in {x \in origins : x.findingId \in targets}}
       /\ \A l \in rows : l.studyId = input.target.studyId
       /\ input.strict => \A l \in rows : \E i \in DOMAIN input.worklists :
            l.worklist = input.worklists[i].seal /\ RowIsAssigned(input.worklists[i], l)
       /\ answer.missing = {} <=> targets \subseteq {l.findingId : l \in rows}
=============================================================================
