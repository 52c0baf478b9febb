----------------------------- MODULE ManifestSchema -----------------------------
(***************************************************************************)
(* The documents CellFence goes by (schema/src/index.ts): the manifest, the*)
(* baseline and the runtime evidence are JSON of unknown origin, and every *)
(* later step takes what the validators accept for the declared type.      *)
(*                                                                         *)
(* A JSON value is a record with one field: [text], [number], [flag],      *)
(* [list] (a sequence) or [object] (a function of keys), or [null].  What a*)
(* text looks like is given by its traits: "blank", "cell id", "date",     *)
(* "dependency", "digest", "signature", "escapes" (the repository), "odd   *)
(* glob" and "unbounded" (a selector that starts with a globstar).         *)
(*                                                                         *)
(* A case is [type, value], "type" being that of the validator.            *)
(***************************************************************************)
EXTENDS Cases, Integers, Sequences, FiniteSets, Functions

CONSTANTS DocumentCases,
          Traits       \* the traits of every text


Text(t) == [text |-> t]
List(s) == [list |-> s]
Object(f) == [object |-> f]

IsText(v) == "text" \in DOMAIN v
IsList(v) == "list" \in DOMAIN v
IsFlag(v) == "flag" \in DOMAIN v
IsObject(v) == "object" \in DOMAIN v
Looks(v, trait) == trait \in Traits[v.text]
Filled(v) == IsText(v) /\ ~Looks(v, "blank")

Given(v, key) == key \in DOMAIN v.object
At(v, key) == v.object[key]
Req(v, key, Ok(_)) == Given(v, key) /\ Ok(At(v, key))
Opt(v, key, Ok(_)) == Given(v, key) => Ok(At(v, key))
OnlyKeys(v, keys) == IsObject(v) /\ DOMAIN v.object \subseteq keys
Each(v, Ok(_)) == IsList(v) /\ \A x \in Range(v.list) : Ok(x)
EachKey(v, Ok(_)) == IsObject(v) /\ \A k \in DOMAIN v.object : Ok(At(v, k))

(* Enumerations are compared with String(value): a list of one is its text. *)
SpelledIn(v, texts) ==
  \/ IsText(v) /\ v.text \in texts
  \/ IsList(v) /\ Len(v.list) = 1 /\ IsText(v.list[1]) /\ v.list[1].text \in texts

(* The lists of a manifest come in order and its cells are named by texts of *)
(* which the traits are known; no cell id is blank; and the texts that the   *)
(* program writes itself look as they should.                                *)
Ordered(v, key) == IsObject(v) /\ Given(v, key) /\ IsList(At(v, key)) => At(v, key).list \in Seq(Range(At(v, key).list))
TraitsKnown(v, key) == IsObject(v) /\ Given(v, key) /\ IsText(At(v, key)) => At(v, key).text \in DOMAIN Traits
ASSUME DocumentsAssumption ==
  /\ \A c \in DocumentCases :
       /\ c.type \in {"manifest", "baseline", "evidence"}
       /\ Ordered(c.value, "cells")
       /\ IsObject(c.value) /\ Given(c.value, "cells") /\ IsList(At(c.value, "cells")) =>
            \A x \in Range(At(c.value, "cells").list) :
              Ordered(x, "ownedPaths") /\ Ordered(x, "publicSymbols") /\ TraitsKnown(x, "id")
  /\ \A t \in DOMAIN Traits : "cell id" \in Traits[t] => "blank" \notin Traits[t]
  /\ \A t \in {"date", "digest", "signature"} : t \in Traits[t]

-----------------------------------------------------------------------------
(* The declared types, as what a value of the type looks like at every      *)
(* depth.  An enumeration of which only the spelling is looked at is one    *)
(* but for its spelling.                                                    *)

IsNumber(v) == "number" \in DOMAIN v
OneOf(v, texts) == IsText(v) /\ v.text \in texts
Texts(v) == Each(v, IsText)

ResourceContractKind == {"file", "database", "queue", "http"}
ResourceAccessMode == {"read", "write", "publish", "subscribe", "call", "serve"}
ResourceAccessConfidence == {"high", "medium", "low", "transient", "runtime"}
PathClassKind == {"source", "runtime", "generated", "testFixture", "locked"}
RuleSeverity == {"off", "warning", "error"}

RuleSeverityMap(v) == EachKey(v, LAMBDA s : OneOf(s, RuleSeverity))
ArtifactLane(v) ==
  /\ OnlyKeys(v, {"id", "paths", "description", "locked", "external"})
  /\ Req(v, "id", IsText) /\ Req(v, "paths", Texts)
  /\ Opt(v, "description", IsText) /\ Opt(v, "locked", IsFlag) /\ Opt(v, "external", IsFlag)
ResourceContract(v) ==
  /\ OnlyKeys(v, {"id", "kind", "access", "selectors", "locked", "description"})
  /\ Req(v, "id", IsText) /\ Req(v, "kind", LAMBDA k : SpelledIn(k, ResourceContractKind))
  /\ Req(v, "access", LAMBDA l : Each(l, LAMBDA a : OneOf(a, ResourceAccessMode)))
  /\ Req(v, "selectors", Texts) /\ Opt(v, "locked", IsFlag) /\ Opt(v, "description", IsText)
ResourceBaselineEntry(v) ==
  /\ Req(v, "kind", LAMBDA k : SpelledIn(k, ResourceContractKind))
  /\ Req(v, "access", LAMBDA a : SpelledIn(a, ResourceAccessMode)) /\ Req(v, "selector", IsText)
  /\ Opt(v, "detectedBy", IsText) /\ Opt(v, "confidence", LAMBDA c : SpelledIn(c, ResourceAccessConfidence))
PathClass(v) ==
  /\ OnlyKeys(v, {"id", "kind", "paths", "description", "commitPolicy"})
  /\ Req(v, "id", IsText) /\ Req(v, "kind", LAMBDA k : SpelledIn(k, PathClassKind)) /\ Req(v, "paths", Texts)
  /\ Opt(v, "description", IsText)
  /\ Opt(v, "commitPolicy", LAMBDA p :
       /\ OnlyKeys(p, {"allowMixedWith", "requireTrailer", "generatedRequiresProvenance"})
       /\ Opt(p, "allowMixedWith", LAMBDA l : Each(l, LAMBDA k : SpelledIn(k, PathClassKind)))
       /\ Opt(p, "requireTrailer", IsText) /\ Opt(p, "generatedRequiresProvenance", IsFlag))
CheckProfile(v) ==
  /\ OnlyKeys(v, {"description", "rules", "changedOnly", "reportOnly", "requireEvidenceWithinCommits"})
  /\ Opt(v, "description", IsText) /\ Opt(v, "rules", RuleSeverityMap) /\ Opt(v, "changedOnly", IsFlag)
  /\ Opt(v, "reportOnly", IsFlag) /\ Opt(v, "requireEvidenceWithinCommits", IsNumber)
BudgetKeys == {"ownedPathPatterns", "publicSymbols", "publicSurfaceLines", "crossCellDependencies"}
Budgets(v) == OnlyKeys(v, BudgetKeys) /\ EachKey(v, IsNumber)
Governance(v) ==
  /\ OnlyKeys(v, {"requireOwnership", "include", "exclude", "requiredRules", "resourceAdapters", "pathClasses",
                  "claimBackend"})
  /\ Opt(v, "requireOwnership", IsFlag)
  /\ \A k \in {"include", "exclude", "requiredRules"} : Opt(v, k, Texts)
  /\ Opt(v, "resourceAdapters", LAMBDA l : EachKey(l, LAMBDA a : OneOf(a, {"on", "off"})))
  /\ Opt(v, "pathClasses", LAMBDA l : Each(l, PathClass))
  /\ Opt(v, "claimBackend", LAMBDA b : OnlyKeys(b, {"type"}) /\ Req(b, "type", LAMBDA t : OneOf(t, {"local-file"})))
CellKeys == {"id", "ownedPaths", "publicEntry", "publicSymbols", "publicPaths", "packageName", "locked", "waiverParsing",
  "waiverParsingReason", "importAnalysis", "resourceAnalysis", "consumes", "producesArtifacts", "resourceContracts",
  "externalDependencies", "budgets", "rules"}
CellManifest(v) ==
  /\ OnlyKeys(v, CellKeys)
  /\ \A k \in {"id", "publicEntry"} : Req(v, k, IsText)
  /\ \A k \in {"ownedPaths", "publicSymbols"} : Req(v, k, Texts)
  /\ \A k \in {"packageName", "waiverParsingReason"} : Opt(v, k, IsText)
  /\ \A k \in {"locked", "waiverParsing", "importAnalysis", "resourceAnalysis"} : Opt(v, k, IsFlag)
  /\ Opt(v, "publicPaths", Texts)
  /\ Opt(v, "consumes", LAMBDA l : Each(l, LAMBDA c :
       OnlyKeys(c, {"cell", "artifactLanes"}) /\ Req(c, "cell", IsText) /\ Opt(c, "artifactLanes", Texts)))
  /\ Opt(v, "producesArtifacts", LAMBDA l : Each(l, ArtifactLane))
  /\ Opt(v, "resourceContracts", LAMBDA l : Each(l, ResourceContract))
  /\ Opt(v, "externalDependencies", LAMBDA d : OnlyKeys(d, {"allow", "claim"}) /\ EachKey(d, Texts))
  /\ Opt(v, "budgets", Budgets) /\ Opt(v, "rules", RuleSeverityMap)
Manifest(v) ==
  /\ OnlyKeys(v, {"schemaVersion", "governance", "rules", "overrides", "profiles", "cells"})
  /\ Req(v, "schemaVersion", LAMBDA s : OneOf(s, {"manifest v1"})) /\ Req(v, "cells", LAMBDA l : Each(l, CellManifest))
  /\ Opt(v, "governance", Governance) /\ Opt(v, "rules", RuleSeverityMap)
  /\ Opt(v, "profiles", LAMBDA p : EachKey(p, CheckProfile))
  /\ Opt(v, "overrides", LAMBDA l : Each(l, LAMBDA o :
       OnlyKeys(o, {"files", "rules"}) /\ Req(o, "files", Texts) /\ Req(o, "rules", RuleSeverityMap)))
SealBy(v, algorithm, proof) ==
  /\ OnlyKeys(v, {"algorithm", "keyId", "payloadVersion", proof})
  /\ Req(v, "algorithm", LAMBDA a : OneOf(a, {algorithm})) /\ Req(v, proof, IsText)
  /\ Opt(v, "keyId", IsText) /\ Opt(v, "payloadVersion", LAMBDA p : OneOf(p, {"seal-metadata-v1"}))
BaselineSeal(v) == SealBy(v, "hmac-sha256", "digest") \/ SealBy(v, "ed25519", "signature")
CellBaselineRecord(v) ==
  /\ OnlyKeys(v, BudgetKeys \cup {"ownedPathSet", "publicEntryPath", "publicSymbolSet", "publicSurfaceHash",
       "dependencyEdges", "artifactContracts", "resourceAccesses", "externalDependencySet"})
  /\ \A k \in BudgetKeys : Req(v, k, IsNumber)
  /\ \A k \in {"ownedPathSet", "publicSymbolSet", "dependencyEdges", "artifactContracts", "externalDependencySet"} :
       Opt(v, k, Texts)
  /\ \A k \in {"publicEntryPath", "publicSurfaceHash"} : Opt(v, k, IsText)
  /\ Opt(v, "resourceAccesses", LAMBDA l : Each(l, LAMBDA e :
       OnlyKeys(e, {"kind", "access", "selector", "detectedBy", "confidence"}) /\ ResourceBaselineEntry(e)))
Baseline(v) ==
  /\ OnlyKeys(v, {"schemaVersion", "generatedAt", "cellIds", "seal", "cells"})
  /\ Req(v, "schemaVersion", LAMBDA s : OneOf(s, {"baseline v1"})) /\ Req(v, "generatedAt", IsText)
  /\ Req(v, "cells", LAMBDA c : EachKey(c, CellBaselineRecord))
  /\ Opt(v, "cellIds", Texts) /\ Opt(v, "seal", BaselineSeal)
Evidence(v) ==
  /\ OnlyKeys(v, {"schemaVersion", "commitSha", "generatedAt", "cellId", "accesses", "transcriptStatus"})
  /\ Req(v, "schemaVersion", LAMBDA s : OneOf(s, {"evidence v2"})) /\ Req(v, "commitSha", IsText)
  /\ Req(v, "accesses", LAMBDA l : Each(l, LAMBDA e :
       /\ OnlyKeys(e, {"kind", "access", "selector", "detectedBy", "confidence", "cellId", "observedAt"})
       /\ ResourceBaselineEntry(e) /\ Opt(e, "cellId", IsText) /\ Opt(e, "observedAt", IsText)))
  /\ Opt(v, "generatedAt", IsText) /\ Opt(v, "cellId", IsText)
  /\ Opt(v, "transcriptStatus", LAMBDA s : OneOf(s, {"active", "inactive", "incomplete"}))

-----------------------------------------------------------------------------
(* The validators *)

Strings(v) == IsList(v) /\ \A x \in Range(v.list) : Filled(x)
Unique(values) == Cardinality(Range(values)) = Len(values)
Distinct(v) == Strings(v) /\ Unique(v.list)

(* validateRepoRelativePathLike says nothing of a blank text *)
PathLike(v) == Filled(v) => ~Looks(v, "escapes") /\ ~Looks(v, "odd glob")
Paths(v) == Distinct(v) /\ \A x \in Range(v.list) : PathLike(x)

Within(texts) == {[text |-> t] : t \in texts}

CellId(v) == IsText(v) /\ Looks(v, "cell id")
Count(v) == "number" \in DOMAIN v /\ v.number >= 0
(* The ids that are compared: blank ones have been complained of. *)
Ids(v, key) ==
  LET some == SelectSeq(v.list, LAMBDA x : IsObject(x) /\ Req(x, key, Filled))
  IN [i \in DOMAIN some |-> At(some[i], key)]
EachWithId(v, key, Ok(_)) == Each(v, Ok) /\ Unique(Ids(v, key))

(* validateExternalDependencyIdArray *)
Dependencies(v) == Distinct(v) /\ \A x \in Range(v.list) : Looks(x, "dependency")
ValidDependencies(v) ==
  /\ OnlyKeys(v, {"allow", "claim"}) /\ Opt(v, "allow", Dependencies) /\ Opt(v, "claim", Dependencies)
  /\ Given(v, "allow") /\ Given(v, "claim") => Range(At(v, "allow").list) \cap Range(At(v, "claim").list) = {}

ValidConsumer(v) ==
  OnlyKeys(v, {"cell", "artifactLanes"}) /\ Req(v, "cell", CellId) /\ Opt(v, "artifactLanes", Strings)

(* Mutant: whether a lane is external is taken as it comes. *)
ValidLaneExternalAny(v) ==
  /\ OnlyKeys(v, {"id", "paths", "description", "locked", "external"})
  /\ Req(v, "id", Filled) /\ Req(v, "paths", Paths)
  /\ Opt(v, "description", IsText) /\ Opt(v, "locked", IsFlag)

ValidLane(v) ==
  /\ OnlyKeys(v, {"id", "paths", "description", "locked", "external"})
  /\ Req(v, "id", Filled) /\ Req(v, "paths", Paths)
  /\ Opt(v, "description", IsText) /\ Opt(v, "locked", IsFlag) /\ Opt(v, "external", IsFlag)

ValidContract(v) ==
  /\ OnlyKeys(v, {"id", "kind", "access", "selectors", "locked", "description"})
  /\ Req(v, "id", Filled) /\ Req(v, "kind", LAMBDA k : SpelledIn(k, ResourceContractKind))
  /\ Req(v, "access", LAMBDA a : Strings(a) /\ Range(a.list) \subseteq Within(ResourceAccessMode))
  /\ Req(v, "selectors", LAMBDA s : Distinct(s) /\ \A x \in Range(s.list) : ~Looks(x, "unbounded"))
  /\ Opt(v, "description", IsText) /\ Opt(v, "locked", IsFlag)

ValidPathClass(v) ==
  /\ OnlyKeys(v, {"id", "kind", "paths", "description", "commitPolicy"})
  /\ Req(v, "id", Filled) /\ Req(v, "kind", LAMBDA k : SpelledIn(k, PathClassKind)) /\ Req(v, "paths", Paths)
  /\ Opt(v, "description", IsText)
  /\ Opt(v, "commitPolicy", LAMBDA p :
       /\ OnlyKeys(p, {"allowMixedWith", "requireTrailer", "generatedRequiresProvenance"})
       /\ Opt(p, "allowMixedWith", LAMBDA l : Each(l, LAMBDA k : SpelledIn(k, PathClassKind)))
       /\ Opt(p, "requireTrailer", IsText) /\ Opt(p, "generatedRequiresProvenance", IsFlag))

(* validateResourceBaselineEntry *)
ValidEntry(v, more) ==
  /\ OnlyKeys(v, {"kind", "access", "selector", "detectedBy", "confidence"} \cup more)
  /\ Req(v, "kind", LAMBDA k : SpelledIn(k, ResourceContractKind))
  /\ Req(v, "access", LAMBDA a : SpelledIn(a, ResourceAccessMode)) /\ Req(v, "selector", Filled)
  /\ Opt(v, "detectedBy", IsText) /\ Opt(v, "confidence", LAMBDA c : SpelledIn(c, ResourceAccessConfidence))

DateTime(v) == IsText(v) /\ (Looks(v, "blank") \/ Looks(v, "date"))

(* validateResourceEvidenceAccess *)
ValidAccess(v) ==
  ValidEntry(v, {"cellId", "observedAt"}) /\ Opt(v, "cellId", CellId) /\ Opt(v, "observedAt", DateTime)

ValidBudgets(v) == OnlyKeys(v, BudgetKeys) /\ \A k \in BudgetKeys : Opt(v, k, Count)

ValidRules(v) ==
  IsObject(v) /\ \A r \in DOMAIN v.object : "blank" \notin Traits[r] /\ At(v, r) \in Within(RuleSeverity)

BUILT_IN_RESOURCE_ADAPTERS == {"file", "http", "queue", "prisma"}  \* and twelve more

(* validateGovernance with validateClaimBackend *)
ValidGovernance(v) ==
  /\ OnlyKeys(v, {"requireOwnership", "include", "exclude", "requiredRules", "resourceAdapters", "pathClasses",
                  "claimBackend"})
  /\ Opt(v, "requireOwnership", IsFlag) /\ Opt(v, "include", Paths) /\ Opt(v, "exclude", Paths)
  /\ Opt(v, "requiredRules", Distinct)
  /\ Opt(v, "resourceAdapters", LAMBDA a :
       /\ OnlyKeys(a, BUILT_IN_RESOURCE_ADAPTERS)
       /\ \A k \in DOMAIN a.object : At(a, k) \in Within({"on", "off"}))
  /\ Opt(v, "pathClasses", LAMBDA l : EachWithId(l, "id", ValidPathClass))
  /\ Opt(v, "claimBackend", LAMBDA b : OnlyKeys(b, {"type"}) /\ Req(b, "type", LAMBDA t : t = Text("local-file")))
  /\ Given(v, "requireOwnership") /\ At(v, "requireOwnership") = [flag |-> TRUE] =>
       Req(v, "include", LAMBDA l : IsList(l) /\ l.list # <<>>)

ValidProfile(v) ==
  /\ OnlyKeys(v, {"description", "rules", "changedOnly", "reportOnly", "requireEvidenceWithinCommits"})
  /\ Opt(v, "description", IsText) /\ Opt(v, "rules", ValidRules) /\ Opt(v, "changedOnly", IsFlag)
  /\ Opt(v, "reportOnly", IsFlag) /\ Opt(v, "requireEvidenceWithinCommits", Count)

ValidOverride(v) ==
  /\ OnlyKeys(v, {"files", "rules"}) /\ Req(v, "rules", ValidRules)
  /\ Req(v, "files", LAMBDA f : Strings(f) /\ \A x \in Range(f.list) : PathLike(x))

ValidCell(v) ==
  /\ OnlyKeys(v, CellKeys)
  /\ Req(v, "id", CellId) /\ Req(v, "ownedPaths", Paths)
  /\ Req(v, "publicEntry", LAMBDA e : Filled(e) /\ PathLike(e)) /\ Opt(v, "publicPaths", Paths)
  /\ Req(v, "publicSymbols", Distinct) /\ Opt(v, "packageName", IsText)
  /\ Opt(v, "locked", IsFlag) /\ Opt(v, "waiverParsing", IsFlag) /\ Opt(v, "waiverParsingReason", IsText)
  /\ \A k \in {"importAnalysis", "resourceAnalysis"} : Opt(v, k, LAMBDA f : f = [flag |-> TRUE])
  /\ Opt(v, "consumes", LAMBDA l : EachWithId(l, "cell", ValidConsumer))
  /\ Opt(v, "producesArtifacts", LAMBDA l : EachWithId(l, "id", ValidLane))
  /\ Opt(v, "resourceContracts", LAMBDA l : EachWithId(l, "id", ValidContract))
  /\ Opt(v, "externalDependencies", ValidDependencies) /\ Opt(v, "budgets", ValidBudgets)
  /\ Opt(v, "rules", ValidRules)

(* The packages that the cells of a manifest list under a key. *)
Listing(cells, key) ==
  UNION {Range(At(At(c, "externalDependencies"), key).list) :
           c \in {x \in Range(cells) : Given(x, "externalDependencies") /\ Given(At(x, "externalDependencies"), key)}}

(* Mutant: each cell is looked at for itself. *)
CellsAgreeApart(cells) == Unique([i \in DOMAIN cells |-> At(cells[i], "id")])

(* validateManifest, across the cells *)
CellsAgree(cells) ==
  /\ Unique([i \in DOMAIN cells |-> At(cells[i], "id")]) /\ Unique(Ids(List(cells), "packageName"))
  /\ Listing(cells, "allow") \cap Listing(cells, "claim") = {}
  /\ \A c \in Range(cells) : Opt(c, "consumes", LAMBDA l :
       \A u \in Range(l.list) : \E d \in Range(cells) : At(d, "id") = At(u, "cell"))

(* "extends" and "plugins" are reserved: any value is an error. *)
ValidManifest(v) ==
  /\ OnlyKeys(v, {"schemaVersion", "governance", "rules", "overrides", "profiles", "cells"})
  /\ Req(v, "schemaVersion", LAMBDA s : s = Text("manifest v1"))
  /\ Opt(v, "rules", ValidRules) /\ Opt(v, "overrides", LAMBDA l : Each(l, ValidOverride))
  /\ Opt(v, "profiles", LAMBDA p :
       IsObject(p) /\ \A k \in DOMAIN p.object : "blank" \notin Traits[k] /\ ValidProfile(At(p, k)))
  /\ Req(v, "cells", LAMBDA l : Each(l, ValidCell) /\ CellsAgree(l.list))
  /\ Opt(v, "governance", ValidGovernance)

(* The seal of validateBaseline *)
ValidSeal(v) ==
  /\ OnlyKeys(v, {"algorithm", "keyId", "payloadVersion", "digest", "signature"})
  /\ Opt(v, "keyId", IsText) /\ Opt(v, "payloadVersion", LAMBDA p : p = Text("seal-metadata-v1"))
  /\ \/ /\ Req(v, "algorithm", LAMBDA a : a = Text("hmac-sha256")) /\ ~Given(v, "signature")
        /\ Req(v, "digest", LAMBDA d : IsText(d) /\ Looks(d, "digest"))
     \/ /\ Req(v, "algorithm", LAMBDA a : a = Text("ed25519")) /\ ~Given(v, "digest")
        /\ Req(v, "signature", LAMBDA s : IsText(s) /\ Looks(s, "signature"))

(* The record of a cell in validateBaseline *)
ValidRecord(v) ==
  /\ OnlyKeys(v, BudgetKeys \cup {"ownedPathSet", "publicEntryPath", "publicSymbolSet", "publicSurfaceHash",
       "dependencyEdges", "artifactContracts", "resourceAccesses", "externalDependencySet"})
  /\ \A k \in BudgetKeys : Req(v, k, Count)
  /\ \A k \in {"ownedPathSet", "publicSymbolSet", "dependencyEdges", "artifactContracts"} : Opt(v, k, Strings)
  /\ Opt(v, "externalDependencySet", Dependencies)
  /\ Opt(v, "publicEntryPath", IsText) /\ Opt(v, "publicSurfaceHash", IsText)
  /\ Opt(v, "resourceAccesses", LAMBDA l : Each(l, LAMBDA e : ValidEntry(e, {})))

ValidBaseline(v) ==
  /\ OnlyKeys(v, {"schemaVersion", "generatedAt", "cellIds", "seal", "cells"})
  /\ Req(v, "schemaVersion", LAMBDA s : s = Text("baseline v1"))
  /\ Req(v, "generatedAt", LAMBDA t : IsText(t) /\ Looks(t, "date"))
  /\ Opt(v, "cellIds", LAMBDA l : Distinct(l) /\ \A x \in Range(l.list) : CellId(x))
  /\ Opt(v, "seal", ValidSeal)
  /\ Req(v, "cells", LAMBDA c :
       IsObject(c) /\ \A k \in DOMAIN c.object : "cell id" \in Traits[k] /\ ValidRecord(At(c, k)))

(* validateResourceEvidence *)
ValidEvidence(v) ==
  /\ OnlyKeys(v, {"schemaVersion", "commitSha", "generatedAt", "cellId", "accesses", "transcriptStatus"})
  /\ Req(v, "schemaVersion", LAMBDA s : s = Text("evidence v2")) /\ Req(v, "commitSha", Filled)
  /\ Opt(v, "generatedAt", DateTime) /\ Opt(v, "cellId", CellId)
  /\ Opt(v, "transcriptStatus", LAMBDA s : s \in Within({"active", "inactive", "incomplete"}))
  /\ Req(v, "accesses", LAMBDA l : Each(l, ValidAccess))
  /\ ~Given(v, "cellId") => \A a \in Range(At(v, "accesses").list) : Given(a, "cellId")

Validated(c) ==
  CASE c.type = "manifest" -> ValidManifest(c.value)
    [] c.type = "baseline" -> ValidBaseline(c.value)
    [] c.type = "evidence" -> ValidEvidence(c.value)

ReadDocument == Asked("document") /\ \E c \in DocumentCases : Take(c, Validated(c))

-----------------------------------------------------------------------------
(* createBaseline and computeMetrics, of an accepted manifest and a tree in *)
(* which every cell reads one file and imports one package.                 *)
CopyOf(v, key) == IF Given(v, key) THEN At(v, key).list ELSE <<>>
RecordOf(cell) ==
  Object([ownedPathPatterns |-> [number |-> Len(CopyOf(cell, "ownedPaths"))],
          publicSymbols |-> [number |-> Len(CopyOf(cell, "publicSymbols"))],
          publicSurfaceLines |-> [number |-> 0], crossCellDependencies |-> [number |-> 0],
          ownedPathSet |-> At(cell, "ownedPaths"), publicEntryPath |-> At(cell, "publicEntry"),
          publicSymbolSet |-> At(cell, "publicSymbols"), publicSurfaceHash |-> Text("x"), dependencyEdges |-> List(<<>>),
          artifactContracts |-> List([i \in DOMAIN CopyOf(cell, "producesArtifacts") |->
                                        At(CopyOf(cell, "producesArtifacts")[i], "id")]),
          externalDependencySet |-> List(<<>>), resourceAccesses |-> List(<<>>)])

(* sealBaselineIfConfigured *)
SealOf(algorithm, keyId) ==
  Object([k \in {"algorithm", "payloadVersion"} \cup (IF algorithm = "ed25519" THEN {"signature"} ELSE {"digest"})
                 \cup (IF keyId THEN {"keyId"} ELSE {}) |->
            CASE k = "algorithm" -> Text(algorithm) [] k = "payloadVersion" -> Text("seal-metadata-v1")
              [] k = "keyId" -> Text("x") [] k = "digest" -> Text("digest") [] k = "signature" -> Text("signature")])
BaselineOf(manifest, seal) ==
  LET cells == At(manifest, "cells").list
      ids == [i \in DOMAIN cells |-> At(cells[i], "id")]
      plain == [schemaVersion |-> Text("baseline v1"), generatedAt |-> Text("date"), cellIds |-> List(ids),
                cells |-> Object([k \in {i.text : i \in Range(ids)} |->
                                    RecordOf(CHOOSE c \in Range(cells) : At(c, "id").text = k)])]
  IN Object([k \in DOMAIN plain \cup (IF IsObject(seal) THEN {"seal"} ELSE {}) |-> IF k = "seal" THEN seal ELSE plain[k]])

-----------------------------------------------------------------------------
(* Whatever is accepted has the declared type, at every depth. *)
AcceptedIsTyped ==
  Is("document") /\ answer =>
    CASE input.type = "manifest" -> Manifest(input.value)
      [] input.type = "baseline" -> Baseline(input.value)
      [] input.type = "evidence" -> Evidence(input.value)

(* In an accepted manifest every reference leads to one cell, no package is *)
(* both claimed and allowed, required ownership has a territory, and the    *)
(* baseline that is made of it, sealed or not, is accepted when it is read. *)
AcceptedIsWorkable ==
  Is("document") /\ input.type = "manifest" /\ answer =>
    LET cells == At(input.value, "cells").list
        named(id) == {i \in DOMAIN cells : At(cells[i], "id") = id}
    IN /\ \A c \in Range(cells) :
            /\ Cardinality(named(At(c, "id"))) = 1
            /\ \A u \in Range(CopyOf(c, "consumes")) : Cardinality(named(At(u, "cell"))) = 1
       /\ \A c, d \in Range(cells) :
            LET listed(x, k) == IF Given(x, "externalDependencies") THEN Range(CopyOf(At(x, "externalDependencies"), k)) ELSE {}
            IN listed(c, "allow") \cap listed(d, "claim") = {}
       /\ \A seal \in {[null |-> TRUE]} \cup {SealOf(a, k) : a \in {"hmac-sha256", "ed25519"}, k \in BOOLEAN} :
            ValidBaseline(BaselineOf(input.value, seal))
=============================================================================
