-------------------------- MODULE AdvancedGovernance --------------------------
(***************************************************************************)
(* The tools around the check (advanced-governance.ts): the import of      *)
(* service manifests, the evidence in commit messages, path classes, task  *)
(* manifests, stamped design documents and mutation reports.               *)
(*                                                                         *)
(* A pattern is the set of the paths it matches (PathGlobs holds what      *)
(* matching means): two overlap when they share a path.  A list whose order*)
(* nothing depends on is a set.                                            *)
(***************************************************************************)
EXTENDS Cases, Integers, Sequences, SequencesExt, FiniteSetsExt

CONSTANTS
  ServiceCases,  \* sequences of services, in the order of their paths
  CommitCases,   \* [commits, audited]
  TaskCases,     \* a task and the trees of a repository
  DocCases,      \* a document, the surface hash of its cell
  ReportCases,   \* a mutation report
  ClassCases,    \* path classes, changed files, imports
  CodeOrder      \* the place of a path under sort(), which is not localeCompare

Overlapping(p, q) == p \cap q # {}
OverlapsAny(p, patterns) == \E q \in patterns : Overlapping(p, q)
HitBy(path, patterns) == \E p \in patterns : path \in p

-----------------------------------------------------------------------------
(* Services: [id, owned, data, writes, lanes (a sequence of [id, paths]),   *)
(* readOnly, uses, http (a sequence of [id, access, selectors]), scheduled,   *)
(* entry, directory], the directory being systems/<id>/**.                  *)

(* uniqueIdForCell: an id is a name and the suffix that sets it apart. *)
UniqueIds(entries) ==
  LET free(id, used) == CHOOSE n \in 1 .. Cardinality(used) + 1 :
                          <<id, n>> \notin used /\ \A k \in 1 .. n - 1 : <<id, k>> \in used
  IN FoldLeft(LAMBDA done, e : Append(done, [e EXCEPT !.id = <<e.id, free(e.id, {d.id : d \in Range(done)})>>]),
              <<>>, entries)

(* The maps by service: of two services of one id the later is kept. *)
ServiceNamed(ss, id) == ss[Max({i \in DOMAIN ss : ss[i].id = id})]
ServiceIds(ss) == {s.id : s \in Range(ss)}
(* serviceArtifactLanes; an artifact without a path is skipped. *)
LanesOf(ss, id) == UniqueIds(SelectSeq(ServiceNamed(ss, id).lanes, LAMBDA l : l.paths # {}))

(* artifactConsumersFromReadOnlyArtifacts *)
LanesRead(ss, s, producer) ==
  {l.id : l \in {k \in Range(LanesOf(ss, producer)) : \E r \in s.readOnly : OverlapsAny(r, k.paths)}}
ArtifactProducers(ss, s) == {p \in ServiceIds(ss) \ {s.id} : LanesRead(ss, s, p) # {}}

(* unmatchedReadOnlyArtifactContracts *)
Unmatched(ss, s) ==
  {r \in s.readOnly : ~\E p \in ServiceIds(ss) \ {s.id} : \E l \in Range(LanesOf(ss, p)) : OverlapsAny(r, l.paths)}

(* Mutant: what an artifact of another service covers is taken all the same. *)
AdditionalOwnedAll(ss, s, paths) == paths

(* nonOverlappingAdditionalOwnedPaths; only what is written in the other    *)
(* ownedPaths counts, not the directory a service has by default.           *)
AdditionalOwned(ss, s, paths) ==
  {p \in paths : ~\E id \in ServiceIds(ss) \ {s.id} : OverlapsAny(p, ServiceNamed(ss, id).owned)}
OwnedOfService(ss, s) ==
  (IF s.owned # {} THEN s.owned ELSE {s.directory})
  \cup AdditionalOwned(ss, s, s.data) \cup AdditionalOwned(ss, s, s.writes)

(* The contracts: ids are told apart within each kind, not across them. *)
ServiceContracts(ss, s) ==
  UniqueIds([i \in DOMAIN s.http |->
               [id |-> <<s.http[i].id>>, kind |-> "http", selectors |-> s.http[i].selectors,
                access |-> IF s.http[i].access = {} THEN {"serve"} ELSE s.http[i].access]])
  \o UniqueIds(SetToSeq({[id |-> <<s.id, "readonly", r>>, kind |-> "file", access |-> {"read"}, selectors |-> {r}] :
                           r \in Unmatched(ss, s)}))
  \o UniqueIds(SetToSeq({[id |-> <<s.id, "scheduled", t>>, kind |-> "queue", access |-> {"subscribe"}, selectors |-> {t}] :
                           t \in s.scheduled}))

(* One turn of the loop of createManifestFromServiceManifests. *)
CellOfService(ss, s) ==
  LET owned == OwnedOfService(ss, s)
  IN [id |-> s.id, owned |-> owned, entry |-> s.entry,
      consumes |-> [p \in (s.uses \cup ArtifactProducers(ss, s)) \ {s.id} |->
                      IF p \in ServiceIds(ss) THEN LanesRead(ss, s, p) ELSE {}],
      lanes |-> [i \in DOMAIN LanesOf(ss, s.id) |->
                   LET l == LanesOf(ss, s.id)[i]
                   IN [id |-> l.id, paths |-> l.paths, external |-> \E p \in l.paths : ~(p \subseteq UNION owned)]],
      contracts |-> ServiceContracts(ss, s)]
ImportServices(ss) == [i \in DOMAIN ss |-> CellOfService(ss, ss[i])]

(* verifyManifestFromServiceManifests: the errors, by service and field;    *)
(* cells that are not of the services draw a warning only.                  *)
DriftOf(ss, manifest) ==
  UNION {LET own == SelectSeq(manifest, LAMBDA c : c.id = g.id)
         IN IF own = <<>> THEN {<<g.id, "missing">>}
            ELSE {<<g.id, f>> : f \in {x \in {"owned", "entry", "consumes"} : own[1][x] # g[x]}}
                 \cup {<<g.id, f>> : f \in {x \in {"lanes", "contracts"} : Range(own[1][x]) # Range(g[x])}} :
           g \in Range(ImportServices(ss))}

ReadServices ==
  Asked("services") /\ \E ss \in ServiceCases : Take(ss, ImportServices(ss))

-----------------------------------------------------------------------------
(* Commits: [files (each [status, path, test, source, weak, cells]),        *)
(* message, merge].  A line of a message is [heading], [trailer, value] or  *)
(* [text]; a text is "concrete" or "short", and so is the value of a        *)
(* trailer, or it is a list [names, blank], blank where it has no names and *)
(* does not say "none".  Paths and cells are numbers, in the order of       *)
(* localeCompare.                                                           *)
RequiredSections == {"Problem", "Known-Gaps"}    \* and Change, Behavior, Tests
ListTrailers == {"Changed-Cells", "Tests-Added", "Tests-Modified"}
ReasonTrailer == "Tests-Not-Added-Reason"
RequiredTrailers == ListTrailers \cup {ReasonTrailer}   \* and four that are treated like the last
BaselineFile == 0

(* parseSections: a section goes on to the next heading, and so the last    *)
(* takes in the trailers.                                                   *)
SectionFilled(message, name) ==
  LET heads == {i \in DOMAIN message : "heading" \in DOMAIN message[i] /\ message[i].heading = name}
      from == Max(heads)
  IN heads # {} /\ \E i \in from + 1 .. Len(message) :
       /\ \A k \in from + 1 .. i : "heading" \notin DOMAIN message[k]
       /\ "trailer" \in DOMAIN message[i] \/ message[i].text = "concrete"

(* parseTrailers: the last one of a name counts. *)
TrailerAt(message, name) == {i \in DOMAIN message : "trailer" \in DOMAIN message[i] /\ message[i].trailer = name}
TrailerValue(message, name) == message[Max(TrailerAt(message, name))].value

(* trailerLooksPlaceholder *)
TrailerGiven(message, name) ==
  TrailerAt(message, name) # {} /\
    IF name \in ListTrailers THEN TrailerValue(message, name).blank = FALSE
    ELSE TrailerValue(message, name) = "concrete"

(* csv, which sorts by localeCompare, against lists of paths under sort().  *)
TrailerList(message, name) ==
  IF TrailerAt(message, name) = {} THEN <<>>
  ELSE SortSeq(TrailerValue(message, name).names, LAMBDA x, y : x < y)
InCodeOrder(names) == SetToSortSeq(names, LAMBDA x, y : CodeOrder[x] < CodeOrder[y])

ChangedBy(c) == {f.path : f \in c.files}
(* owningCellsForFiles, of the new names of what was renamed. *)
CellsChanged(c) == UNION {f.cells : f \in c.files}
TestsOf(c, added) == {f.path : f \in {g \in c.files : g.test /\ (g.status = "A") = added}}

WeakTests(c) == {f.path : f \in {g \in c.files : g.test /\ g.weak /\ g.status # "D"}}

(* One turn of the loop of checkCommitEvidence. *)
CommitFindings(c) ==
  LET m == c.message IN
  {<<"missing", s>> : s \in {x \in RequiredSections : ~SectionFilled(m, x)}}
  \cup {<<"trailer", t>> : t \in {x \in RequiredTrailers : ~TrailerGiven(m, x)}}
  \cup (IF TrailerList(m, "Changed-Cells") = SetToSortSeq(CellsChanged(c), LAMBDA x, y : x < y) THEN {} ELSE {<<"cells", "mismatch">>})
  \cup (IF TrailerList(m, "Tests-Added") = InCodeOrder(TestsOf(c, TRUE)) THEN {} ELSE {<<"added", "mismatch">>})
  \cup (IF TrailerList(m, "Tests-Modified") = InCodeOrder(TestsOf(c, FALSE)) THEN {} ELSE {<<"modified", "mismatch">>})
  \cup (IF /\ \E f \in c.files : f.source /\ ~f.test
           /\ TestsOf(c, TRUE) \cup TestsOf(c, FALSE) = {} /\ ~TrailerGiven(m, ReasonTrailer)
        THEN {<<"reason", "required">>} ELSE {})
  \cup {<<"weak", p>> : p \in WeakTests(c)}

(* createBaselineAudit *)
BaselineOnly(commits) == {i \in DOMAIN commits : ChangedBy(commits[i]) = {BaselineFile}}

(* commitsForRange: the latest, without the merges. *)
Latest(commits, n) == SubSeq(commits, 1, Min({n, Len(commits)}))
JudgedCommits(h) == Latest(SelectSeq(h.commits, LAMBDA c : ~c.merge), h.limit)
JudgeCommits(h, judged) ==
  [findings |-> UNION {CommitFindings(c) : c \in Range(judged)},
   audit |-> BaselineOnly(Latest(h.commits, h.audited)) = {}]
ReadCommits == Asked("commits") /\ \E h \in CommitCases : Take(h, JudgeCommits(h, JudgedCommits(h)))

-----------------------------------------------------------------------------
(* Tasks: [allowed, forbidden, gates, maxFiles (0: none), base, trees]; the *)
(* trees are of the merge base, the head, the index and the work tree, as   *)
(* functions from paths to contents, Gone where there is no file.  Contents *)
(* tell the files of a tree apart.                                          *)
Gone == "gone"
Tracked(t) == [p \in DOMAIN t.trees.work |-> IF t.trees.index[p] = Gone THEN Gone ELSE t.trees.work[p]]
Untracked(t) == {p \in DOMAIN t.trees.work : t.trees.index[p] = Gone /\ t.trees.work[p] # Gone}

(* git diff --name-only: of a file that moved, the new name. *)
DiffNames(old, new) ==
  {p \in DOMAIN old : /\ old[p] # new[p]
                      /\ ~(new[p] = Gone /\ \E q \in DOMAIN old : old[q] = Gone /\ new[q] = old[p])}

(* changedFilesForTask; with a base the index and the work tree count only  *)
(* for what git does not know of.                                           *)
ChangedFilesForTask(t) ==
  Untracked(t) \cup
  IF t.base THEN DiffNames(t.trees.base, t.trees.head)
  ELSE DiffNames(t.trees.index, Tracked(t)) \cup DiffNames(t.trees.head, t.trees.index)

(* checkTaskManifest *)
TaskFindings(t, changed) ==
  {<<"invalid", f>> : f \in {x \in {"allowed", "gates"} : t[x] = {}}}
  \cup {<<"outside", p>> : p \in {x \in changed : t.allowed # {} /\ ~HitBy(x, t.allowed)}}
  \cup {<<"forbidden", p>> : p \in {x \in changed : HitBy(x, t.forbidden)}}
  \cup (IF t.maxFiles > 0 /\ Cardinality(changed) > t.maxFiles THEN {<<"budget", "exceeded">>} ELSE {})

CheckTask == Asked("task") /\ \E t \in TaskCases : Take(t, TaskFindings(t, ChangedFilesForTask(t)))

-----------------------------------------------------------------------------
(* Documents: sequences of lines [key, value, indented], key being "cell",  *)
(* "surfaceHash", "mention" (of the cell key, in the middle of a line) or    *)
(* "text"; metadata is read up to HeadLines.                                *)
HeadLines == 3    \* 40 in the code

(* docMetadata, which trims the line; the last one counts. *)
MetadataAt(doc, key) == {i \in DOMAIN doc : i <= HeadLines /\ doc[i].key = key}
Metadata(doc, key) == IF MetadataAt(doc, key) = {} THEN "none" ELSE doc[Max(MetadataAt(doc, key))].value

(* checkDesignDocs *)
DocFindings(d, doc) ==
  IF Metadata(doc, "cell") = "none" /\ Metadata(doc, "surfaceHash") = "none" THEN {}
  ELSE IF Metadata(doc, "cell") \notin DOMAIN d.hash THEN {"unknown cell"}
  ELSE IF Metadata(doc, "surfaceHash") # d.hash[Metadata(doc, "cell")] THEN {"stale"} ELSE {}

(* replace(/^cellfence:key:.*$/m): the first line that starts with it. *)
ReplaceLine(doc, key, value) ==
  LET at == {i \in DOMAIN doc : doc[i].key = key /\ ~doc[i].indented}
  IN IF at = {} THEN doc ELSE [doc EXCEPT ![Min(at)].value = value]

Line(key, value) == [key |-> key, value |-> value, indented |-> FALSE]
Mentioned(doc) == \E i \in DOMAIN doc : doc[i].key \in {"cell", "mention"}

(* stampDesignDoc *)
Stamped(d, doc) ==
  IF Mentioned(doc) THEN ReplaceLine(ReplaceLine(doc, "cell", d.cell), "surfaceHash", d.hash[d.cell])
  ELSE <<Line("cell", d.cell), Line("surfaceHash", d.hash[d.cell]), Line("text", "")>> \o doc

StampDoc ==
  Asked("doc") /\ \E d \in DocCases :
    Take(d, IF d.cell \in DOMAIN d.hash
            THEN [stamped |-> Stamped(d, d.doc), findings |-> DocFindings(d, Stamped(d, d.doc))]
            ELSE [stamped |-> d.doc, findings |-> {"unknown cell"}])

-----------------------------------------------------------------------------
(* Mutation reports: the nodes [file, status] of a tree by their positions,  *)
(* the indices on the way from the root; "" for none.                       *)

(* collectMutants: a node lies in the file named last on the way to it.     *)
FileAt(report, n) ==
  LET named == {k \in 0 .. Len(n) : report[SubSeq(n, 1, k)].file # ""}
  IN IF named = {} THEN "" ELSE report[SubSeq(n, 1, Max(named))].file
CollectMutants(report) ==
  [n \in {x \in DOMAIN report : report[x].status # ""} |-> [file |-> FileAt(report, n), status |-> report[n].status]]

(* checkMutationReport: a mutant counts for the first cell with a pattern   *)
(* that matches its file, and not at all where there is none.               *)
MutantsOf(r, all, cell) ==
  {n \in DOMAIN all : \E i \in DOMAIN r.cells :
    /\ r.cells[i].id = cell /\ HitBy(all[n].file, r.cells[i].owned)
    /\ \A k \in 1 .. i - 1 : ~HitBy(all[n].file, r.cells[k].owned)}
Counted(all, ms, statuses) == Cardinality({n \in ms : all[n].status \in statuses})
(* score < minScore, a score being killed of all that ran, or 100. *)
BelowScore(all, ms, minScore) ==
  LET of == Counted(all, ms, {"killed", "survived", "timeout", "noCoverage"})
  IN IF of = 0 THEN 100 < minScore ELSE Counted(all, ms, {"killed"}) * 100 < minScore * of
MutationFindings(r, all) ==
  {c \in {x.id : x \in Range(r.cells)} :
     MutantsOf(r, all, c) # {} /\ BelowScore(all, MutantsOf(r, all, c), r.minScore)}
CheckMutants ==
  Asked("mutants") /\ \E r \in ReportCases : Take(r, MutationFindings(r, CollectMutants(r.report)))

-----------------------------------------------------------------------------
(* Path classes: [classes (a sequence of [kind, paths]), changed, imports   *)
(* (pairs)].                                                                *)
ClassKind(classes, path) ==
  LET hits == {i \in DOMAIN classes : HitBy(path, classes[i].paths)}
  IN IF hits = {} THEN "none" ELSE classes[Min(hits)].kind

(* validatePathClassImports *)
ClassImports(c) ==
  {i \in c.imports : ClassKind(c.classes, i[1]) = "source" /\ ClassKind(c.classes, i[2]) = "runtime"}
(* validateChangedPathClasses *)
ClassWarnings(c) ==
  LET kinds == {ClassKind(c.classes, f) : f \in c.changed}
  IN (IF {"source", "runtime"} \subseteq kinds THEN {"mixed"} ELSE {}) \cup (kinds \cap {"generated"})
JudgeClasses ==
  Asked("classes") /\ \E c \in ClassCases : Take(c, [imports |-> ClassImports(c), warnings |-> ClassWarnings(c)])

-----------------------------------------------------------------------------
SameIdTwice == \E i, k \in DOMAIN input : i # k /\ input[i].id = input[k].id

(* An imported manifest stands up to the checks it is made for: verified at *)
(* once it has no drift; a lane that is not marked external lies in the     *)
(* territory of its cell; a lane that is consumed exists; whoever reads an  *)
(* artifact consumes every lane it may come from or has a contract for it;  *)
(* and nothing but its own ownedPaths gives a service a path that another   *)
(* one lists in its ownedPaths.  Two files with one service id spoil it.    *)
ImportedStands ==
  Is("services") /\ ~SameIdTwice =>
    /\ DriftOf(input, answer) = {}
    /\ \A i \in DOMAIN answer :
         LET c == answer[i]  s == input[i] IN
         /\ \A l \in Range(c.lanes) : ~l.external => UNION l.paths \subseteq UNION c.owned
         /\ \A p \in DOMAIN c.consumes : c.consumes[p] # {} =>
              \E d \in Range(answer) : d.id = p /\ c.consumes[p] \subseteq {l.id : l \in Range(d.lanes)}
         /\ \A r \in s.readOnly : \A d \in Range(answer) : d.id # c.id =>
              \A l \in Range(d.lanes) : OverlapsAny(r, l.paths) => d.id \in DOMAIN c.consumes /\ l.id \in c.consumes[d.id]
         /\ \A r \in s.readOnly : (\A d \in Range(answer) \ {c} : \A l \in Range(d.lanes) : ~OverlapsAny(r, l.paths)) =>
              \E k \in Range(c.contracts) : k.kind = "file" /\ r \in k.selectors
         /\ \A k \in DOMAIN input \ {i} : \A p \in input[k].owned :
              OverlapsAny(p, c.owned) => OverlapsAny(p, s.owned \cup {s.directory})

(* Commits that pass tell the truth: each names the cells and the tests it  *)
(* changes, weakens no test and says why source changed without tests; a    *)
(* history that passes the audit changed the baseline only along with       *)
(* something else.                                                          *)
CommitsTellTheTruth ==
  Is("commits") =>
    /\ answer.findings = {} =>
         \A c \in {x \in Range(input.commits) : ~x.merge} :
           Len(SelectSeq(input.commits, LAMBDA x : ~x.merge)) <= input.limit =>
             /\ Range(TrailerList(c.message, "Changed-Cells")) = UNION {f.cells : f \in c.files}
             /\ Range(TrailerList(c.message, "Tests-Added")) \cup Range(TrailerList(c.message, "Tests-Modified"))
                  = {f.path : f \in {g \in c.files : g.test}}
             /\ ~\E f \in c.files : f.test /\ f.weak /\ f.status # "D"
             /\ (\E f \in c.files : f.source /\ ~f.test) =>
                  (\E f \in c.files : f.test) \/ TrailerValue(c.message, ReasonTrailer) = "concrete"
    /\ answer.audit /\ Len(input.commits) <= input.audited =>
         \A c \in Range(input.commits) : BaselineFile \in ChangedBy(c) => ChangedBy(c) # {BaselineFile}

(* A task that passes left alone what it may not write: whatever differs    *)
(* between the head, the index and the work tree is allowed and not         *)
(* forbidden, but for the old names of files that moved.                    *)
TaskStaysInside ==
  Is("task") /\ answer = {} /\ ~input.base =>
    \A p \in DOMAIN input.trees.head :
      LET at(tree) == input.trees[tree][p]
          moved == /\ at("head") # Gone /\ at("index") = Gone
                   /\ \E q \in DOMAIN input.trees.head :
                        input.trees.head[q] = Gone /\ input.trees.index[q] = at("head")
      IN \/ at("head") = at("index") /\ at("index") = at("work")
         \/ moved
         \/ HitBy(p, input.allowed) /\ ~HitBy(p, input.forbidden)

(* A document that has been stamped names the cell and its current surface, *)
(* and stamping it again does nothing, whatever stood in it: unless its     *)
(* metadata is indented, double, incomplete, beyond the head or a mention.  *)
StampedIsCurrent ==
  Is("doc") /\ input.cell \in DOMAIN input.hash =>
    LET keyed(k) == {i \in DOMAIN input.doc : input.doc[i].key = k}
        plain(k) == Cardinality(keyed(k)) = 1 /\ \A i \in keyed(k) : i <= HeadLines /\ ~input.doc[i].indented
    IN keyed("mention") = {} /\ (keyed("cell") \cup keyed("surfaceHash") = {} \/ (plain("cell") /\ plain("surfaceHash"))) =>
         /\ answer.findings = {} /\ Stamped(input, answer.stamped) = answer.stamped
         /\ Metadata(answer.stamped, "cell") = input.cell
         /\ Metadata(answer.stamped, "surfaceHash") = input.hash[input.cell]

(* A mutant that survives instead of being killed never turns a failing     *)
(* report into one that passes.                                             *)
SurvivorsNeverHelp ==
  Is("mutants") =>
    LET all == CollectMutants(input.report)
        worse(i) == [all EXCEPT ![i].status = "survived"]
    IN \A i \in DOMAIN all : all[i].status = "killed" => answer \subseteq MutationFindings(input, worse(i))

(* Where the classes do not overlap their order does not matter. *)
ClassOrderDoesNotMatter ==
  Is("classes") /\ (\A i, k \in DOMAIN input.classes : i # k => \A p \in input.classes[i].paths : ~OverlapsAny(p, input.classes[k].paths)) =>
    LET turned == [input EXCEPT !.classes = Reverse(@)]
    IN answer = [imports |-> ClassImports(turned), warnings |-> ClassWarnings(turned)]
=============================================================================
