------------------------------- MODULE Territory -------------------------------
(***************************************************************************)
(* What a manifest says about a tree as a whole (index.ts: the ownership   *)
(* checks, symbolic links, public entries, patterns that match nothing);   *)
(* and in the second half the manifest that is made for a tree.            *)
(*                                                                         *)
(* A territory is                                                          *)
(*   files, source      the plain files, those with a source extension     *)
(*   links              the real path each symbolic link leads to, or      *)
(*                      Outside, or BrokenLink                             *)
(*   owned, public      per cell: its ownedPaths and publicPaths           *)
(*   lanes              per cell: artifact lanes [paths, external]         *)
(*   entry, agrees      per cell: publicEntry, and whether its symbols are *)
(*                      those declared                                     *)
(*   include, exclude   of the governance; require tells whether ownership *)
(*                      is required at all                                 *)
(***************************************************************************)
EXTENDS Cases, PathGlobs

CONSTANTS
  TerritoryCases,
  PatternCases,   \* [left, right]
  SamplePaths,    \* the paths the patterns are compared on
  TreeCases       \* [owned, include, file]

Outside == <<<<"outside">>>>
BrokenLink == <<<<"broken">>>>

TerritoryCells(w) == DOMAIN w.owned
PathOwners(w, path) == {c \in TerritoryCells(w) : OwnedBy(path, w.owned[c])}
MatchesAny(path, patterns) == \E p \in patterns : Matches(path, p)

(* listFiles: the files behind links included, but no directory behind one. *)
TerritoryFiles(w) ==
  {f \in w.files \cup {l \in DOMAIN w.links : w.links[l] \in w.files \cup {Outside}} :
     Listed(f, w.include \cup UNION {w.owned[c] : c \in TerritoryCells(w)})}

SourceIn(w, path) == path \in w.source \/ path \in DOMAIN w.links

(* pathIsGoverned *)
Governed(w, path) == w.require /\ MatchesAny(path, w.include) /\ ~MatchesAny(path, w.exclude)

(* sourceFilesForCell *)
CellSources(w, c) ==
  {f \in TerritoryFiles(w) : SourceIn(w, f) /\ ~MatchesAny(f, w.exclude) /\ OwnedBy(f, w.owned[c])}

Wrong(rule, cell, path) == [rule |-> rule, cell |-> cell, path |-> path]
NoCellNamed == "no cell"

(* Patterns are texts, and a name in the tree is that of a file or of a     *)
(* link, below the root.                                                    *)
ArePathTexts(paths) == \A p \in paths : IsPathText(p)
ASSUME TerritoryAssumption ==
  \A w \in TerritoryCases :
    /\ {"owned", "public"} \subseteq DOMAIN w
    /\ \A c \in TerritoryCells(w) : ArePathTexts(w.owned[c]) /\ ArePathTexts(w.public[c])
    /\ ArePathTexts(w.include)
    /\ \A f \in w.files \cup DOMAIN w.links : NamesFile(f)
    /\ w.files \cap DOMAIN w.links = {}
ASSUME PatternAssumption ==
  /\ \A c \in PatternCases : IsPathText(c.left) /\ IsPathText(c.right)
  /\ \A f \in SamplePaths : NamesFile(f)
ASSUME TreeAssumption ==
  \A c \in TreeCases : IsListedPath(c.file) /\ ArePathTexts(c.owned) /\ ArePathTexts(c.include)

-----------------------------------------------------------------------------
(* The patterns themselves *)
ComparePatterns ==
  Asked("pattern") /\ \E c \in PatternCases :
    Take(c, [meet |-> Intersect(c.left, c.right), overlap |-> Overlaps(c.left, c.right),
             owned |-> OwnedOverlap(c.left, c.right), subset |-> Subset(c.left, c.right)])
ListTree == Asked("tree") /\ \E c \in TreeCases : Take(c, Listed(c.file, c.include \cup c.owned))

Share(p, q, paths) == \E f \in paths : Matches(f, p) /\ Matches(f, q)
Owns(p, q, paths) == \E f \in paths : OwnedBy(f, {p}) /\ OwnedBy(f, {q})

(* Where some file is matched by two patterns the automata say that they    *)
(* meet, and where some file would be owned by two cells that the owned     *)
(* paths do: neither ownership nor claims miss a shared file.               *)
OverlapSeesEveryShare ==
  Is("pattern") =>
    /\ Share(input.left, input.right, SamplePaths) => answer.meet /\ answer.overlap
    /\ Owns(input.left, input.right, SamplePaths) => answer.owned

(* Conversely, nobody is held up by an overlap that no file has; and two    *)
(* plain claimed paths overlap when the same paths would as owned ones.     *)
OverlapsAreReal ==
  Is("pattern") =>
    /\ answer.meet => Share(input.left, input.right, SamplePaths)
    /\ answer.owned => Owns(input.left, input.right, SamplePaths)
    /\ ~HasWildcard(input.left) /\ ~HasWildcard(input.right) =>
         (answer.overlap <=> answer.owned)

(* A pattern that is taken to lie within another one matches no file outside*)
(* it; claims and the ratchet rely on this.                                 *)
CoverageIsContainment ==
  Is("pattern") /\ answer.subset =>
    \A f \in SamplePaths : Matches(f, input.left) => Matches(f, input.right)

(* A file that a cell owns is seen by every check, unless it lies below a   *)
(* directory that is never entered: a generated directory is entered when a *)
(* pattern reaches into it.                                                 *)
OwnedFilesAreListed ==
  Is("tree") /\ OwnedBy(input.file, input.owned) =>
    \/ answer
    \/ \E k \in 1..(Len(input.file) - 1) : input.file[k] \in AlwaysIgnored

-----------------------------------------------------------------------------
(* Mutant: owned paths are compared as they are written. *)
OwnershipOverlapLiteral(w) ==
  UNION {{Wrong("OWNERSHIP_OVERLAP", c, p) :
            p \in {x \in w.owned[c] : \E d \in TerritoryCells(w) \ {c} : \E q \in w.owned[d] : Intersect(x, q)}} :
          c \in TerritoryCells(w)}

(* validateOwnershipOverlap, which names the earlier cell of a pair only *)
OwnershipOverlap(w) ==
  UNION {{Wrong("OWNERSHIP_OVERLAP", c, p) :
            p \in {x \in w.owned[c] : \E d \in TerritoryCells(w) \ {c} : \E q \in w.owned[d] : OwnedOverlap(x, q)}} :
          c \in TerritoryCells(w)}

(* validateOwnershipCoverage, what a cell publishes *)
OutsideOwnership(w, c) ==
  {Wrong("PUBLIC_ENTRY_OUTSIDE", c, p) : p \in {x \in {w.entry[c]} : ~OwnedBy(x, w.owned[c])}
                                             \cup {x \in w.public[c] : ~CoveredByOwned(x, w.owned[c])}}
  \cup {Wrong("ARTIFACT_OUTSIDE", c, p) :
          p \in {x \in UNION {l.paths : l \in {k \in w.lanes[c] : ~k.external}} : ~CoveredByOwned(x, w.owned[c])}}

(* validateOwnershipCoverage, the files of nobody *)
Unowned(w) ==
  {Wrong("UNOWNED_SOURCE", NoCellNamed, f) :
     f \in {x \in TerritoryFiles(w) : SourceIn(w, x) /\ Governed(w, x) /\ PathOwners(w, x) = {}}}

(* validateSymlinkTargets; every link here has a source extension, so that  *)
(* symlinkIsRelevant.                                                       *)
LinkFindings(w) ==
  {Wrong("SYMLINK_OUTSIDE", NoCellNamed, l) :
     l \in {x \in DOMAIN w.links :
              \/ w.links[x] \in {BrokenLink, Outside}
              \/ PathOwners(w, x) # {} /\ PathOwners(w, x) \cap PathOwners(w, w.links[x]) = {}}}

(* validatePublicEntries *)
EntryFindings(w, c) ==
  IF w.entry[c] \notin w.files THEN {Wrong("ENTRY_MISSING", c, w.entry[c])}
  ELSE IF w.agrees[c] THEN {} ELSE {Wrong("SYMBOL_MISMATCH", c, w.entry[c])}

TerritoryErrors(w) ==
  OwnershipOverlap(w) \cup Unowned(w) \cup LinkFindings(w)
  \cup UNION {OutsideOwnership(w, c) \cup EntryFindings(w, c) : c \in TerritoryCells(w)}

(* validateManifestPatternsMatchFiles: a plain path is a file here, not the *)
(* directory that ownership takes it for.                                   *)
DeadPatterns(w, errors) ==
  LET dead(p) == ~\E f \in TerritoryFiles(w) : Matches(f, p)
      quiet(c) == \E e \in errors : e.cell = c
      patterns(c) == w.owned[c] \cup w.public[c] \cup UNION {l.paths : l \in {k \in w.lanes[c] : ~k.external}}
  IN {Wrong("MATCHES_NOTHING", NoCellNamed, p) : p \in {x \in w.include \cup w.exclude : dead(x)}}
     \cup UNION {{Wrong("MATCHES_NOTHING", c, p) : p \in {x \in patterns(c) : dead(x) /\ ~quiet(c)}} :
                   c \in TerritoryCells(w)}

Surveyed(w, errors) == [errors |-> errors, warnings |-> DeadPatterns(w, errors)]
SurveyTerritory ==
  Asked("territory") /\ \E c \in TerritoryCases : Take(c, Surveyed(c, TerritoryErrors(c)))

-----------------------------------------------------------------------------
Peaceful == Is("territory") /\ answer.errors = {}

(* Where the check finds nothing, no file is owned by two cells, and every  *)
(* source file that ownership is required of is owned by exactly one: what  *)
(* the automata say of patterns is what the matcher says of files.          *)
OneCellPerFile ==
  Peaceful =>
    \A f \in TerritoryFiles(input) :
      /\ Cardinality(PathOwners(input, f)) <= 1
      /\ SourceIn(input, f) /\ Governed(input, f) => PathOwners(input, f) # {}

(* What the scan of a cell reads as a file of the cell is one, links        *)
(* followed: no link brings in a file of another cell or from outside.      *)
LinksStayInCell ==
  Peaceful =>
    \A c \in TerritoryCells(input) : \A f \in CellSources(input, c) :
      f \in DOMAIN input.links => input.links[f] \in input.files /\ OwnedBy(input.links[f], input.owned[c])

(* Whatever a cell makes public, file by file, is its own and exists.       *)
PublicFilesAreOwned ==
  Peaceful =>
    \A c \in TerritoryCells(input) :
      /\ input.entry[c] \in input.files /\ OwnedBy(input.entry[c], input.owned[c])
      /\ \A f \in input.files : MatchesAny(f, input.public[c]) => PathOwners(input, f) = {c}

(* A pattern with a wildcard that the check calls dead can be taken out of  *)
(* its cell, and no file changes hands; a plain path is called dead even    *)
(* where the cell owns files by it as a directory.                          *)
WarnedPatternsAreIdle ==
  Is("territory") =>
    \A e \in {x \in answer.warnings : x.cell # NoCellNamed /\ HasWildcard(x.path)} :
      LET without == [input EXCEPT !.owned[e.cell] = @ \ {e.path}] IN
      \A f \in TerritoryFiles(input) : PathOwners(without, f) = PathOwners(input, f)

-----------------------------------------------------------------------------
(* The manifest that "cellfence init" makes of a tree that has none        *)
(* (manifest-inference.ts, init-presets.ts).  Its promise is a manifest    *)
(* that the check of the same tree can start from, so that the properties  *)
(* put it to the ownership checks above.                                   *)
(*                                                                         *)
(* A tree is                                                               *)
(*   files, outOfScope  the source files, and those of them that the       *)
(*                      excludes of the scope match                        *)
(*   packages           per directory with a package.json: its name or     *)
(*                      NoName, its entries (exports, then the entry       *)
(*                      fields), the names it depends on                   *)
(*   workspaces         patterns of package.json and pnpm-workspace.yaml,  *)
(*                      negated ones left out                              *)
(*   python             pyproject.toml, setup.cfg and setup.py: [name,     *)
(*                      roots] each                                        *)
(*   imports            pairs of files, as the resolvers find them         *)
(*   hints              whether package.json counts for entries and        *)
(*                      dependencies                                       *)
(* A path is a sequence of segments; the last "character" of the name of a *)
(* file is its extension.  Names of packages are segments.                 *)

CONSTANTS
  InferCases, StarterCases,
  InferRank,   \* the place of a path under localeCompare
  IdRank,      \* the place of an id under localeCompare
  IdBase,      \* sanitizeCellId, on the names of the trees
  IdSuffixed   \* the text of an id with its number

NoName == <<>>
NoPath == <<>>
TopDirectories(names) == [i \in DOMAIN names |-> <<<<names[i]>>>>]
ContainerRoots == TopDirectories(<<"apps", "packages", "libs", "services", "systems">>)
TopLevelRoots ==
  TopDirectories(<<"api", "app", "client", "components", "contexts", "frontend", "hooks", "lib", "middleware", "pages", "routes",
                   "server", "shared", "stores", "utils", "web", "website">>)
Src == <<<<"src">>>>

Ranked(paths) ==
  [i \in 1..Cardinality(paths) |->
     CHOOSE p \in paths : Cardinality({q \in paths : InferRank[q] < InferRank[p]}) = i - 1]

Below(root, path) == IsPrefix(root, path)
ScopedFiles(t) == t.files \ t.outOfScope
HasSource(t, root) == \E f \in ScopedFiles(t) : Below(root, f) /\ root # NoPath
DirectSources(t, root) == {f \in ScopedFiles(t) : Front(f) = root}
Children(t, dir) ==
  {SubSeq(p, 1, Len(dir) + 1) : p \in {q \in {Append(f, <<>>) : f \in DOMAIN t.packages} \cup t.files :
                                         Below(dir, q) /\ Len(q) > Len(dir) + 1}}
PackageName(t, dir) == IF dir \in DOMAIN t.packages THEN t.packages[dir].name ELSE NoName

(* expandWorkspacePattern: what stands before the "*" in its segment is not *)
(* looked at.                                                               *)
After(segment) ==
  LET star == CHOOSE k \in DOMAIN segment : segment[k] = "*" /\ \A l \in 1..(k - 1) : segment[l] # "*"
  IN SubSeq(segment, star + 1, Len(segment))
ExpandAt(t, pattern, at) ==
  UNION {LET root == Append(Front(c), Last(c) \o After(pattern[at])) \o SubSeq(pattern, at + 1, Len(pattern)) IN
         IF root \in DOMAIN t.packages THEN {root}
         ELSE IF Head(Last(c)) = "@" THEN Children(t, root) \cap DOMAIN t.packages ELSE {} :
           c \in Children(t, SubSeq(pattern, 1, at - 1))}
ExpandWorkspace(t, pattern) ==
  IF ~HasWildcard(pattern) THEN {pattern}
  ELSE ExpandAt(t, pattern, CHOOSE i \in DOMAIN pattern : /\ Contains(pattern[i], "*")
                                                          /\ \A j \in 1..(i - 1) : ~Contains(pattern[j], "*"))

(* packageLikeRootsInContainer *)
ContainerPackages(t, container) ==
  UNION {IF Head(Last(c)) = "@" /\ c \notin DOMAIN t.packages THEN Children(t, c) ELSE {c} : c \in Children(t, container)}

(* sourceRootForWorkspace *)
WorkspaceSource(t, dir) ==
  CASE dir \notin DOMAIN t.packages -> NoPath
    [] HasSource(t, dir \o Src) -> dir \o Src
    [] DirectSources(t, dir) # {} -> dir
    [] OTHER -> NoPath

(* sourceRootForPackageLikeRoot *)
PackageSource(t, dir) ==
  IF HasSource(t, dir) /\ WorkspaceSource(t, dir) = NoPath THEN dir ELSE WorkspaceSource(t, dir)

-----------------------------------------------------------------------------
(* Where cells may lie, in the order in which they are looked for.          *)
Offer(root, hint, name, package) == [root |-> root, hint |-> hint, name |-> name, package |-> package]
EachOf(seq, offered(_)) == [i \in DOMAIN seq |-> offered(seq[i])]
OfferAll(paths, offered(_)) == EachOf(Ranked(paths), offered)
Flattened(seqs) == FoldLeft(LAMBDA done, s : done \o s, <<>>, seqs)

WorkspaceOffers(t) ==
  Flattened(OfferAll(t.workspaces, LAMBDA w :
    OfferAll(ExpandWorkspace(t, w),
             LAMBDA d : Offer(WorkspaceSource(t, d), IF d = NoPath THEN <<".">> ELSE Last(d), PackageName(t, d), {d}))))

ContainerOffers(t) ==
  Flattened(EachOf(ContainerRoots, LAMBDA r :
    OfferAll(ContainerPackages(t, r), LAMBDA d : Offer(PackageSource(t, d), Last(d), PackageName(t, d), {d}))))

(* pythonImportPackageName *)
ImportName(name) == [i \in DOMAIN name |-> IF name[i] \in {"-", "."} THEN "_" ELSE name[i]]

(* pythonProjectName *)
ProjectName(t) ==
  FoldLeft(LAMBDA found, p : IF found # NoName THEN found ELSE p.name, NoName, t.python)

(* pythonPackagingSourceRoots *)
PythonRoots(t) ==
  (UNION {t.python[i].roots : i \in DOMAIN t.python}) \cup {NoPath}
  \cup {Src : x \in {f \in t.files : Below(Src, f)}}

IsPython(f) == Last(Last(f)) = ".py"
(* pythonPackageRootsInSourceRoot *)
PythonPackages(t, root) ==
  {c \in Children(t, root) :
     /\ root # NoPath /\ Head(Last(c)) # "." /\ HasSource(t, c)
     /\ \/ Append(c, <<"__init__", ".py">>) \in t.files
        \/ \E f \in DirectSources(t, c) : IsPython(f)}

PythonOffersIn(t, root, name, project) ==
  (IF name # NoName /\ HasSource(t, project) THEN <<Offer(project, name, name, {root})>> ELSE <<>>)
  \o OfferAll(PythonPackages(t, root),
              LAMBDA d : Offer(d, Last(d), IF name # NoName /\ Last(d) = Last(project) THEN name ELSE NoName, {root}))

PythonOffers(t) ==
  Flattened(OfferAll(PythonRoots(t),
                     LAMBDA r : PythonOffersIn(t, r, ProjectName(t), Append(r, ImportName(ProjectName(t))))))

SourceOffers(t) ==
  OfferAll({c \in Children(t, Src) : HasSource(t, c)}, LAMBDA d : Offer(d, Last(d), NoName, {}))

TopLevelOffers(t) ==
  [i \in DOMAIN TopLevelRoots |->
     Offer(IF HasSource(t, TopLevelRoots[i]) THEN TopLevelRoots[i] ELSE NoPath, Last(TopLevelRoots[i]), NoName, {NoPath})]

-----------------------------------------------------------------------------
(* existingPackageEntry, publicEntryFromPackageJson *)
PackageEntries(t, root, package) ==
  Flattened(OfferAll({d \in package : t.hints /\ d \in DOMAIN t.packages}, LAMBDA d :
    EachOf(SelectSeq(t.packages[d].entries,
                   LAMBDA e : Head(e) # DotDot /\ d \o e \in ScopedFiles(t) /\ Below(root, d \o e)), LAMBDA e : d \o e)))

FirstRanked(paths) == Ranked(paths)[1]
EntryNames == <<<<"public", ".ts">>, <<"public", ".py">>, <<"index", ".ts">>, <<"__init__", ".py">>, <<"api", ".py">>, <<"main", ".py">>>>

(* publicEntryForCandidateRoot, publicEntryForRoot *)
InferredEntry(t, root, package) ==
  Head(PackageEntries(t, root, package)
       \o SelectSeq(EachOf(EntryNames, LAMBDA n : Append(root, n)), LAMBDA f : f \in ScopedFiles(t))
       \o <<FirstRanked({f \in ScopedFiles(t) : Below(root, f)})>>)

(* uniqueId *)
UniqueId(base, used) ==
  LET free == {k \in 1..(Cardinality(used) + 1) : IdSuffixed[<<base, k>>] \notin used}
  IN IdSuffixed[<<base, CHOOSE k \in free : \A l \in free : k <= l>>]

IdsOf(cells) == {cells[i].id : i \in DOMAIN cells}

(* addCandidate, createCandidate *)
AddCandidate(t, cells, o) ==
  IF o.root = NoPath \/ \E i \in DOMAIN cells : cells[i].root = o.root THEN cells
  ELSE Append(cells,
         [id |-> UniqueId(IdBase[IF o.name = NoName THEN o.hint ELSE o.name], IdsOf(cells)), root |-> o.root,
          owned |-> {Append(o.root, Globstar)}, entry |-> InferredEntry(t, o.root, o.package), name |-> o.name,
          package |-> o.package])

(* The cell of the files that lie directly in src *)
SourceRootEntry(direct) ==
  IF \E f \in direct : Last(f) \in {<<"public", ".ts">>, <<"index", ".ts">>}
    THEN FirstRanked({f \in direct : Last(f) \in {<<"public", ".ts">>, <<"index", ".ts">>}}) ELSE FirstRanked(direct)
AddSourceRoot(t, cells) ==
  IF DirectSources(t, Src) = {} THEN cells
  ELSE Append(cells, [id |-> UniqueId("src-root", IdsOf(cells)), root |-> Src, owned |-> {Append(Src, <<"*">>)},
                      entry |-> SourceRootEntry(DirectSources(t, Src)), name |-> NoName, package |-> {NoPath}])

(* ownedPathsOutsideChildRoots *)
OutsideChildren(t, root, children) ==
  {IF Len(f) = Len(root) + 1 THEN Append(root, <<"*">>) ELSE SubSeq(f, 1, Len(root) + 1) \o <<Globstar>> :
     f \in {x \in ScopedFiles(t) : Below(root, x) /\ Len(x) > Len(root) /\ ~\E c \in children : Below(c, x)}}

ChildRoots(cells, c) == {d.root : d \in {x \in cells : x.id # c.id /\ Below(c.root, x.root)}}

(* narrowAncestorCandidates *)
Narrowed(t, c, owned) ==
  IF owned = {} THEN {}
  ELSE {[c EXCEPT !.owned = owned,
                  !.entry = IF MatchesAny(@, owned) THEN @ ELSE FirstRanked({f \in ScopedFiles(t) : MatchesAny(f, owned)})]}
Narrow(t, cells, c) ==
  IF ChildRoots(cells, c) = {} THEN {c} ELSE Narrowed(t, c, OutsideChildren(t, c.root, ChildRoots(cells, c)))
NarrowAll(t, cells) == UNION {Narrow(t, cells, c) : c \in cells}

(* removeAmbiguousPackageNames *)
Named(cells) ==
  {[c EXCEPT !.name = IF \E d \in cells : d # c /\ d.name = c.name THEN NoName ELSE @] : c \in cells}

(* discoverCandidates *)
Offers(t) == WorkspaceOffers(t) \o ContainerOffers(t) \o PythonOffers(t) \o SourceOffers(t) \o TopLevelOffers(t)
AddAll(t, offers) == FoldLeft(LAMBDA done, o : AddCandidate(t, done, o), <<>>, offers)
Discover(t) == Named(NarrowAll(t, ToSet(AddSourceRoot(t, AddAll(t, Offers(t))))))

OwnersAmong(cells, f) == {c \in cells : MatchesAny(f, c.owned)}

(* ownerForPath: the first one in the order of the ids *)
OwnerForPath(cells, f) ==
  {c \in OwnersAmong(cells, f) : \A d \in OwnersAmong(cells, f) : IdRank[c.id] <= IdRank[d.id]}

(* inferredConsumes *)
InferredConsumes(t, cells, c) ==
  {d.id : d \in {x \in cells \ {c} :
     \/ t.hints /\ \E p \in c.package : p \in DOMAIN t.packages /\ x.name # NoName /\ x.name \in t.packages[p].deps
     \/ \E e \in t.imports : e[1] \in ScopedFiles(t) /\ c \in OwnersAmong(cells, e[1]) /\ x \in OwnerForPath(cells, e[2])}}

ExampleCell ==
  [id |-> "example", root |-> Src \o <<<<"example">>>>, owned |-> {Src \o <<<<"example">>, Globstar>>}, entry |-> Src \o <<<<"example">>, <<"public", ".ts">>>>,
   name |-> NoName, consumes |-> {}]

(* manifestFromCandidatesWithOptions, inferManifest *)
Inferred(t, cells) ==
  [cells |-> IF cells = {} THEN {ExampleCell}
             ELSE {[id |-> c.id, root |-> c.root, owned |-> c.owned, entry |-> c.entry, name |-> c.name,
                    consumes |-> InferredConsumes(t, cells, c)] : c \in cells},
   include |-> IF cells = {} THEN {Append(Src, Globstar)}
               ELSE {IF Head(p) = Head(Src) THEN Append(Src, Globstar) ELSE p : p \in UNION {c.owned : c \in cells}},
   exclude |-> t.outOfScope]

InferManifest == Asked("init") /\ \E t \in InferCases : Take(t, Inferred(t, Discover(t)))

-----------------------------------------------------------------------------
(* init-presets.ts: the files a preset brings, and its cells [entry, owned].*)
PyPublic == <<"public", ".py">>
TsPublic == <<"public", ".ts">>
PresetCells ==
  [python |-> [api |-> <<<<"src">>, <<"api">>>>, domain |-> <<<<"src">>, <<"domain">>>>, infra |-> <<<<"src">>, <<"infra">>>>],
   polyglot |-> [api |-> <<<<"services">>, <<"api">>, <<"src">>>>, shared |-> <<<<"packages">>, <<"shared">>, <<"src">>>>,
                 web |-> <<<<"packages">>, <<"web">>, <<"src">>>>]]
PresetEntry(preset, c) == Append(PresetCells[preset][c], IF preset = "python" \/ c = "api" THEN PyPublic ELSE TsPublic)
PresetFiles(preset) ==
  {PresetEntry(preset, c) : c \in DOMAIN PresetCells[preset]}
  \cup (IF preset = "python" THEN {<<<<"src">>, <<"api">>, <<"routes", ".py">>>>} ELSE {})

(* writeStarterFile *)
WriteStarter(preset, existing) == [f \in existing \cup PresetFiles(preset) |-> IF f \in existing THEN "theirs" ELSE "starter"]

(* pythonServicePreset, polyglotMonorepoPreset; "theirs" has other symbols. *)
PresetTerritory(preset, contents) ==
  LET cells == DOMAIN PresetCells[preset] IN
  [files |-> DOMAIN contents, source |-> DOMAIN contents, links |-> <<>>,
   owned |-> [c \in cells |-> {Append(PresetCells[preset][c], Globstar)}],
   public |-> [c \in cells |-> {}], lanes |-> [c \in cells |-> {}], entry |-> [c \in cells |-> PresetEntry(preset, c)],
   agrees |-> [c \in cells |-> contents[PresetEntry(preset, c)] = "starter"],
   require |-> TRUE, exclude |-> {},
   include |-> IF preset = "python" THEN {<<<<"src">>, Globstar>>} ELSE {<<<<"packages">>, Globstar>>, <<<<"services">>, Globstar>>}]

StartFromPreset ==
  Asked("starter") /\ \E c \in StarterCases : Take(c, WriteStarter(c.preset, c.existing))

-----------------------------------------------------------------------------
(* The inferred manifest, as the check of the same tree takes it *)
FreshTerritory(t, m) ==
  LET ids == {c.id : c \in m.cells}
      cell(i) == CHOOSE c \in m.cells : c.id = i
  IN [files |-> t.files, source |-> t.files, links |-> <<>>, owned |-> [i \in ids |-> cell(i).owned],
      public |-> [i \in ids |-> {}], lanes |-> [i \in ids |-> {}], entry |-> [i \in ids |-> cell(i).entry],
      agrees |-> [i \in ids |-> TRUE], require |-> TRUE, include |-> m.include, exclude |-> m.exclude]

(* A workspace of the whole repository whose sources are in src competes    *)
(* with the cell of the files directly in src: each takes the other for its *)
(* child, and both are left out.                                            *)
Competing(t) == NoPath \in t.workspaces /\ NoPath \in DOMAIN t.packages

(* A directory directly below a root that holds another root and other      *)
(* files besides: the cell of the outer root keeps all of it.               *)
SharedDirectories(m) ==
  UNION {{Front(p) : p \in {q \in c.owned : Last(q) = Globstar /\ Front(q) # c.root
                                            /\ \E d \in m.cells \ {c} : Below(Front(q), d.root)}} : c \in m.cells}

Excused(t, m, e) ==
  \/ e.rule = "OWNERSHIP_OVERLAP" /\ \E d \in SharedDirectories(m) : Below(d, e.path)
  \/ e.rule = "UNOWNED_SOURCE" /\ Competing(t) /\ Below(Src, e.path)

(* The check of a tree with the manifest just inferred from it finds every  *)
(* governed file owned, by one cell, every cell with an entry of its own,   *)
(* and every import across cells declared; the names of the packages are    *)
(* unique.                                                                  *)
FreshManifestStands ==
  Is("init") /\ answer.cells # {ExampleCell} =>
    /\ \A c, d \in answer.cells : (c.id = d.id \/ (c.name # NoName /\ c.name = d.name)) => c = d
    /\ \A e \in TerritoryErrors(FreshTerritory(input, answer)) : Excused(input, answer, e)
    /\ \A i \in input.imports : \A c, d \in answer.cells :
         i[1] \in ScopedFiles(input) /\ c \in OwnersAmong(answer.cells, i[1]) /\ OwnersAmong(answer.cells, i[2]) = {d} =>
           c = d \/ d.id \in c.consumes

(* No preset touches a file that is there, and where there was none the     *)
(* check of what it starts with finds nothing.                              *)
StarterStands ==
  Is("starter") =>
    /\ \A f \in input.existing : answer[f] = "theirs"
    /\ \A e \in TerritoryErrors(PresetTerritory(input.preset, answer)) : e.path \in input.existing
=============================================================================
