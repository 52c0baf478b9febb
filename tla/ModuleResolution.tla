---------------------------- MODULE ModuleResolution ----------------------------
(***************************************************************************)
(* From a module specifier to a file (module-resolution.ts): candidate     *)
(* files, path aliases, the exports and imports maps of packages, the      *)
(* public symbols of an entry file and the files that make up its surface. *)
(*                                                                         *)
(* A text is a sequence of characters; the one character "*" of a map key  *)
(* or an alias is its wildcard.  An entry of a package map is              *)
(*   [kind |-> "null"], [kind |-> "path", path |-> text],                  *)
(*   [kind |-> "list", items |-> <<entry, ...>>] or                        *)
(*   [kind |-> "conditions", branches |-> <<[on, entry], ...>>].           *)
(***************************************************************************)
EXTENDS Cases, Naturals, FiniteSets, Sequences, SequencesExt

CONSTANTS
  SignatureCases,   \* [before, after], two versions of a package
  SurfaceOrder      \* its files in the order of their paths

Null == [kind |-> "null"]
NoTarget == [kind |-> "undefined"]
PathTo(text) == [kind |-> "path", path |-> text]

(* packageConditions *)
Conditions(mode) == IF mode = "require" THEN {"node", "require", "default"}
                    ELSE {"node", "import", "default"}

FirstDefined(targets) ==
  IF \E i \in DOMAIN targets : targets[i] # NoTarget
    THEN targets[SelectInSeq(targets, LAMBDA t : t # NoTarget)] ELSE NoTarget

(* packageMapEntryTarget: a list passes over its nulls and remembers them;  *)
(* the first active condition that leads anywhere wins, "types" before all  *)
(* others when types are asked for.                                         *)
RECURSIVE EntryTarget(_, _)
EntryTarget(entry, mode) ==
  CASE entry.kind \in {"null", "path"} -> entry
    [] entry.kind = "list" ->
         LET targets == [i \in DOMAIN entry.items |-> EntryTarget(entry.items[i], mode)]
             paths == SelectSeq(targets, LAMBDA t : t.kind = "path")
         IN IF paths # <<>> THEN Head(paths) ELSE FirstDefined(targets)
    [] entry.kind = "conditions" ->
         LET on(names) == SelectSeq(entry.branches, LAMBDA b : b.on \in names)
             taken == (IF mode = "types" THEN on({"types"}) ELSE <<>>) \o on(Conditions(mode))
         IN FirstDefined([i \in DOMAIN taken |-> EntryTarget(taken[i].entry, mode)])

-----------------------------------------------------------------------------
(* Patterns with one wildcard *)

HasStar(text) == Contains(text, "*")
Prefix(text) == SubSeq(text, 1, SelectInSeq(text, LAMBDA c : c = "*") - 1)
Suffix(text) == SubSeq(text, SelectInSeq(text, LAMBDA c : c = "*") + 1, Len(text))

Fits(pattern, text) == IsPrefix(Prefix(pattern), text) /\ IsSuffix(Suffix(pattern), text)

(* What the wildcard stands for; nothing where prefix and suffix meet.      *)
Captured(pattern, text) ==
  SubSeq(text, Len(Prefix(pattern)) + 1, Len(text) - Len(Suffix(pattern)))

Fill(text, value) == FlattenSeq([i \in DOMAIN text |-> IF text[i] = "*" THEN value ELSE <<text[i]>>])

(* The longer prefix comes first, then the longer suffix. *)
Before(p, q) ==
  \/ Len(Prefix(p)) > Len(Prefix(q))
  \/ Len(Prefix(p)) = Len(Prefix(q)) /\ Len(Suffix(p)) > Len(Suffix(q))

(* Mutant: an excluded subpath lets the shorter patterns have their say.    *)
MapTargetPastNull(map, specifier, mode) ==
  LET fit == {i \in DOMAIN map : HasStar(map[i].key) /\ Fits(map[i].key, specifier)}
      order == SetToSortSeq(fit, LAMBDA i, j : Before(map[i].key, map[j].key) \/
                                   (~Before(map[j].key, map[i].key) /\ i < j))
      targets == [k \in DOMAIN order |->
                    LET t == EntryTarget(map[order[k]].entry, mode)
                    IN IF t.kind = "path" THEN PathTo(Fill(t.path, Captured(map[order[k]].key, specifier)))
                       ELSE NoTarget]
  IN IF \E i \in DOMAIN map : map[i].key = specifier
       THEN EntryTarget(map[SelectInSeq(map, LAMBDA e : e.key = specifier)].entry, mode)
     ELSE FirstDefined(targets)

(* packageMapTarget on a map with the keys of subpaths: the entry of that   *)
(* very key, or else of the patterns it fits in their order, until one of   *)
(* them leads to a target or excludes the subpath.                          *)
MapTarget(map, specifier, mode) ==
  LET fit == {i \in DOMAIN map : HasStar(map[i].key) /\ Fits(map[i].key, specifier)}
      order == SetToSortSeq(fit, LAMBDA i, j : Before(map[i].key, map[j].key) \/
                                   (~Before(map[j].key, map[i].key) /\ i < j))
      targets == [k \in DOMAIN order |->
                    LET t == EntryTarget(map[order[k]].entry, mode)
                    IN IF t.kind = "path" THEN PathTo(Fill(t.path, Captured(map[order[k]].key, specifier)))
                       ELSE t]
  IN IF \E i \in DOMAIN map : map[i].key = specifier
       THEN EntryTarget(map[SelectInSeq(map, LAMBDA e : e.key = specifier)].entry, mode)
     ELSE FirstDefined(targets)

(* resolvePackageExportTarget, for a specifier of this package: "files" are *)
(* the files inside the package, and exports may be absent.                 *)
NoExports == [kind |-> "absent", map |-> <<>>]
ExportTarget(exports, specifier, mode, files) ==
  LET target == MapTarget(exports.map, specifier, mode)
      state(s, exported, detail) == [state |-> s, exported |-> exported, detail |-> detail]
  IN IF exports = NoExports THEN state("NOT_EXPORTED_PRIVATE", FALSE, "no map")
     ELSE CASE target = Null -> state("NOT_EXPORTED_PRIVATE", FALSE, "excluded")
            [] target = NoTarget -> state("NOT_EXPORTED_PRIVATE", FALSE, "not declared")
            [] OTHER -> IF Head(target.path) = "." /\ target.path \in files
                          THEN state("PUBLIC_RESOLVED", TRUE, target.path)
                          ELSE state("PUBLIC_DECLARED_GENERATED_TARGET_MISSING", TRUE, "missing")

(* What Node makes of an entry (PACKAGE_TARGET_RESOLVE), from its own rules:*)
(* a target is written from the package; of the branches of an object the   *)
(* first counts that is active and leads anywhere; of a list the first      *)
(* target, or else the last failure.  TypeScript reads maps in this way too,*)
(* with one more condition active for types.                                *)
Broken == [kind |-> "invalid"]
Active(on, mode) ==
  \/ on \in {"node", "default"}
  \/ on = "require" /\ mode = "require"
  \/ on = "import" /\ mode # "require"
  \/ on = "types" /\ mode = "types"

RECURSIVE NodeEntry(_, _)
NodeEntry(entry, mode) ==
  LET branch(i) == NodeEntry(entry.branches[i].entry, mode)
      item(i) == NodeEntry(entry.items[i], mode)
      open == {i \in DOMAIN entry.branches : Active(entry.branches[i].on, mode) /\ branch(i) # NoTarget}
      led == {i \in DOMAIN entry.items : item(i).kind = "path"}
      failed == {i \in DOMAIN entry.items : item(i) \in {Null, Broken}}
  IN CASE entry.kind = "null" -> Null
       [] entry.kind = "path" -> IF Head(entry.path) = "." THEN entry ELSE Broken
       [] entry.kind = "conditions" -> IF open = {} THEN NoTarget ELSE branch(Min(open))
       [] entry.kind = "list" -> IF led # {} THEN item(Min(led))
                                 ELSE IF failed # {} THEN item(Max(failed)) ELSE NoTarget

(* ... and of the map (PACKAGE_IMPORTS_EXPORTS_RESOLVE): only the best      *)
(* pattern counts, and its wildcard stands for at least one character.      *)
NodeFits(pattern, text) ==
  /\ HasStar(pattern) /\ Fits(pattern, text)
  /\ Len(text) > Len(Prefix(pattern)) + Len(Suffix(pattern))
Fitting(map, specifier) == {e \in Range(map) : NodeFits(e.key, specifier)}
Declared(map, specifier) == {e \in Range(map) : e.key = specifier}
NodeTarget(map, specifier, mode) ==
  IF Declared(map, specifier) # {}
    THEN NodeEntry((CHOOSE e \in Declared(map, specifier) : TRUE).entry, mode)
  ELSE IF Fitting(map, specifier) = {} THEN NoTarget
  ELSE LET best == CHOOSE e \in Fitting(map, specifier) :
                     \A f \in Fitting(map, specifier) \ {e} :
                       \/ Len(Prefix(f.key)) < Len(Prefix(e.key))
                       \/ Len(Prefix(f.key)) = Len(Prefix(e.key)) /\ Len(f.key) < Len(e.key)
           target == NodeEntry(best.entry, mode)
       IN IF target.kind = "path" THEN PathTo(Fill(target.path, Captured(best.key, specifier)))
          ELSE target

(* Where the two differ.  The code goes on to a shorter pattern when no     *)
(* condition of the best one is active; it lets a wildcard stand for        *)
(* nothing; it takes a target of a list that Node passes over as invalid;   *)
(* and "types" comes first for it wherever it is written.                   *)
RECURSIVE Orderly(_, _)
Orderly(entry, mode) ==
  CASE entry.kind = "list" ->
         \A i \in DOMAIN entry.items :
           Orderly(entry.items[i], mode) /\ NodeEntry(entry.items[i], mode) # Broken
    [] entry.kind = "conditions" ->
         \A i \in DOMAIN entry.branches :
           Orderly(entry.branches[i].entry, mode) /\ (mode = "types" /\ entry.branches[i].on = "types" => i = 1)
    [] OTHER -> TRUE
ReadAlike(map, specifier, mode) ==
  /\ \A e \in Range(map) : Orderly(e.entry, mode)
  /\ \A e \in Range(map) : HasStar(e.key) /\ Fits(e.key, specifier) => NodeFits(e.key, specifier)
  /\ NodeTarget(map, specifier, mode) = NoTarget /\ Declared(map, specifier) = {} =>
       Cardinality(Fitting(map, specifier)) <= 1

-----------------------------------------------------------------------------
(* Files: [stem, ext, index], index for a file "index" in the directory.    *)

SourceExts == <<".ts", ".tsx", ".js", ".jsx", ".mts", ".cts", ".mjs", ".cjs", ".py">>
DeclarationExts == <<".d.ts", ".d.mts", ".d.cts">>
RuntimeSources == [x \in {".js", ".jsx", ".mjs", ".cjs"} |->
  CASE x = ".js" -> <<".ts", ".tsx", ".js", ".jsx">> [] x = ".jsx" -> <<".tsx", ".jsx">>
    [] x = ".mjs" -> <<".mts", ".mjs">> [] x = ".cjs" -> <<".cts", ".cjs">>]
DeclarationSources == [x \in {".d.ts", ".d.mts", ".d.cts"} |->
  CASE x = ".d.ts" -> <<".ts", ".tsx">> [] x = ".d.mts" -> <<".mts">> [] x = ".d.cts" -> <<".cts">>]
ExactExts == Range(SourceExts) \cup {".css", ".json"}

File(stem, ext, index) == [stem |-> stem, ext |-> ext, index |-> index]
WithExts(stem, exts, index) == [i \in DOMAIN exts |-> File(stem, exts[i], index)]

(* candidateModulePaths; an extension it does not know is part of the stem. *)
Candidates(base) ==
  <<base>> \o
  CASE base.ext \in DOMAIN DeclarationSources -> WithExts(base.stem, DeclarationSources[base.ext], FALSE)
    [] base.ext \in DOMAIN RuntimeSources -> WithExts(base.stem, RuntimeSources[base.ext], FALSE)
    [] base.ext \in ExactExts -> <<>>
    [] OTHER -> WithExts(base.stem, SourceExts \o DeclarationExts, FALSE) \o
                WithExts(base.stem, SourceExts \o DeclarationExts, TRUE)

NoFile == File("none", "", FALSE)

(* existingFileFromCandidates *)
Existing(candidates, files) ==
  IF \E i \in DOMAIN candidates : candidates[i] \in files
    THEN candidates[SelectInSeq(candidates, LAMBDA c : c \in files)] ELSE NoFile

(* resolveRelativeImport, resolveLocalModuleFile *)
ResolveFile(base, files) == Existing(Candidates(base), files)

(* resolvePathAliasTarget: every alias that fits, best first, and every     *)
(* target of it, until one is a file.  An alias is [pattern, targets].      *)
AliasTarget(aliases, specifier, files) ==
  LET fits(i) == IF HasStar(aliases[i].pattern) THEN Fits(aliases[i].pattern, specifier)
                 ELSE aliases[i].pattern = specifier
      weight(i) == IF HasStar(aliases[i].pattern)
                     THEN <<Len(Prefix(aliases[i].pattern)), Len(Suffix(aliases[i].pattern))>>
                     ELSE <<Len(specifier), Len(specifier)>>
      before(i, j) == \/ weight(i)[1] > weight(j)[1]
                      \/ weight(i)[1] = weight(j)[1] /\ weight(i)[2] > weight(j)[2]
      order == SetToSortSeq({i \in DOMAIN aliases : fits(i)},
                            LAMBDA i, j : before(i, j) \/ (~before(j, i) /\ i < j))
      value(i) == IF HasStar(aliases[i].pattern) THEN Captured(aliases[i].pattern, specifier) ELSE <<>>
      bases == FlattenSeq([k \in DOMAIN order |->
                 [t \in DOMAIN aliases[order[k]].targets |->
                    File(Fill(aliases[order[k]].targets[t], value(order[k])), "", FALSE)]])
      led == SelectSeq(bases, LAMBDA b : ResolveFile(b, files) # NoFile)
  IN IF led = <<>> THEN NoFile ELSE ResolveFile(led[1], files)

-----------------------------------------------------------------------------
(* The surface of an entry file.  A tree gives for each file its own        *)
(* exports, the files it re-exports with "export *" or "export ... from",   *)
(* and those it imports types from; a specifier that leads nowhere is absent.*)

(* A depth-first walk over the files with a set of visited files that all   *)
(* branches share: the files in the order they are first met.               *)
RECURSIVE Walk(_, _, _)
Walk(Next(_), todo, visited) ==
  IF todo = <<>> THEN visited
  ELSE IF Contains(visited, Head(todo)) THEN Walk(Next, Tail(todo), visited)
  ELSE Walk(Next, Next(Head(todo)) \o Tail(todo), Append(visited, Head(todo)))

(* extractPublicSymbols *)
PublicSymbols(tree, entry) ==
  LET reached == Range(Walk(LAMBDA f : tree[f].stars, <<entry>>, <<>>))
  IN tree[entry].exports \cup UNION {tree[f].exports \ {"default"} : f \in reached \ {entry}}

(* collectPublicDeclarationRoots: the files whose declarations are hashed.  *)
DeclarationRoots(tree, entry) ==
  Walk(LAMBDA f : LET file == tree[f] IN file.stars \o file.named \o file.types, <<entry>>, <<>>)

-----------------------------------------------------------------------------
(* The signature of a surface.  A package is [files, dirs]; dirs are the    *)
(* directories from that of the entry outwards, each [package, aliases,     *)
(* git]: the "imports" and "exports" of its package.json and the "paths" of *)
(* its tsconfig.json, as functions from names to files, where there are any.*)
(* A file is [form, emits, decls, links]: ".ts" or ".d.ts"; whether a       *)
(* declaration can be emitted for it at all; its declarations               *)
(*   [name, kind, type, written, detail, exported, internal],               *)
(* where the type, if it is not written, is inferred by the compiler; and   *)
(* its links [kind: "star" | "from" | "type" | "import", to, name], where   *)
(* to is [form: "relative" | "hash" | "self" | "bare", name].               *)

Absent == "absent"

(* nearestPackageInfo; findNearestTsConfig does not look beyond a .git.      *)
(* Where there is none, the answer is empty.                                *)
NearestPackage(dirs) ==
  LET i == SelectInSeq(dirs, LAMBDA d : d.package # <<>>) IN IF i = 0 THEN <<>> ELSE dirs[i].package
NearestAliases(dirs) ==
  LET i == SelectInSeq(dirs, LAMBDA d : d.aliases # <<>> \/ d.git) IN IF i = 0 THEN <<>> ELSE dirs[i].aliases

(* resolvePackageImportsFile, resolvePackageSelfSubpathFile: a subpath that *)
(* the exports do not mention is looked for under its own name.             *)
PackageTargets(package, to) ==
  CASE to.form = "hash" /\ to.name \in DOMAIN package.imports -> <<package.imports[to.name]>>
    [] to.form = "self" -> <<IF to.name \in DOMAIN package.exports THEN package.exports[to.name] ELSE to.name>>
    [] OTHER -> <<>>

(* resolveProjectModuleFile *)
Resolved(p, to) ==
  LET local == IF to.form = "relative" THEN <<to.name>> ELSE <<>>
      packages == NearestPackage(p.dirs)
      aliased == SelectSeq(NearestAliases(p.dirs), LAMBDA aliases : to.name \in DOMAIN aliases)
      tried == local \o FlattenSeq([i \in DOMAIN packages |-> PackageTargets(packages[i], to)])
                     \o [i \in DOMAIN aliased |-> aliased[i][to.name]]
      led == SelectSeq(tried, LAMBDA f : f \in DOMAIN p.files)
  IN IF led = <<>> THEN Absent ELSE Head(led)

PublicDecls(file) == {d \in file.decls : d.exported /\ ~d.internal}

LinkedTree(p) ==
  [f \in DOMAIN p.files |->
    LET links(kind) == SetToSeq({Resolved(p, l.to) : l \in {l \in p.files[f].links : l.kind = kind}} \ {Absent})
    IN [exports |-> {d.name : d \in PublicDecls(p.files[f])} \cup
                    {l.name : l \in {l \in p.files[f].links : l.kind = "from"}},
        stars |-> links("star"), named |-> links("from"), types |-> links("type")]]

(* What of a declaration is in its text; a type that is not written is any. *)
DeclarationText(d) == [name |-> d.name, kind |-> d.kind, detail |-> d.detail,
              type |-> IF d.written THEN d.type ELSE "any"]

(* The declarations of a file that the public ones name as their type.      *)
NamedTypes(file) == {d.type : d \in {d \in PublicDecls(file) : d.written}}

(* declarationTextForRoot: what the compiler makes of a source file without *)
(* its internal declarations; a declaration file is taken as it is.         *)
RootText(file) ==
  LET kept == {d \in file.decls : ~d.internal /\ (file.form = ".d.ts" \/ d.exported \/ d.name \in NamedTypes(file))}
      links == {l \in file.links : file.form = ".d.ts" \/ l.kind \in {"star", "from"} \/ l.name \in NamedTypes(file)}
  IN [decls |-> {DeclarationText(d) : d \in kept}, links |-> links]

(* declarationPublicSurfaceSignatureParts: the texts in the order of the    *)
(* paths, which are not part of them; a file without a text is left out.    *)
DeclarationParts(p, roots) ==
  LET emitted == SelectSeq(SurfaceOrder, LAMBDA f : f \in roots /\ p.files[f].emits)
  IN [i \in DOMAIN emitted |-> RootText(p.files[emitted[i]])]

Substantive(text) == text.decls # {} \/ text.links # {}

(* syntaxPublicSurfaceSignatureParts: of the entry file only.                *)
SyntaxPart(d) ==
  [name |-> d.name, kind |-> d.kind, type |-> IF d.written THEN d.type ELSE "",
   detail |-> IF d.kind = "interface" THEN d.detail ELSE ""]
SyntaxParts(file) ==
  [decls |-> {SyntaxPart(d) : d \in PublicDecls(file)},
   links |-> {IF l.kind = "star" THEN l.to.name ELSE l.name : l \in {l \in file.links : l.kind \in {"star", "from"}}}]

(* publicSurfaceHash of the entry "index". *)
Signature(p) ==
  LET parts == DeclarationParts(p, Range(DeclarationRoots(LinkedTree(p), "index")))
  IN IF \E i \in DOMAIN parts : Substantive(parts[i])
       THEN [way |-> "dts", parts |-> parts]
       ELSE [way |-> "syntax", parts |-> <<SyntaxParts(p.files["index"])>>]

SignSurface ==
  Asked("signature") /\ \E c \in SignatureCases : Take(c, [before |-> Signature(c.before), after |-> Signature(c.after)])

(* What a user of the entry gets: the declarations, with the type that the  *)
(* compiler finds for them, whichever files they and their types are in.    *)
TypeFrom(p, f, name) ==
  {d \in PublicDecls(p.files[f]) \cup {d \in p.files[f].decls : ~d.internal} : d.name = name} \cup
  UNION {{d \in PublicDecls(p.files[Resolved(p, l.to)]) : d.name = name} :
           l \in {l \in p.files[f].links : l.kind \in {"type", "import"} /\ l.name = name /\ Resolved(p, l.to) # Absent}}
Got(p, f, d) ==
  [name |-> d.name, kind |-> d.kind, type |-> d.type, detail |-> d.detail,
   of |-> {[kind |-> t.kind, type |-> t.type, detail |-> t.detail] : t \in TypeFrom(p, f, d.type)}]
Seen(p) ==
  LET tree == LinkedTree(p)
      starred == Range(Walk(LAMBDA f : tree[f].stars, <<"index">>, <<>>))
      from(f) == {l \in p.files[f].links : l.kind = "from" /\ Resolved(p, l.to) # Absent}
  IN UNION {{Got(p, f, d) : d \in PublicDecls(p.files[f])} \cup
            UNION {{Got(p, Resolved(p, l.to), d) : d \in {d \in PublicDecls(p.files[Resolved(p, l.to)]) : d.name = l.name}} : l \in from(f)} :
              f \in starred}

(* All types are written, are imported by "import type" where they come     *)
(* from another file, and the compiler can emit every file.                 *)
Explicit(p) ==
  \A f \in DOMAIN p.files :
    /\ p.files[f].emits /\ \A d \in p.files[f].decls : d.written
    /\ \A l \in p.files[f].links : l.kind # "import"

SameTargets(p, q) ==
  \A l \in UNION {p.files[f].links : f \in DOMAIN p.files} : Resolved(p, l.to) = Resolved(q, l.to)

(* Two versions of a package with one signature give their users the same   *)
(* declarations, types that come from other files included, as long as all  *)
(* types are explicit and no alias or package map moved a link elsewhere.   *)
SignatureTellsChanges ==
  Is("signature") /\ answer.before = answer.after /\ SameTargets(input.before, input.after) =>
    /\ Explicit(input.before) /\ Explicit(input.after) => Seen(input.before) = Seen(input.after)
    /\ (\A f \in DOMAIN input.before.files : input.before.files[f].emits /\ input.after.files[f].emits) =>
         PublicSymbols(LinkedTree(input.before), "index") = PublicSymbols(LinkedTree(input.after), "index")

(* A change of what is private or marked internal in source files, or of    *)
(* files that the entry does not lead to, leaves the signature alone.       *)
PrivateChangesAreQuiet ==
  Is("signature") =>
    LET roots(p) == Range(DeclarationRoots(LinkedTree(p), "index"))
        open(file) == {d \in file.decls : ~d.internal /\ (d.exported \/ d.name \in NamedTypes(file))}
        same(f) == LET b == input.before.files[f]
                       a == input.after.files[f]
                   IN b.form = a.form /\ b.emits = a.emits /\ b.links = a.links /\
                      (IF b.form = ".ts" THEN open(b) = open(a) ELSE b.decls = a.decls)
    IN input.before.dirs = input.after.dirs /\ (\A f \in roots(input.before) : same(f)) =>
         answer.before = answer.after
=============================================================================
