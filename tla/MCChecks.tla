------------------------------- MODULE MCChecks --------------------------------
(* The cases of Checks. *)
EXTENDS Checks, TLC

-----------------------------------------------------------------------------
(* Cases for ImportBoundary: an importer, a producer with a package, and a   *)
(* third cell.                                                               *)
BoundaryCells == {"app", "core", "web"}
OwnerMap == [f \in {"app/a", "core/index", "core/open", "core/inner", "core/art", "core/gen", "web/index", "stray", "doc"} |->
  CASE f = "app/a" -> "app" [] f \in {"core/index", "core/open", "core/inner", "core/art", "core/gen"} -> "core"
    [] f = "web/index" -> "web" [] OTHER -> Nowhere]
InsideFiles == DOMAIN OwnerMap
AnyFile == InsideFiles \cup {"outside"}

NoLanes == [f \in {} |-> Nowhere]
CoreLanes == [f \in {"core/art", "core/gen"} |-> "lane"]
PackageOf(root, e) ==
  [cell |-> "core", root |-> root, exports |-> [form \in {"package", "subpath"} |-> e]]
BoundaryExports ==
  {[state |-> "exported", target |-> t] : t \in {Nowhere, "core/index", "core/inner", "web/index"}} \cup
  {[state |-> s, target |-> Nowhere] : s \in {"excluded", "not declared", "no map"}}
Worlds ==
  {[owner |-> OwnerMap, governed |-> InsideFiles \ {"doc"}, source |-> InsideFiles \ {"core/art", "doc"},
    entry |-> [c \in BoundaryCells |-> IF c = "app" THEN "app/a" ELSE IF c = "core" THEN "core/index" ELSE "web/index"],
    open |-> [c \in BoundaryCells |-> IF c = "core" THEN {"core/open"} ELSE {}],
    lane |-> [c \in BoundaryCells |-> IF c = "core" THEN CoreLanes ELSE NoLanes],
    consumes |-> [c \in BoundaryCells |-> [d \in BoundaryCells |->
       IF c = "app" /\ d = "core" THEN x ELSE IF c = "app" /\ d = "web" THEN y ELSE Undeclared]],
    packages |-> [p \in {"core"} |-> PackageOf(root, e)]] :
     <<x, y>> \in {<<Undeclared, Undeclared>>, <<{}, Undeclared>>, <<{"lane"}, {}>>, <<Undeclared, {}>>}, root \in BOOLEAN, e \in BoundaryExports}

FoundBy(way, file, subpath) ==
  [w \in Lookups |-> IF w = way THEN file ELSE IF w = "subpath" THEN subpath ELSE Nowhere]
PlainReferences ==
  {[python |-> py, form |-> form, name |-> name, found |-> FoundBy(way, file, "core/inner")] :
     <<py, form>> \in {<<FALSE, "relative">>, <<FALSE, "url">>, <<FALSE, "bare">>, <<TRUE, "relative">>, <<TRUE, "bare">>},
     name \in {Nowhere}, way \in Lookups \ {"subpath"}, file \in AnyFile \cup {Nowhere}}
PackageReferences ==
  {[python |-> FALSE, form |-> form, name |-> "core", found |-> FoundBy("alias", alias, sub)] :
     form \in {"package", "subpath"}, alias \in {Nowhere, "web/index"}, sub \in {"core/open", "core/inner", "core/art"}}
BoundaryImports ==
  [world : Worlds, importer : {"app", "web"}, ref : PackageReferences]
  \cup [world : {w \in Worlds : w.packages["core"].exports["package"].state = "no map"}, importer : {"app", "web"}, ref : PlainReferences]

SomeReferences == {RelativeTo("core/index"), RelativeTo("web/index"), RelativeTo("core/inner"),
                   [RelativeTo(Nowhere) EXCEPT !.form = "package", !.name = "core"]}
BoundaryGraphs ==
  [world : UNION {{w, [w EXCEPT !.entry["web"] = "stray"]} : w \in {v \in Worlds : v.packages["core"].root}},
   refs : {[c \in BoundaryCells |-> IF c = "app" THEN s ELSE IF c = "web" THEN t ELSE {}] :
             s \in SUBSET SomeReferences, t \in {{}, {RelativeTo("core/index")}}},
   selected : {{"app"}, {"web"}}]
-----------------------------------------------------------------------------
(* Cases for ResourcePolicy. *)
AccessOf(kind, mode, selector, unresolved) ==
  [kind |-> kind, mode |-> mode, selector |-> selector, unresolved |-> unresolved]
AnyAccess ==
  {AccessOf(k, m, s, u) : k \in {"file", "database"}, m \in {"read", "write"}, s \in {"s", "t"}, u \in BOOLEAN}
AnyContract ==
  {[kind |-> k, modes |-> m, matches |-> s] : k \in {"file", "database"}, m \in {{"read"}, {"read", "write"}}, s \in {{"s"}, {"s", "t"}}}
AccessWorlds ==
  [contracts : {{}} \cup {{c} : c \in AnyContract},
   recorded : {{}} \cup {{AccessKey(a)} : a \in {x \in AnyAccess : ~x.unresolved}},
   verified : BOOLEAN, head : {"h", NoCommit}]
AccessInputs == [world : {w \in AccessWorlds : w.head = "h"}, access : AnyAccess]

FewAccesses == {AccessOf("file", "read", "s", FALSE), AccessOf("database", "write", "t", FALSE)}
FewWorlds ==
  [contracts : {{}, {[kind |-> "file", modes |-> {"read"}, matches |-> {"s"}]}},
   recorded : {{}, {<<"database", "write", "t">>}}, verified : BOOLEAN, head : {"h", NoCommit}]
FewEntries ==
  [cell : {ThisCell, "gone"}, access : FewAccesses] \cup
  {[cell |-> OtherCell, access |-> AccessOf("file", "read", "s", FALSE)]}
EvidenceInputs ==
  [world : FewWorlds,
   files : {{f} : f \in {g \in [inside : BOOLEAN, valid : BOOLEAN, commit : {"h", "old", "none"},
                               status : {"active", "inactive", "none"}, entries : SUBSET FewEntries] :
                           (g.inside /\ g.valid) \/ g.entries = FewEntries}}]

PluginInputs ==
  [world : {w \in FewWorlds : w.head = "h"},
   plugin : [api : {1, 2}, throws : BOOLEAN, emits : {s \in SUBSET FewEntries : Cardinality(s) \notin {3, 4}},
             rules : SUBSET [throws : BOOLEAN, reports : {{}, {Report("OWN", "error", "x")}}]]]

CellPackages == [{"a", "b"} -> SUBSET {"p", "q"}]
DependencyInputs ==
  [claims : CellPackages, allows : [{"a", "b"} -> {{}, {"p"}}], locked : {{}, {"a"}},
   baseline : [{"a", "b"} -> {AnyPackage, NotListed, {}, {"p"}}], has : BOOLEAN,
   uses : {{<<"a", "p">>, <<"b", "q">>}, {<<"a", "p">>, <<"a", "q">>, <<"b", "p">>}}]
-----------------------------------------------------------------------------
(* Two cells over four files and at most one link.                          *)
TA == <<"a">>
TB == <<"b">>
TD == <<"d">>
TS == <<"*">>

LinkChoices ==
  {<<>>} \cup {(l :> t) : l \in {<<TA, TB>>, <<TB, TB>>, <<TD, TB>>},
                          t \in {<<TA, TA>>, <<TB, TA>>, <<TA>>, Outside, BrokenLink}}
TerritoryOwned == {{<<TA>>}, {<<TA, Globstar>>}, {<<TA, TA>>, <<TB, TS>>}, {<<TB>>}, {<<TA, TA, TS>>, <<TB, TA>>}, {<<Globstar, TA>>}, {<<TD, TS>>}}
PublicPaths == {{}, {<<TA, TS>>}, {<<TB, TA>>}}
Governances ==
  {[require |-> FALSE, include |-> {}, exclude |-> {}], [require |-> TRUE, include |-> {<<Globstar>>}, exclude |-> {}],
   [require |-> TRUE, include |-> {<<TA, Globstar>>, <<TB, TB>>}, exclude |-> {<<TA, TA>>}]}
Lanes == {{}, {[paths |-> {<<TA, TB>>}, external |-> FALSE]}, {[paths |-> {<<TD, TA>>}, external |-> TRUE]}}

Territories(files, links, owned, public, lanes, entries, agrees, governances) ==
  {[files |-> m, source |-> m \ {<<TA, TA, TA>>}, links |-> k,
    owned |-> ("core" :> o) @@ ("web" :> p), public |-> ("core" :> {}) @@ ("web" :> q),
    lanes |-> ("core" :> l) @@ ("web" :> {}), entry |-> ("core" :> <<TA, TA>>) @@ ("web" :> e),
    agrees |-> ("core" :> r) @@ ("web" :> TRUE),
    require |-> g.require, include |-> g.include, exclude |-> g.exclude] :
     m \in files, k \in links, o \in owned, p \in owned, q \in public, l \in lanes, e \in entries, r \in agrees,
     g \in governances}
TreeOf3 == {<<TA, TA>>, <<TB, TA>>, <<TD, TA>>}
SmallTerritories ==
  Territories({TreeOf3}, LinkChoices, TerritoryOwned, {{}}, {{}}, {<<TB, TA>>}, {TRUE}, {g \in Governances : g.exclude = {}})
  \cup Territories({TreeOf3, TreeOf3 \cup {<<TA, TA, TA>>}}, {<<>>}, TerritoryOwned, PublicPaths, {{}}, {<<TB, TA>>}, {TRUE}, Governances)
  \cup Territories({TreeOf3}, {<<>>}, TerritoryOwned, {{}}, Lanes, {<<TB, TA>>, <<TB, TB>>}, BOOLEAN,
                   {[require |-> FALSE, include |-> {}, exclude |-> {}]})

(* Trees of up to ten files with packages inside of packages.                *)
MIPath(names, last) == [i \in 1..Len(names) |-> <<names[i]>>] \o last
MIts(n) == <<<<n, ".ts">>>>
MIpy(n) == <<<<n, ".py">>>>
MICore == MIPath(<<"packages", "core">>, <<>>)
MIUi == MIPath(<<"packages", "core", "ui">>, <<>>)
MIDeep == MIPath(<<"packages", "core", "ui", "deep">>, <<>>)
MIScoped == <<<<"packages">>, <<"@", "o">>, <<"core">>>>
MIFiles ==
  [api |-> MIPath(<<"api">>, MIpy("main")), scoped |-> MIScoped \o MIts("index"), cli |-> MICore \o MIts("cli"),
   src |-> MICore \o MIPath(<<"src">>, MIts("index")), x |-> MIUi \o MIts("x"), deep |-> MIDeep \o MIts("y"),
   init |-> MIPath(<<"src", "core">>, MIpy("__init__")), a |-> MIPath(<<"src", "core">>, MIts("a")),
   index |-> MIPath(<<"src">>, MIts("index")), pyapp |-> MIPath(<<"py_app">>, MIpy("b"))]
MIOrdered ==
  <<<<>>, <<<<"*">>>>, MIPath(<<"packages">>, <<>>), MIPath(<<"api">>, <<>>), MIFiles.api, MIPath(<<"packages">>, <<<<"*">>>>), MIPath(<<"packages">>, <<<<"u", "*">>>>),
    <<<<"packages">>, <<"@", "o">>>>, MIScoped, MIFiles.scoped,
    MICore, MICore \o <<<<"*">>>>, MICore \o <<<<"*">>, <<"deep">>>>, MIFiles.cli, MICore \o Src, MIFiles.src, MIUi, MIDeep, MIFiles.deep,
    MIFiles.x, MIPath(<<"py_app">>, <<>>), MIFiles.pyapp, Src, MIPath(<<"src", "core">>, <<>>), MIFiles.init, MIFiles.a, MIFiles.index>>
MIRank == [p \in {MIOrdered[i] : i \in DOMAIN MIOrdered} |-> CHOOSE i \in DOMAIN MIOrdered : MIOrdered[i] = p]
MIIds == <<"api", "core", "core-2", "core-3", "core-4", "deep", "packages", "py-app", "root", "src-root", "src", "ui">>
MIIdRank == [n \in {MIIds[i] : i \in DOMAIN MIIds} |-> CHOOSE i \in DOMAIN MIIds : MIIds[i] = n]
MIBase ==
  <<"core">> :> "core" @@ <<"@", "o", "/", "core">> :> "core" @@ <<"core-2">> :> "core-2" @@ <<"ui">> :> "ui" @@ <<"deep">> :> "deep"
  @@ <<"api">> :> "api" @@ <<"py_app">> :> "py-app" @@ <<"py", "-", "app">> :> "py-app" @@ <<"root">> :> "root" @@ <<".">> :> "cell"
  @@ <<"src">> :> "src" @@ <<"packages">> :> "packages" @@ <<"@", "o">> :> "core"
MISuffixed ==
  [p \in ({MIBase[n] : n \in DOMAIN MIBase} \cup {"src-root"}) \X (1..12) |->
     IF p[2] = 1 THEN p[1] ELSE p[1] \o "-" \o ToString(p[2])]
MIPackage(name, entries, deps) == [name |-> name, entries |-> entries, deps |-> deps]
MIOCore == <<"@", "o", "/", "core">>
MIPackages ==
  {(<<>> :> MIPackage(<<"root">>, <<>>, {MIOCore}) @@ MICore :> MIPackage(n, e, {<<"ui">>}) @@ MIUi :> MIPackage(<<"ui">>, <<>>, {n})
    @@ MIScoped :> MIPackage(MIOCore, <<<<DotDot, <<"core">>, <<"cli", ".ts">>>>, MIts("index")>>, {<<"core-2">>})) :
     n \in {<<"core">>, <<"core-2">>, MIOCore}, e \in {<<>>, <<MIPath(<<"ui">>, MIts("x"))>>}}
  \cup {(MIUi :> MIPackage(NoName, <<MIts("x")>>, {})), (MIDeep :> MIPackage(<<"deep">>, <<>>, {}) @@ <<>> :> MIPackage(NoName, <<>>, {}))}
MIWorkspaces ==
  {{}, {<<>>}, {MIPath(<<"packages">>, <<<<"*">>>>)}, {MIPath(<<"packages">>, <<<<"u", "*">>>>), MICore \o <<<<"*">>>>},
   {MICore \o <<<<"*">>, <<"deep">>>>, MIUi}}
MIPython ==
  {<<[name |-> NoName, roots |-> {}]>>,
   <<[name |-> NoName, roots |-> {}], [name |-> <<"py", "-", "app">>, roots |-> {MIPath(<<"packages">>, <<>>)}], [name |-> <<"core">>, roots |-> {}]>>,
   <<[name |-> <<"core">>, roots |-> {Src}]>>}
MIFileSets(inner, outer) == {{MIFiles[n] : n \in (S \cup R)} : S \in inner, R \in outer}
MINested == {s \in SUBSET {"scoped", "cli", "src", "x", "deep"} : "deep" \in s \/ s = {"scoped", "src"}}
MILinkNames ==
  {<<"api", "a">>, <<"a", "index">>, <<"index", "init">>, <<"init", "pyapp">>, <<"deep", "x">>, <<"x", "src">>, <<"cli", "deep">>,
   <<"src", "scoped">>, <<"scoped", "cli">>, <<"pyapp", "api">>, <<"index", "deep">>}
MILinks(files) == {l \in {<<MIFiles[n[1]], MIFiles[n[2]]>> : n \in MILinkNames} : l[1] \in files /\ l[2] \in files}
MITreesOf(files, outs, packages, workspaces, pythons, hints) ==
  {[files |-> f, outOfScope |-> f \cap o, packages |-> p, workspaces |-> w, python |-> y, imports |-> MILinks(f), hints |-> h] :
     f \in files, o \in outs, p \in packages, w \in workspaces, y \in pythons, h \in hints}
MINoPython == {<<[name |-> NoName, roots |-> {}]>>}
MITrees ==
  MITreesOf(MIFileSets({s \in MINested : "cli" \in s <=> "src" \in s}, {{"index"}}), {{}}, MIPackages, MIWorkspaces, MINoPython, {TRUE})
  \cup MITreesOf(MIFileSets({{}, {"deep", "cli"}, {"x", "scoped"}}, {{"a", "pyapp"}, {"api", "init", "index", "pyapp"}}), {{}, {MIFiles.a, MIFiles.init}},
                 {p \in MIPackages : MIUi \in DOMAIN p}, {{}, {<<>>}}, MIPython, {TRUE})
  \cup MITreesOf(MIFileSets({s \in MINested : "x" \in s}, {{"a", "init"}}), {{MIFiles.cli}, {MIFiles.deep, MIFiles.x}}, MIPackages,
                 {{}, {MIPath(<<"packages">>, <<<<"*">>>>)}}, MINoPython, {FALSE})
MIStarters ==
  {[preset |-> p, existing |-> e] :
     p \in {"python", "polyglot"},
     e \in SUBSET {MIPath(<<"src", "api">>, MIpy("public")), MIFiles.index, MIPath(<<"packages", "web", "src">>, MIts("public")), MIFiles.scoped}}

(* Patterns over the characters a, b and *, and every path they can tell     *)
(* apart.                                                                   *)
TAS == <<"a", "*">>
TParts == {TA, TB, TS, TAS, Globstar}
TPatterns ==
  {<<s>> : s \in TParts} \cup {<<s, t>> : s \in TParts, t \in TParts} \cup
  {<<s, t, u>> : s \in {TA, Globstar}, t \in {TA, Globstar}, u \in {TA, TS}} \cup
  {<<Dot, TA>>, <<TA, DotDot, TB>>}
TNames == {TA, TB, <<"a", "b">>}
TPaths ==
  {<<s>> : s \in TNames} \cup {<<s, t>> : s \in TNames, t \in TNames} \cup
  {<<s, t, u>> : s \in {TA, TB}, t \in TNames, u \in {TA, TB}} \cup
  {<<s, t, u, v>> : s \in {TA, TB}, t \in {TA, TB}, u \in {TA, TB}, v \in {TA, TB}} 
TPairs == [left : TPatterns, right : TPatterns]

(* Trees with a generated directory d and an ignored directory g.            *)
TPlaces == {TA, <<"d">>, <<"g">>}
TFiles == {<<s, TA>> : s \in TPlaces} \cup {<<s, t, TA>> : s \in TPlaces, t \in TPlaces}
TTreePatterns == {<<TA>>, <<TA, Globstar>>, <<<<"d">>>>, <<TA, <<"d">>, TA>>, <<TS, <<"d">>, Globstar>>, <<Globstar, TA>>, <<TA, TS, TS>>}
TTrees == [owned : {{p} : p \in TTreePatterns}, include : {{}, {<<<<"d">>, Globstar>>}}, file : TFiles]
-----------------------------------------------------------------------------

(* Claim commands: two cells with a directory each, stores of up to two      *)
(* claims of two agents, entries that are no claims.                         *)
CcA == <<"a">>
CcB == <<"b">>
CcLayouts == {[owned |-> [core |-> {<<CcA, Globstar>>}, web |-> {<<CcB, Globstar>>}], include |-> {}]}
CcClaim(n, agent, cells, paths, active) ==
  [id |-> n, agent |-> agent, cells |-> cells, paths |-> paths, tokens |-> {}, active |-> active]
CcStored ==
  {CcClaim(1, "x", {"core"}, {}, TRUE), CcClaim(1, "y", {"core"}, {}, FALSE),
   CcClaim(2, "y", {"web"}, {<<CcB, CcA>>}, TRUE), CcClaim(2, "x", {"gone"}, {}, FALSE)}
CcEntries ==
  {{}} \cup {{[whole |-> w, claim |-> k]} : w \in BOOLEAN, k \in CcStored}
    \cup {{[whole |-> TRUE, claim |-> k], [whole |-> w, claim |-> l]} :
            w \in BOOLEAN, k \in {k \in CcStored : k.id = 1}, l \in {k \in CcStored : k.id = 2}}
CcRequests ==
  {[agent |-> g, id |-> n, cells |-> cs, paths |-> ps, tokens |-> {}, active |-> TRUE, expiry |-> e,
    files |-> {}] :
     g \in {"x", ""}, n \in {1, 2, 9}, cs \in {{}, {"core"}}, ps \in {{}, {<<CcA, CcB>>}, {<<CcB>>}}, e \in BOOLEAN}
CcAsks ==
  {[agent |-> g, files |-> fs] : g \in {"x", ""}, fs \in {{}, {<<CcA, CcA>>}, {<<CcB, CcA>>}, {<<CcA, CcA>>, <<CcB, CcA>>}}}
CcLocal(read, write) ==
  [id |-> "local-file", promise |-> FALSE, lock |-> "absent", read |-> read, write |-> write, release |-> "ok"]
CcGiven ==
  {ArtifactBackend} \cup
  {[id |-> "other", promise |-> p, lock |-> l, read |-> r, write |-> w, release |-> u] :
     p \in BOOLEAN, l \in {"absent", "not provided", "granted", "fails"}, r \in {"state", "throws"},
     w \in {"ok", "conflict", "fails"}, u \in {"ok", "fails"}}
CcCase(cmd, manifest, env, configured, given, backend, fileLock, entries, request) ==
  [cmd |-> cmd, manifest |-> manifest, layout |-> CHOOSE l \in CcLayouts : TRUE, env |-> env,
   configured |-> configured, given |-> given, backend |-> backend, fileLock |-> fileLock,
   entries |-> entries, request |-> request]
CcFew == {e \in CcEntries : Cardinality(e) = 2} \cup {{}}
CcPlain == {r \in CcRequests : r.expiry /\ r.agent = "x"}
CcCreates ==
  {CcCase("create", "valid", "", "", TRUE, b, f, e, r) :
     b \in {b \in CcGiven : b.read = "state" /\ b.lock \in {"granted", "absent"}}, f \in {"held"},
     e \in CcFew, r \in {r \in CcPlain : r.id # 2 /\ r.cells # {} /\ r.paths = {}}}
  \cup
  {CcCase("create", "valid", "", "", TRUE, b, f, {}, r) :
     b \in CcGiven, f \in {"held", "failed"}, r \in {r \in CcPlain : r.id = 9 /\ r.cells # {}}}
  \cup
  {CcCase("create", "valid", "", "", FALSE, b, "held", e, r) :
     b \in {CcLocal("state", "ok")}, e \in CcEntries, r \in CcPlain}
  \cup
  {CcCase("create", "valid", "", "", FALSE, b, "held", {}, r) :
     b \in {CcLocal("state", "ok"), CcLocal("throws", "ok"), CcLocal("state", "conflict")}, r \in CcRequests}
CcOthers ==
  {CcCase(k, m, v, t, FALSE, CcLocal(d, "ok"), "held", e, [agent |-> "x", files |-> {<<CcA, CcA>>}]) :
     k \in {"list", "check", "access"}, m \in {"valid", "rejected", "unreadable"},
     v \in {"", "redis", "local-file"}, t \in {"", "redis"}, d \in {"state", "throws"},
     e \in {e \in CcEntries : Cardinality(e) < 2}}
  \cup
  {CcCase(k, "valid", "", "", TRUE, b, "held", e, r) :
     k \in {"list", "check", "access"},
     b \in {b \in CcGiven : b.write = "ok" /\ b.release = "ok" /\ b.lock = "fails"}, e \in CcFew, r \in CcAsks}
CcCommands == CcCreates \cup CcOthers

(* Paths: a repository r, which may be a link, a directory in it and links   *)
(* in it to a directory, out of it and to nothing.                           *)
CcR == <<"r">>
CcO == <<"o">>
CcL == <<"l">>
CcDots == <<".", ".", "x">>
CcTree(root, to) ==
  (<<CcR>> :> root) @@ (<<CcO>> :> <<CcO>>) @@ (root :> root) @@ (Append(root, CcA) :> Append(root, CcA))
    @@ (Append(root, CcL) :> to)
CcTrees ==
  UNION {{CcTree(root, to) : to \in {<<CcO>>, Append(root, CcA), <<CcO, CcB>>}} : root \in {<<CcR>>, <<CcO, CcR>>}}
CcPaths ==
  {<<>>} \cup {<<s>> : s \in {CcA, CcL, CcDots, Dot, DotDot}}
    \cup {<<s, t>> : s \in {CcA, CcL, DotDot, CcB}, t \in {CcA, CcR, CcDots, DotDot, CcB}}
    \cup {<<s, t, u>> : s \in {CcL, DotDot, CcA}, t \in {CcR, DotDot, CcA}, u \in {CcA, CcL, CcB}}
CcWritePaths == [tree : CcTrees, root : {<<CcR>>}, request : [absolute : BOOLEAN, path : CcPaths]]

CcExpiries ==
  [ttl : [form : {"plain"}, amount : {0, 1, 90, 91, 2160, 2161, 129600, 129601}, unit : {"m", "h", "d"}]
           \cup {[form |-> "none", amount |-> 0, unit |-> "m"], [form |-> "other", amount |-> 0, unit |-> "m"]},
   expires : {[given |-> FALSE, date |-> FALSE, minutes |-> 0], [given |-> TRUE, date |-> FALSE, minutes |-> 0],
              [given |-> TRUE, date |-> TRUE, minutes |-> 500000]}]

(* Two files; a link is content 3.                                           *)
CcStates(values) == [{"f", "g"} -> values]
CcSweeps ==
  [mode : {"work tree"}, base : {[f |-> 0, g |-> 0]}, head : CcStates(0..3), index : CcStates({0, 1, 3}), tree : CcStates(0..3)]
    \cup [mode : {"range"}, base : CcStates(0..3), head : CcStates(0..3), index : {[f |-> 0, g |-> 0]}, tree : {[f |-> 0, g |-> 0]}]
    \cup [mode : {"open range"}, base : CcStates({0, 1}), head : CcStates({0, 1, 3}), index : CcStates({0, 1, 2}), tree : CcStates({0, 1, 2})]

(* Two cells, which own different files or share one; two agents; claims of  *)
(* a cell, of a path, or of both.                                            *)
CcS == <<"*">>
CcDisjoint == [owned |-> [core |-> {<<CcA, Globstar>>}, web |-> {<<CcB>>}], include |-> {<<Globstar>>}]
CcSharing == [owned |-> [core |-> {<<CcA, Globstar>>}, web |-> {<<CcS, CcA>>}], include |-> {<<Globstar>>}]
CcShapes ==
  {[cells |-> {"core"}, paths |-> {}], [cells |-> {"web"}, paths |-> {}],
   [cells |-> {"gone"}, paths |-> {}],
   [cells |-> {}, paths |-> {<<CcA, CcA>>}], [cells |-> {}, paths |-> {<<CcS, CcA>>}],
   [cells |-> {}, paths |-> {<<CcB>>}], [cells |-> {"core"}, paths |-> {<<CcA, CcS>>}]}
CcThird == {x \in CcShapes : x.cells = {} \/ "gone" \in x.cells}
CcClaimOf(n, agent, shape, active) ==
  [id |-> n, agent |-> agent, cells |-> shape.cells, paths |-> shape.paths, tokens |-> {}, active |-> active]
CcClaimSets ==
  {{CcClaimOf(1, "x", s, TRUE), CcClaimOf(2, g, t, TRUE), CcClaimOf(3, "y", u, e)} :
     s \in CcShapes, t \in CcShapes, u \in CcThird, <<g, e>> \in {<<"x", TRUE>>, <<"y", TRUE>>, <<"y", FALSE>>}}
CcClaimings ==
  [manifest : {CcDisjoint, CcSharing}, claims : CcClaimSets, agent : {"x", "y"}, file : {<<CcA, CcA>>, <<CcB>>, <<CcB, CcA>>}]
-----------------------------------------------------------------------------
(* One source file with waivers, one beside it; a required and two other rules.*)
VerdictCore == {"PRIVATE", "UNSUPPORTED_DYNAMIC_IMPORT", "REQUIRED_RULE_DISABLED", "WAIVER_INVALID"}
VerdictRules == VerdictCore \cup {"UNRESOLVED_IMPORT", "BUDGET"}

VFound(rule, severity, what, line) ==
  [rule |-> rule, severity |-> severity, cell |-> "core", file |-> "a", what |-> what, line |-> line]
NoRules == [x \in {} |-> Absent]
VBase ==
  [found |-> <<>>, repo |-> NoRules, cells |-> ("core" :> NoRules) @@ (Absent :> NoRules), overrides |-> <<>>, cli |-> NoRules, extra |-> {},
   manifest |-> "m", baseline |-> Absent, evidence |-> {}, sources |-> {"a", "b"}, entries |-> {"a"},
   present |-> {"m", "a", "b"}, read |-> [f \in {"imports", "resources", "public-surface"} |-> {"a", "b"}],
   text |-> [file |-> "a", sha |-> "now", lines |-> <<Code>>, quiet |-> FALSE], attested |-> <<>>,
   env |-> [approvers |-> {"alice", "odd"}, key |-> "k", keyId |-> Absent, head |-> "h", repository |-> "r"]]

VSettings(rule) == {NoRules} \cup {rule :> s : s \in {"error", "warning", "off"}}

(* Severities of two findings, from every source. *)
SeverityChecks ==
  {[VBase EXCEPT !.found = <<VFound(r, s, "x", 0)>>, !.repo = p, !.cells["core"] = c, !.overrides = o, !.cli = t, !.extra = e] :
     r \in {"PRIVATE", "BUDGET"}, s \in {"error", "warning"}, p \in {NoRules, "BUDGET" :> "warning", "BUDGET" :> "off"},
     c \in VSettings("BUDGET"), t \in VSettings("BUDGET") \cup VSettings("PRIVATE"), e \in {{}, {"BUDGET"}},
     o \in {<<>>} \cup {<<[files |-> {"a"}, rules |-> "BUDGET" :> "off"], [files |-> {x}, rules |-> "BUDGET" :> "warning"]>> : x \in {"a", "b"}}}

(* Waivers: lines of the file, entries, and environments. *)
VDirective == [rule |-> "BUDGET", id |-> "w", spaced |-> FALSE, requested |-> Absent, expires |-> Absent, reason |-> TRUE]
VDirectives ==
  {VDirective, [VDirective EXCEPT !.spaced = TRUE], [VDirective EXCEPT !.id = Absent], [VDirective EXCEPT !.requested = "alice"],
   [VDirective EXCEPT !.rule = "PRIVATE"]}
VPrint(severity, what) == Fingerprint(VFound("BUDGET", severity, what, 0))
VEntry ==
  [id |-> "w", shaped |-> TRUE, rule |-> "BUDGET", file |-> "a", line |-> 2, sha |-> "now", head |-> "h", repository |-> "r",
   expires |-> 1, approver |-> "alice", signedBy |-> "k", keyId |-> "1", print |-> VPrint("error", "x"), reason |-> TRUE]
VEntries ==
  {VEntry} \cup {[VEntry EXCEPT !.sha = "old"], [VEntry EXCEPT !.head = "g"], [VEntry EXCEPT !.expires = -1],
   [VEntry EXCEPT !.expires = 91], [VEntry EXCEPT !.expires = 0], [VEntry EXCEPT !.expires = 90],
   [VEntry EXCEPT !.approver = "odd"], [VEntry EXCEPT !.approver = "bob"], [VEntry EXCEPT !.signedBy = Absent], [VEntry EXCEPT !.line = 3],
   [VEntry EXCEPT !.print = VPrint("warning", "x")], [VEntry EXCEPT !.print = VPrint("error", "y")],
   [VEntry EXCEPT !.rule = "PRIVATE"], [VEntry EXCEPT !.shaped = FALSE], [VEntry EXCEPT !.keyId = "2"], [VEntry EXCEPT !.repository = "fork"]}
VLines(d) == {<<d, Code, Code>>, <<Code, d, Code>>, <<d, VDirective, Code>>}
WaiverChecks ==
  {[VBase EXCEPT !.found = f, !.repo = p, !.text.lines = l, !.attested = a, !.env.key = e[1], !.env.keyId = e[2], !.text.quiet = e[3]] :
     l \in UNION {VLines(d) : d \in VDirectives}, a \in {<<>>, <<VEntry, VEntry>>} \cup {<<x>> : x \in VEntries},
     <<f, p, e>> \in
       {<<VFound("BUDGET", "error", "x", 2)>>} \X
         {NoRules} \X {<<"k", Absent, FALSE>>, <<"k", "1", FALSE>>, <<Absent, Absent, FALSE>>, <<"k", Absent, TRUE>>}
       \cup {<<g, q, <<"k", Absent, FALSE>>>> :
               <<g, q>> \in {<<<<VFound("BUDGET", "error", "x", 2)>>, "BUDGET" :> "warning">>,
                             <<<<VFound("BUDGET", "error", "y", 2), VFound("BUDGET", "error", "x", 2)>>, NoRules>>,
                             <<<<VFound("BUDGET", "error", "x", 3), VFound("PRIVATE", "error", "x", 2)>>, NoRules>>}}}

(* Evidence: files that are missing, not read, or left open. *)
VReads == {{"a", "b"}, {"a"}, {}}
EvidenceChecks ==
  {[VBase EXCEPT !.found = f, !.repo = p, !.baseline = b, !.evidence = e, !.present = x,
                 !.read = [imports |-> i, resources |-> r] @@ ("public-surface" :> s)] :
     f \in {<<>>, <<VFound("UNRESOLVED_IMPORT", "error", "x", 1)>>, <<VFound("UNSUPPORTED_DYNAMIC_IMPORT", "error", "x", 1)>>},
     p \in {NoRules, "UNRESOLVED_IMPORT" :> "off"}, b \in {Absent, "base"}, e \in {{}, {"b"}},
     x \in {{"m", "a", "b"}, {"m", "a", "base", ConfigFile}}, i \in VReads, r \in VReads, s \in VReads}

VerdictChecks == EvidenceChecks \cup SeverityChecks \cup WaiverChecks

(* A work tree, a head and two bases; a finding that may be waived and one   *)
(* that is not.                                                              *)
CTree(broken, findings, waived, open, second) ==
  [broken |-> broken, findings |-> findings, waived |-> waived, warnings |-> IF open THEN {"w"} ELSE {}, open |-> open,
   manifest |-> ("p" :> "core") @@ ("q" :> second)]
CClean == CTree(0, {}, {}, FALSE, "core")
CTrees ==
  {CTree(0, f, {"x"}, FALSE, "core") : f \in SUBSET {"x", "y"}}
  \cup {CTree(0, {"x"}, {}, FALSE, "core"), CTree(0, {}, {}, TRUE, "core"), CTree(2, {}, {}, FALSE, "core"),
        CTree(3, {}, {}, FALSE, "core"), CTree(0, {}, {}, FALSE, "web")}
CEnvs == [approvers : {{}, {"alice"}}, minute : {0}, waiverKey : {"k", "old"}]
CSigned == [approvers |-> {"alice"}, minute |-> 0, waiverKey |-> "k"]
COptions == {[cache |-> TRUE, external |-> FALSE, plugins |-> p, pluginKey |-> k] : p \in BOOLEAN, k \in {NoKey, "1"}}
            \cup {[cache |-> FALSE, external |-> FALSE, plugins |-> FALSE, pluginKey |-> NoKey],
                  [cache |-> TRUE, external |-> TRUE, plugins |-> FALSE, pluginKey |-> NoKey]}
CPlain == [cache |-> TRUE, external |-> FALSE, plugins |-> FALSE, pluginKey |-> NoKey]
CMoves == (WorkTree :> {[from |-> "p", to |-> "q"]}) @@ ("h" :> {[from |-> "p", to |-> "q"], [from |-> "p", to |-> "gone"]}) @@ ("b" :> {}) @@ ("c" :> {})
CChange(work, head, base, ref, options, env, earlier, git) ==
  [trees |-> (WorkTree :> work) @@ ("h" :> head) @@ ("b" :> base) @@ ("c" :> CClean),
   base |-> "b", head |-> ref, moves |-> CMoves, options |-> options, env |-> env, earlier |-> earlier, git |-> git]
SomeChanges ==
  {CChange(w, h, b, r, CPlain, e, <<[base |-> c, options |-> CPlain, env |-> f]>>, TRUE) :
     <<w, h>> \in {CClean} \X CTrees \cup {<<t, CClean>> : t \in CTrees}, b \in CTrees, r \in {NoRef, "h"},
     <<e, f, c>> \in CEnvs \X {CSigned} \X {"b"} \cup {CSigned} \X {[CSigned EXCEPT !.waiverKey = "old"]} \X {"b"}
                   \cup {CSigned} \X {[CSigned EXCEPT !.approvers = {}]} \X {"b", "c"}}
  \cup {CChange(w, w, CTree(0, {"x"}, {"x"}, FALSE, "core"), NoRef, o, e, l, g) :
          w \in {CClean, CTree(0, {"x", "y"}, {"x"}, FALSE, "core")}, o \in COptions, e \in CEnvs, g \in BOOLEAN,
          l \in {<<>>} \cup {<<[base |-> "b", options |-> p, env |-> [approvers |-> {"alice"}, minute |-> m, waiverKey |-> "k"]]>> :
                               p \in COptions, m \in {0, 1}}}
-----------------------------------------------------------------------------
(* Documents that use every field, with one or two places changed.           *)
DocTexts ==
  ("" :> {"blank"}) @@ ("a" :> {"cell id"}) @@ ("b" :> {"cell id"}) @@ ("A" :> {}) @@ ("../a" :> {"escapes"}) @@
  ("a?" :> {"odd glob"}) @@ ("**" :> {"unbounded"}) @@ ("npm:a" :> {"dependency"}) @@ ("npm:b" :> {"dependency"}) @@
  ("date" :> {"date", "cell id"}) @@ ("digest" :> {"digest", "cell id"}) @@ ("signature" :> {"signature", "cell id"})
DocWords ==
  ResourceContractKind \cup ResourceAccessMode \cup ResourceAccessConfidence \cup PathClassKind \cup RuleSeverity \cup
  {"manifest v1", "baseline v1", "evidence v2", "on", "local-file", "hmac-sha256", "ed25519", "seal-metadata-v1", "x",
   "active", "inactive", "incomplete", "more"}
DocTraits == DocTexts @@ [w \in DocWords |-> {"cell id"}]

DText(t) == List(<<Text(t)>>)
DTrue == [flag |-> TRUE]
DRules == Object("a" :> Text("off"))
DEntry(more) == Object([kind |-> Text("file"), access |-> Text("read"), selector |-> Text("a"), detectedBy |-> Text("a"),
                        confidence |-> Text("high")] @@ more)
DSlim(id, more) ==
  Object([id |-> Text(id), ownedPaths |-> DText("a"), publicEntry |-> Text("a"), publicSymbols |-> DText("a")] @@ more)
DCell ==
  DSlim("a", [publicPaths |-> DText("a"), packageName |-> Text("a"), locked |-> DTrue, waiverParsing |-> DTrue,
    waiverParsingReason |-> Text("a"), importAnalysis |-> DTrue, resourceAnalysis |-> DTrue,
    consumes |-> List(<<Object([cell |-> Text("b"), artifactLanes |-> DText("a")])>>),
    producesArtifacts |-> List(<<Object([id |-> Text("a"), paths |-> DText("a"), description |-> Text("a"),
                                         locked |-> DTrue, external |-> DTrue])>>),
    resourceContracts |-> List(<<Object([id |-> Text("a"), kind |-> Text("file"), access |-> DText("read"),
                                         selectors |-> DText("a"), locked |-> DTrue, description |-> Text("a")])>>),
    externalDependencies |-> Object([allow |-> DText("npm:a"), claim |-> DText("npm:b")]),
    budgets |-> Object([publicSymbols |-> [number |-> 1]]), rules |-> DRules])
DGovernance ==
  Object([requireOwnership |-> DTrue, include |-> DText("a"), exclude |-> DText("a"), requiredRules |-> DText("a"),
    resourceAdapters |-> Object("file" :> Text("on")),
    pathClasses |-> List(<<Object([id |-> Text("a"), kind |-> Text("source"), paths |-> DText("a"), description |-> Text("a"),
      commitPolicy |-> Object([allowMixedWith |-> List(<<Text("source"), Text("runtime")>>), requireTrailer |-> Text("a"),
                               generatedRequiresProvenance |-> DTrue])])>>),
    claimBackend |-> Object([type |-> Text("local-file")])])
DManifest(cells) ==
  Object([schemaVersion |-> Text("manifest v1"), rules |-> DRules, governance |-> DGovernance, cells |-> List(cells),
    overrides |-> List(<<Object([files |-> DText("a"), rules |-> DRules])>>),
    profiles |-> Object("a" :> Object([description |-> Text("a"), rules |-> DRules, changedOnly |-> DTrue,
                                       reportOnly |-> DTrue, requireEvidenceWithinCommits |-> [number |-> 1]]))])
DBaseline(seal) ==
  Object([schemaVersion |-> Text("baseline v1"), generatedAt |-> Text("date"), cellIds |-> DText("a"), seal |-> seal,
    cells |-> Object("a" :> Object([k \in BudgetKeys |-> [number |-> 1]] @@
      [ownedPathSet |-> DText("a"), publicEntryPath |-> Text("a"), publicSymbolSet |-> DText("a"),
       publicSurfaceHash |-> Text("a"), dependencyEdges |-> DText("a"), artifactContracts |-> DText("a"),
       resourceAccesses |-> List(<<DEntry(<<>>)>>), externalDependencySet |-> DText("npm:a")]))])
DEvidence ==
  Object([schemaVersion |-> Text("evidence v2"), commitSha |-> Text("a"), generatedAt |-> Text("date"), cellId |-> Text("a"),
    transcriptStatus |-> Text("active"), accesses |-> List(<<DEntry([cellId |-> Text("a"), observedAt |-> Text("date")])>>)])

(* The places of a document, as steps of keys or indices, and what is put there. *)
RECURSIVE Spots(_)
Spots(v) ==
  {<<>>} \cup
  (IF IsObject(v) THEN UNION {{<<[key |-> k, index |-> 0]>> \o s : s \in Spots(At(v, k))} : k \in DOMAIN v.object}
   ELSE IF IsList(v) THEN UNION {{<<[key |-> "", index |-> i]>> \o s : s \in Spots(v.list[i])} : i \in DOMAIN v.list}
   ELSE {})
RECURSIVE Put(_, _, _)
Put(v, spot, w) ==
  IF spot = <<>> THEN w
  ELSE IF IsObject(v) THEN [object |-> [v.object EXCEPT ![spot[1].key] = Put(@, Tail(spot), w)]]
  ELSE [list |-> [v.list EXCEPT ![spot[1].index] = Put(@, Tail(spot), w)]]
RECURSIVE Pick(_, _)
Pick(v, spot) ==
  IF spot = <<>> THEN v
  ELSE Pick(IF IsObject(v) THEN v.object[spot[1].key] ELSE v.list[spot[1].index], Tail(spot))

DValues ==
  {[null |-> TRUE], [flag |-> TRUE], [flag |-> FALSE], [number |-> -1], [number |-> 1], List(<<>>), Object(<<>>),
   List(<<Text("a"), Text("a")>>), List(<<Object(<<>>)>>), List(<<Text("file")>>), Object("a" :> Text("a"))} \cup
  {Text(t) : t \in {"", "a", "A", "../a", "a?", "**"}}
DChanged(v) ==
  UNION {LET o == Pick(v, s) IN
         {Put(v, s, Object([k \in DOMAIN o.object \ {x} |-> o.object[k]])) : x \in DOMAIN o.object}
         \cup {Put(v, s, Object(o.object @@ ("more" :> Text("a"))))} : s \in {z \in Spots(v) : IsObject(Pick(v, z))}}
  \cup {Put(v, s, w) : s \in Spots(v), w \in DValues}

DLists == {List(<<>>), DText("npm:a"), DText("npm:b")}
(* Two cells that consume, publish and list packages. *)
DPairs ==
  {DManifest(<<DSlim("a", [consumes |-> List([i \in DOMAIN u |-> Object([cell |-> Text(u[i])])]), packageName |-> Text(p),
                           externalDependencies |-> Object([allow |-> x, claim |-> y])]),
               DSlim(d, [packageName |-> Text("a"), externalDependencies |-> Object([allow |-> z, claim |-> w])])>>) :
     u \in {<<>>, <<"b">>, <<"a">>, <<"A">>, <<"b", "b">>}, p \in {"a", "b", ""}, d \in {"a", "b"},
     x \in DLists, y \in DLists, z \in DLists, w \in {List(<<>>), DText("npm:a")}}
DDocuments ==
  [type : {"manifest"}, value : DPairs \cup DChanged(DManifest(<<DCell, DSlim("b", <<>>)>>))]
  \cup [type : {"baseline"}, value : DChanged(DBaseline(SealOf("ed25519", TRUE)))]
  \cup [type : {"baseline"}, value : DChanged(DBaseline(SealOf("hmac-sha256", FALSE)))]
  \cup [type : {"evidence"}, value : DChanged(DEvidence)]
-----------------------------------------------------------------------------
(* Processes of up to five steps; two spans; two calls.                      *)
TVAccess(cell, sel) == [cell |-> cell, kind |-> "database", access |-> "write", selector |-> sel]
TVSteps ==
  {[do |-> "install"], [do |-> "file", mode |-> "read", path |-> "a"], [do |-> "file", mode |-> "write", path |-> "x"],
   [do |-> "fetch", url |-> "a"], [do |-> "record", access |-> TVAccess("", "a")],
   [do |-> "record", access |-> TVAccess("A", "")], [do |-> "beforeExit"]}
TVEnvs == [cap : {1, 2}, cell : {"", "a"}, commit : {"x"}, disabled : BOOLEAN]
TVIgnored == {[do |-> "file", mode |-> "read", path |-> p] : p \in {SourceFile, TraceOutput, Descriptor}} \cup {[do |-> "fetch", url |-> ""]}
TVTraces ==
  {[env |-> e, events |-> Append(s, [do |-> "exit"])] : e \in TVEnvs, s \in UNION {[1 .. n -> TVSteps] : n \in 0 .. 3}}
  \cup {[env |-> e, events |-> <<[do |-> "install"], f, g, [do |-> "exit"]>>] : e \in [cap : {1}, cell : {"a"}, commit : {"", "x"}, disabled : {FALSE}],
                                                                               f \in TVIgnored, g \in TVIgnored \cup TVSteps}

TVSpans == [system : {"", "db", "x", "messaging", "file"}, table : {"", "a"}, destination : {"", "b"}, route : {"", "x"}, selector : {"", "more"},
            name : {"", "on"}, operation : {"", "insert", "receive", "serve"}, cell : {"", "b", "A"}]
TVSome == {[system |-> "db", table |-> "a", destination |-> "", route |-> "", selector |-> "", name |-> "", operation |-> "insert", cell |-> "b"]}
TVSpanCases ==
  {[spans |-> {s}, cell |-> c, commit |-> "x"] : s \in TVSpans, c \in {"", "a"}}
  \cup {[spans |-> {s, t}, cell |-> "a", commit |-> m] : s \in {x \in TVSpans : x.system = "db"}, t \in TVSome, m \in {"", "x"}}

TVPattern(call, n) == [call |-> call, argument |-> n, kind |-> "queue", operation |-> "publish"]
TVCallPatterns ==
  {[patterns |-> <<TVPattern("send", m), TVPattern(c, n)>>, calls |-> {[call |-> "send", args |-> a, line |-> 1], [call |-> "emit", args |-> b, line |-> 2]}] :
     m \in {1, 2}, n \in {1, 3}, c \in {"emit", "send"}, a \in {<<>>, <<"a">>, <<Dynamic, "b">>}, b \in {<<"">>, <<"a", Dynamic>>}}
-----------------------------------------------------------------------------
(* Two or three services over four paths; commits of two files; two trees.   *)
AGService(id, owned, data, lanes, readOnly, uses, http, scheduled) ==
  [id |-> id, owned |-> owned, data |-> data, writes |-> {}, lanes |-> lanes, readOnly |-> readOnly, uses |-> uses,
   http |-> http, scheduled |-> scheduled, entry |-> id, directory |-> {"d" \o id}]
AGLane(id, paths) == [id |-> id, paths |-> paths]
AGHttp(id, access) == [id |-> id, access |-> access, selectors |-> {{"route"}}]
AGOwned == {{}, {{"x"}}, {{"x", "y"}}, {{"z"}}}
AGLanes == {<<>>, <<AGLane("l", {{"x"}})>>, <<AGLane("l", {{"y"}, {"z"}}), AGLane("l", {{"x", "w"}}), AGLane("m", {})>>}
AGRead == {{}, {{"x"}}, {{"x", "y"}, {"w"}}}
AGServices ==
  {<<AGService("a", o, d, l, r, {"b", "a"}, <<>>, {}), AGService(i, p, e, k, {{"x"}}, {}, <<>>, {})>> :
     o \in AGOwned, p \in AGOwned, d \in {{}, {{"x"}}}, e \in {{}, {{"y"}, {"da"}}}, l \in AGLanes, k \in AGLanes, r \in AGRead,
     i \in {"b", "a"}}
  \cup {<<AGService("a", {{"x"}}, d, l, r, u, h, {{"nightly"}}), AGService("b", {{"y"}}, {}, k, {}, {"a"}, <<>>, {}),
          AGService("c", {{"z"}}, {{"w"}}, k, {{"y"}}, {"a"}, <<>>, {})>> :
          d \in {{}, {{"y"}}}, l \in AGLanes, k \in AGLanes, r \in AGRead, u \in {{"b", "c"}, {"gone"}},
          h \in {<<AGHttp("h", {})>>, <<AGHttp("h", {"call"}), AGHttp("h", {})>>}}

AGOrder == 0 :> 9 @@ 1 :> 1 @@ 2 :> 3 @@ 3 :> 2
AGFile(status, path, test, source, weak, cells) ==
  [status |-> status, path |-> path, test |-> test, source |-> source, weak |-> weak, cells |-> cells]
AGFiles ==
  {{AGFile("M", 1, FALSE, TRUE, FALSE, {1})}, {AGFile("M", BaselineFile, FALSE, FALSE, FALSE, {})},
   {AGFile("M", BaselineFile, FALSE, FALSE, FALSE, {}), AGFile("A", 3, FALSE, FALSE, FALSE, {})}}
  \cup {{AGFile("R", 1, FALSE, s, FALSE, {1}), AGFile(st, 2, TRUE, TRUE, w, {1, 2})} :
          s \in BOOLEAN, st \in {"A", "M", "D"}, w \in BOOLEAN}
  \cup {{AGFile(st, 2, TRUE, TRUE, FALSE, {}), AGFile("A", 3, TRUE, TRUE, w, {2})} : st \in {"A", "M"}, w \in BOOLEAN}
AGSay(names) == [blank |-> FALSE, names |-> names]
AGLists == {<<AGSay(<<>>), AGSay(<<>>)>>, <<AGSay(<<2>>), AGSay(<<>>)>>, <<AGSay(<<>>), AGSay(<<2>>)>>, <<AGSay(<<3, 2>>), AGSay(<<>>)>>,
            <<AGSay(<<3>>), AGSay(<<2>>)>>, <<[blank |-> TRUE, names |-> <<>>], AGSay(<<>>)>>}
AGText(t) == <<[text |-> t]>>
AGTrailer(t, v) == <<[trailer |-> t, value |-> v]>>
AGMessages ==
  {<<[heading |-> "Problem"]>> \o p \o k \o c \o AGTrailer("Tests-Added", t[1]) \o AGTrailer("Tests-Modified", t[2])
   \o AGTrailer(ReasonTrailer, r) :
     p \in {AGText("concrete"), AGText("short"), <<>>},
     k \in {<<[heading |-> "Known-Gaps"]>>, <<>>},
     c \in {AGTrailer("Changed-Cells", AGSay(<<1>>)), AGTrailer("Changed-Cells", AGSay(<<2, 1>>)), <<>>,
            AGTrailer("Changed-Cells", AGSay(<<1>>)) \o AGTrailer("Changed-Cells", AGSay(<<>>))},
     t \in AGLists, r \in {"concrete", "short"}}
AGCommit(files, message, merge) == [files |-> files, message |-> message, merge |-> merge]
AGGood == <<[heading |-> "Problem"], [text |-> "concrete"], [heading |-> "Known-Gaps"]>>
          \o AGTrailer("Changed-Cells", AGSay(<<1>>)) \o AGTrailer("Tests-Added", AGSay(<<>>))
          \o AGTrailer("Tests-Modified", AGSay(<<>>)) \o AGTrailer(ReasonTrailer, "concrete")
AGHistories ==
  {[commits |-> <<AGCommit(f, m, FALSE)>>, limit |-> 1, audited |-> 1] : f \in AGFiles, m \in AGMessages}
  \cup {[commits |-> <<AGCommit(f, AGGood, g), AGCommit(e, AGGood, FALSE)>>, limit |-> n, audited |-> n] :
          f \in AGFiles, e \in AGFiles, <<g, n>> \in {<<TRUE, 2>>, <<FALSE, 2>>, <<FALSE, 1>>}}

AGTree(a, b, c) == "a" :> a @@ "b" :> b @@ "c" :> c
AGWorks == {AGTree("1", "2", Gone), AGTree("1", "3", Gone), AGTree(Gone, "2", "1"), AGTree(Gone, Gone, "2"), AGTree("1", "2", "3"), AGTree("1", "4", "3")}
AGTasks ==
  {[allowed |-> al, forbidden |-> f, gates |-> g, maxFiles |-> n, base |-> bs,
    trees |-> [base |-> AGTree("1", "2", Gone), head |-> h, index |-> i, work |-> w]] :
     al \in {{}, {{"b"}}, {{"b", "c"}}, {{"a", "b", "c"}}}, f \in {{}, {{"a"}}}, g \in {{"test"}},
     n \in {0, 1}, bs \in BOOLEAN, h \in {AGTree("1", "2", Gone), AGTree(Gone, "2", "1")}, i \in AGWorks, w \in AGWorks}
  \cup {[allowed |-> {{"b"}}, forbidden |-> {}, gates |-> {}, maxFiles |-> 0, base |-> FALSE,
         trees |-> [base |-> AGTree("1", "2", Gone), head |-> AGTree("1", "2", Gone), index |-> w, work |-> w]] : w \in AGWorks}

AGLines == [key : {"cell"}, value : {"a", "x"}, indented : BOOLEAN]
           \cup [key : {"surfaceHash"}, value : {"h", "old"}, indented : BOOLEAN]
           \cup {Line("text", ""), Line("mention", "")}
AGDocs == {[doc |-> d, cell |-> c, hash |-> "a" :> "h"] :
             d \in {<<>>} \cup [1 .. 2 -> AGLines] \cup [1 .. 3 -> AGLines], c \in {"a"}}
          \cup {[doc |-> <<Line("cell", "a"), Line("text", ""), Line("text", "")>> \o d, cell |-> c, hash |-> "a" :> "h"] :
                  d \in {<<>>, <<Line("surfaceHash", "old")>>}, c \in {"a", "gone"}}

AGNode(f, s) == [file |-> f, status |-> s]
AGStatus == {"killed", "survived", "timeout", "ignored"}
AGReports ==
  {[cells |-> <<[id |-> "a", owned |-> {{"f"}}], [id |-> "b", owned |-> {{"f", "g"}}]>>, minScore |-> n,
    report |-> <<>> :> AGNode("", "") @@ <<1>> :> AGNode("f", "") @@ <<1, 1>> :> AGNode("", s) @@ <<1, 2>> :> AGNode("g", t)
               @@ <<1, 3>> :> AGNode("", u) @@ <<2>> :> AGNode("x", "survived") @@ <<3>> :> AGNode("g", v)
               @@ <<3, 1>> :> AGNode("", "noCoverage")] :
     n \in {0, 50, 60, 101}, s \in AGStatus, t \in AGStatus, u \in AGStatus, v \in {"", "killed"}}

AGKinds == {"source", "runtime", "generated"}
AGClasses ==
  {[classes |-> <<[kind |-> k, paths |-> {{"a"}}], [kind |-> l, paths |-> {p}], [kind |-> m, paths |-> {{"c"}}]>>,
    changed |-> ch, imports |-> {<<"a", "b">>, <<"c", "a">>, <<"b", "d">>}] :
     k \in AGKinds, l \in AGKinds, m \in AGKinds, p \in {{"b"}, {"a", "b"}}, ch \in SUBSET {"a", "b", "c"}}
-----------------------------------------------------------------------------
(* Short lines of arguments, one check, one file, one waiver.                   *)
(* Options that stand for the kinds there are: flags, kept, strict, numbers, listed, both. *)
ClArguments ==
  {Word("check"), Word("baseline"), Word("gate"), Word(""), Word("m"), Short("-h"), Short("-x"), Long("json"), Long("help"), Long("odd"),
   Long("manifest"), Long("format"), Long("fail-under"), Long("path"), Long("cell"),
   Inline("manifest", ""), Inline("manifest", "m"), Inline("format", ""), Inline("format", "sarif"), Inline("fail-under", "m"),
   Inline("fail-under", "7"), Inline("path", "m"), Inline("cell", "m"), Inline("odd", "m"), Inline("json", "m")}
ClWaiverLines ==
  {<<Word("waivers"), Word("request"), Inline("rule", "r"), Inline("file", "f"), Inline("line", n), Long("expires"), Word("d"), a, Word("why")>> :
     n \in {"0", "7", "m", ""}, a \in {Long("reason"), Word("reason")}}
ClOptionLines ==
  {<<>>} \cup {<<a>> : a \in {Long("mcp"), Long("auto-allocate"), Long("check"), Inline("format", "mermaid"), Inline("format", "markdown")}}
  \cup {<<Inline(a, "m"), b>> : a \in {"agent", "task", "cell", "report", "evidence", "baseline-base", "head-ref"},
                                b \in {Inline("file", "m"), Inline("format", "agents-md"), Inline("base-ref", "m"), Inline("baseline-head", "m")}}
  \cup {<<Long("check"), Long("uninstall")>>}
ClHandlers == {[i \in DOMAIN h |-> Word(h[i])] \o o : h \in Commands, o \in ClOptionLines}
ClResults == {"fine", "findings", "broken", "exists", "throws"}
ClLines ==
  {[argv |-> a, result |-> "fine"] :
     a \in UNION {[1..n -> ClArguments] : n \in 0..2}
            \cup {<<Word("check"), a, b>> : a, b \in ClArguments} \cup {<<Word("check"), Long("path"), a, b>> : a, b \in ClArguments}}
  \cup {[argv |-> a, result |-> r] : a \in ClHandlers \cup ClWaiverLines, r \in ClResults}
ClNumerals == {"7"}

ClFound(rule, severity, cell) == [rule |-> rule, severity |-> severity, cell |-> cell]
ClChecks ==
  {[profile |-> p[1], asks |-> [reportOnly |-> p[2], changedOnly |-> p[3]], changed |-> h, wants |-> w, baseline |-> b[1], broken |-> b[2],
    found |-> f] :
     p \in {<<"none", FALSE, FALSE>>, <<"unknown", FALSE, FALSE>>} \cup {<<"named", r, g>> : r, g \in BOOLEAN},
     h \in BOOLEAN, w \in {{}, {"audit-log"}, {"summary-json", "acceptance-record"}, {"acceptance-record"}},
     b \in {<<FALSE, FALSE>>, <<TRUE, FALSE>>, <<FALSE, TRUE>>},
     f \in {<<>>} \cup {<<ClFound("A", s, "x")>> : s \in {"error", "warning"}}
            \cup {<<ClFound("A", s, "x"), ClFound("B", t, c), ClFound("A", u, "x")>> :
                    s, t, u \in {"error", "warning"}, c \in {Absent, "x"}}}

ClInits ==
  [target : {"absent", "file", "dangling link", "directory"}, from : {"import", "preset", "infer", "both"}, fails : BOOLEAN,
   example : BOOLEAN, entry : BOOLEAN, noScaffold : BOOLEAN]

ClTexts ==
  UNION {[1..n -> {Blank, [line |-> "plain"], [line |-> "fence"], Start("claude", <<Body("claude")>>), Body("claude"), Body("old"), End}] : n \in 0..3}
  \cup {a \o b \o c : a, c \in {<<>>, <<[line |-> "plain"]>>, <<[line |-> "plain"], Blank>>, <<[line |-> "fence"], Blank, Blank>>},
                      b \in {<<Start(t, <<Body(v)>>), Body(u), End>> : t, v, u \in {"claude", "old"}}}
ClInstalls ==
  {[text |-> x, does |-> d, target |-> "claude"] : x \in ClTexts, d \in {"install", "uninstall", "check"}}

ClDoctors ==
  [manifest : BOOLEAN, repository : BOOLEAN, client : BOOLEAN, requires : {Absent, "ci"},
   texts : {{}, {<<>>, <<Start("claude", <<Body("claude")>>), Body("claude"), End>>}, {<<Start("claude", <<Body("claude")>>), Body("old"), End>>},
            {<<Body("old")>>, <<Start("old", <<Body("old")>>), Body("old"), End>>}},
   protection : [fails : BOOLEAN, contexts : SUBSET {"ci"}, checks : SUBSET {"ci"}]]

ClAsked ==
  [rule |-> "BUDGET", file |-> "a", line |-> 2, day |-> 1, reason |-> [long |-> TRUE, telling |-> TRUE]]
ClCheck(l) ==
  [VBase EXCEPT !.text.lines = l, !.found = <<VFound("BUDGET", "error", "x", 2)>>]
ClSigns ==
  {[asked |-> q, check |-> ClCheck(l), id |-> i, approver |-> a, env |-> e, print |-> VPrint("error", "x")] :
     q \in {[ClAsked EXCEPT !.rule = r, !.day = d] : r \in {"BUDGET", "PRIVATE", "ODD"}, d \in {0, 1, 90, 91, 92}}
           \cup {[ClAsked EXCEPT !.file = f, !.line = n] : f \in {"a", "b", "c"}, n \in {0, 2, 3}}
           \cup {[ClAsked EXCEPT !.reason = [long |-> x, telling |-> y]] : x, y \in BOOLEAN},
     l \in {<<d, Code, Code>> : d \in VDirectives}, i \in {"w", "v"},
     <<a, e>> \in {"alice", "bob", "PENDING", Absent} \X {VBase.env} \cup
       {<<"alice", [VBase.env EXCEPT !.key = k[1], !.keyId = k[2], !.head = k[3]]>> :
          k \in {<<"k", "2", "h">>, <<"k2", Absent, "h">>, <<Absent, Absent, "h">>, <<"k", Absent, Absent>>, <<"k", Absent, "g">>}}}
  \cup {[asked |-> ClAsked, check |-> [ClCheck(<<VDirective, Code, Code>>) EXCEPT !.env.keyId = n], id |-> "w", approver |-> "alice",
         env |-> [VBase.env EXCEPT !.keyId = n], print |-> VPrint("error", "x")] : n \in {Absent, "1"}}

ClRequests ==
  [id : {"none", "1"}, method : {"initialize", "tools/list", "odd"}, tool : {Absent}, confined : {TRUE}, complete : {TRUE}, engine : {TRUE}]
  \cup [id : {"none", "1"}, method : {"tools/call"}, tool : {Absent, "create_claim", "odd"}, confined : BOOLEAN, complete : BOOLEAN, engine : {TRUE}]
ClServes ==
  UNION {[1..n -> {[line |-> "blank"], [line |-> "garbage"], [line |-> "bare null"]} \cup {[line |-> "request", request |-> q] : q \in ClRequests}] :
           n \in 1..2}
-----------------------------------------------------------------------------
(* One or two cells, a handful of lines, two sources.                               *)
GrRecord ==
  [paths |-> <<{1}>>, symbols |-> <<{"s"}>>, edges |-> <<{}>>, resources |-> <<{"r"}>>, artifacts |-> <<{}>>, packages |-> <<{"p"}>>,
   hash |-> "h", entry |-> "e", patterns |-> 1, symbolCount |-> 1, lines |-> 5, edgeCount |-> 0]
GrVary(r) ==
  {[r EXCEPT ![f] = v] : f \in {"symbols", "resources", "packages", "artifacts", "edges"}, v \in {<<>>, <<{}>>, <<{"s", "r", "p"}>>}}
  \cup {[r EXCEPT !.paths = v] : v \in {<<>>, <<{}>>, <<{1, 2}>>}}
  \cup {[r EXCEPT !.hash = v] : v \in {NotThere, "g"}} \cup {[r EXCEPT !.entry = NotThere], [r EXCEPT !.lines = 9]}
  \cup {[r EXCEPT ![f] = 2] : f \in {"patterns", "symbolCount", "edgeCount"}}
GrOne == {GrRecord} \cup GrVary(GrRecord)
GrBaseline(ids, seal, record) == [ids |-> ids, seal |-> seal, cells |-> "x" :> record]
GrSource(ref, file, value) == [ref |-> ref, file |-> file, value |-> value]
GrPairs ==
  {<<GrBaseline(<<>>, "k", r), GrBaseline(<<>>, "k", s)>> : r, s \in GrOne}
  \cup UNION {{<<GrBaseline(<<>>, "k", r), GrBaseline(<<>>, "k", s)>> : s \in GrVary(r)} : r \in GrVary(GrRecord)}
  \cup {<<GrBaseline(i, t, r), GrBaseline(k, u, r)>> : i, k \in {<<>>, <<{}>>, <<{"x"}>>}, t, u \in {"k", NotThere}, r \in {GrRecord, [GrRecord EXCEPT !.paths = <<>>]}}
  \cup {<<[GrBaseline(<<{"x"}>>, "k", GrRecord) EXCEPT !.cells = x], GrBaseline(<<{"x"}>>, "k", GrRecord)>> : x \in {<<>>, "y" :> GrRecord}}
GrGates ==
  {[base |-> GrSource("there", NotThere, p[1]), head |-> GrSource("there", NotThere, p[2])] : p \in GrPairs}
  \cup {[base |-> GrSource(r, f, GrBaseline(<<>>, "k", GrRecord)), head |-> GrSource(s, NotThere, GrBaseline(<<>>, "k", GrRecord))] :
          r, f \in {NotThere, "there", "gone", "broken"}, s \in {NotThere, "there", "gone", "broken"}}
GrTrees ==
  [cell : {"x"}, paths : {{1}, {1, 2}, {}}, symbols : {{"s"}, {"s", "r"}}, edges : {{}, {"s"}}, resources : {{}, {"r"}, {"s", "r"}},
   artifacts : {{}, {"s"}}, packages : {{}, {"p"}, {"p", "r"}}, hash : {"h", "g"}, entry : {"e", "d"}, lines : {5, 9}]

GrFinding(rule, file) == [rule |-> rule, file |-> file]
GrFindings ==
  {GrFinding(r, f) : r \in {"UNRESOLVED_IMPORT", "UNRESOLVED_RESOURCE_ACCESS", "PUBLIC_ENTRY_MISSING", "MANIFEST_INVALID", "PRIVATE"},
                     f \in {"a", "m", NotThere}}
GrCoverages ==
  {[sources |-> s, found |-> f, explicit |-> e, option |-> o, environment |-> v] :
     s \in {{}, {"a"}, {"a", "b"}, {"a", "b", "c"}}, f \in UNION {[1..n -> GrFindings] : n \in 0..1}, e \in BOOLEAN,
     o \in {<<>>, <<5000>>}, v \in {<<>>, <<10000>>}}
  \cup {[sources |-> {"a", "b"}, found |-> f, explicit |-> e, option |-> <<5000>>, environment |-> <<>>] :
          f \in [1..2 -> GrFindings], e \in BOOLEAN}

GrTop(key, events) == [line |-> "top", key |-> key, events |-> events]
GrPair(key, value) == [line |-> "pair", key |-> key, value |-> value]
GrUses(action, ref) == [line |-> "uses", action |-> action, ref |-> ref]
GrRun(secrets, publishes, suppressed, plusE) ==
  [line |-> "run", secrets |-> secrets, publishes |-> publishes, suppressed |-> suppressed, plusE |-> plusE]
GrHeads ==
  {<<GrTop("on", {"push"})>>, <<GrTop("on", {}), GrPair("push", 0)>>, <<GrTop("on", {}), GrPair("push", 0), GrPair("merge", 0)>>,
   <<GrTop("on", {"push", "merge"})>>}
GrMiddles ==
  {<<>>} \cup {<<GrTop("permissions", {})>> \o x : x \in {<<>>, <<GrPair("contents", 1)>>, <<GrPair("contents", 2)>>,
                                                       <<GrPair("contents", 1), GrPair("push", 2)>>}}
GrJobs == <<GrTop("jobs", {}), GrPair("push", 0)>>
GrSteps ==
  {GrUses("a", 1), GrUses("a", 2), GrUses("b", 1), GrRun({"t"}, FALSE, NotThere, FALSE), GrRun({}, TRUE, NotThere, FALSE),
   GrRun({}, FALSE, "c", FALSE), GrRun({}, FALSE, NotThere, TRUE), GrRun({}, FALSE, NotThere, FALSE)}
GrUsual == <<GrTop("on", {"push"}), GrTop("permissions", {}), GrPair("contents", 1)>> \o GrJobs
GrLines(n, steps) == UNION {[1..i -> steps] : i \in 0..n}
GrWorkflows ==
  {[before |-> h \o m \o GrJobs, after |-> i \o n \o GrJobs] : h, i \in GrHeads, m, n \in GrMiddles}
  \cup {[before |-> m \o h \o GrJobs, after |-> GrUsual] : h \in GrHeads, m \in GrMiddles}
  \cup {[before |-> GrUsual \o t, after |-> GrUsual \o u] : t \in GrLines(2, GrSteps), u \in GrLines(1, GrSteps)}
  \cup {[before |-> GrUsual \o t, after |-> GrUsual \o u] : t, u \in GrLines(2, {GrUses("a", 1), GrUses("a", 2), GrRun({}, FALSE, "c", FALSE)})}

GrRefs == [from : {"a"}, to : {"b"}, entry : BOOLEAN, form : {"import", "export", "import *", "export *", "export * as", "effect"},
           names : {{}, {"s"}, {"default"}}]
GrPrunes ==
  {[consumes |-> u, produces |-> p, symbols |-> y, refs |-> r, waivers |-> {}, findings |-> {}, accesses |-> {}, baseline |-> <<>>] :
     u \in {{}, {[cell |-> "a", from |-> "b", lanes |-> {}]}, {[cell |-> "a", from |-> "b", lanes |-> {"l"}]},
            {[cell |-> "a", from |-> "b", lanes |-> {}], [cell |-> "c", from |-> "b", lanes |-> {"l"}]}},
     p \in SUBSET {[cell |-> "b", lane |-> "l"], [cell |-> "b", lane |-> "m"]},
     y \in SUBSET {<<"b", "s">>, <<"b", "default">>, <<"a", "s">>}, r \in {{}} \cup {{x} : x \in GrRefs}}
  \cup {[consumes |-> {}, produces |-> {}, symbols |-> {}, refs |-> {}, waivers |-> w, findings |-> f, accesses |-> a, baseline |-> <<{<<"a", "x">>}>>] :
          w \in SUBSET [rule : {"R", "Q"}, line : {1}, valid : BOOLEAN], f \in SUBSET [rule : {"R", "Q"}, line : {1, 2}],
          a \in {{}, {<<"a", "x">>}}}
  \cup {[consumes |-> {}, produces |-> {}, symbols |-> {}, refs |-> {}, waivers |-> {}, findings |-> {}, accesses |-> a, baseline |-> b] :
          a \in SUBSET {<<"a", "x">>, <<"b", "x">>}, b \in {<<>>} \cup {<<x>> : x \in SUBSET {<<"a", "x">>, <<"b", "x">>}}}

GrPatterns ==
  {<<"*">>, <<"/">>, <<"/","c","/">>, <<"/","c","/","b","/">>, <<"c","/","b","/">>, <<"/","c","/","b","/","*">>, <<"/","c","/","*">>,
   <<"/","c","/","*","*">>, <<"*","*","/","j",".","n">>, <<"*",".","n">>, <<"j",".","n">>, <<"/","j",".","n">>, <<"/","*",".","n">>,
   <<"c","/","b","/","j",".","n">>, <<"/","c","/","*","*","/","j",".","n">>, <<"/","c","/","*","*","/","b","/","*">>,
   <<"c","/","*","/","?",".","n">>, <<"!","c","/">>, <<"c","/">>, <<"b","/">>, <<"c">>, <<"/","c","/","b">>, <<"*","*">>, <<"j","*">>,
   <<"/","c","\\","b","/">>, <<"j","?","n">>}
GrUser(login) == [kind |-> "user", login |-> login]
GrTeam == [kind |-> "team", login |-> "alice"]
GrMail == [kind |-> "mail", login |-> "alice"]
GrOwnerSets == {{GrUser("alice")}, {GrUser("bob"), GrTeam}, {GrMail}, {}}
GrOwned(pattern, owners) == [pattern |-> pattern, owners |-> owners]
GrPlace(state, lines) == [state |-> state, lines |-> lines]
GrNone == GrPlace("missing", <<>>)
GrOwner(named, file, base, head) == [named |-> named, file |-> file, base |-> base, head |-> head]
GrFiles == {<<"c","/","b","/","j",".","n">>, <<".","/","c","/","b","/","j",".","n">>, <<"c","\\","j",".","n">>, <<"j",".","n">>, <<"a","/","b","/","j",".","n">>}
GrTwoLines == {<<GrOwned(p, {GrUser("alice")}), GrOwned(q, {GrUser("bob")})>> : p, q \in GrPatterns}
GrOwners ==
  {GrOwner({}, f, <<GrPlace("file", t), GrNone, GrNone>>, <<GrNone, GrNone, GrNone>>) : f \in GrFiles, t \in GrTwoLines}
  \cup {GrOwner(n, <<"c","/","b","/","j",".","n">>, <<GrPlace(s, IF s = "file" THEN <<GrOwned(p, o)>> ELSE <<>>), GrPlace(r, IF r = "file" THEN <<GrOwned(<<"*">>, {GrUser("bob")})>> ELSE <<>>), GrNone>>,
               <<GrPlace("file", <<GrOwned(<<"*">>, {GrUser("carol")})>>), GrNone, GrNone>>) :
          n \in {{}, {GrUser("dave")}, {GrUser("dave"), GrTeam}}, s, r \in {"missing", "error", "directory", "file"},
          p \in {<<"*">>, <<"/","c","/">>, <<"/","j",".","n">>}, o \in GrOwnerSets}
-----------------------------------------------------------------------------
(* A public entry, a file beside it, evidence and a baseline; two findings.  *)
ERFound ==
  UNION {{PrivateImport("core", "other", p), UndeclaredConsumer("core", "other", p), UnresolvedImport(p), UnownedTarget("core", p),
          UndeclaredArtifact("core", "other", p), UndeclaredAccess("core", p)} : p \in {"a", "b"}}
  \cup {UndeclaredAccess("core", "e"), SymbolMismatch("core", "a"), SymbolMismatch("core", "d"), UnownedSource("c")}
  \cup {RatchetFinding(r, "core") : r \in DOMAIN RatchetDetails}
ERPairs ==
  {<<>>} \cup {<<f>> : f \in ERFound}
  \cup {<<f, [f EXCEPT !.what = "y"]>> : f \in {PrivateImport("core", "other", "a"), RatchetFinding("RATCHET_OWNED_PATH_GROWTH", "core")}}
  \cup {<<f, g>> : f \in {PrivateImport("core", "other", "a"), UnresolvedImport("b"), RatchetFinding("RATCHET_PUBLIC_SYMBOL_GROWTH", "core")},
                  g \in {UndeclaredAccess("core", "e"), UndeclaredConsumer("core", "other", "a"), [SymbolMismatch("core", "a") EXCEPT !.severity = "warning"],
                         [PrivateImport("core", "other", "b") EXCEPT !.severity = "warning"], UnownedSource("c")}}
ERBase == [VBase EXCEPT !.extra = {"PRIVATE_IMPORT"}, !.present = {"m", "a", "b", "e", "base", ConfigFile}]
ERPossible(w) ==
  \A f \in Range(w.found) : /\ f.rule \in DOMAIN RatchetDetails => w.baseline # Absent
                            /\ f.file = "e" => w.evidence = {"e"}
                            /\ f.file \in w.sources \cup {"e"} => f.file \in w.present
                            /\ f.file \in w.sources =>
                                 f.file \in w.read[IF f.rule = "UNDECLARED_RESOURCE_ACCESS" THEN "resources" ELSE "imports"]
ERAll ==
  {[ERBase EXCEPT !.found = f, !.repo = s, !.baseline = b, !.evidence = e, !.present = p,
                  !.read = [imports |-> i, resources |-> r] @@ ("public-surface" :> {"a"})] :
     f \in ERPairs, s \in {NoRules, "UNRESOLVED_IMPORT" :> "warning", "UNDECLARED_RESOURCE_ACCESS" :> "off"}, b \in {Absent, "base"},
     e \in {{}, {"e"}}, p \in {ERBase.present, {"m", "a", "base"}},
     <<i, r>> \in {<<{"a", "b"}, {"a", "b"}>>, <<{"a"}, {"a", "b"}>>, <<{"a", "b"}, {"b"}>>}}
ERCases ==
  {w \in ERAll : ERPossible(w) /\ (Len(w.found) = 2 => w.read["imports"] = w.read["resources"])}

ERArguments == [option : {"graph", "check-result", "record", "out", "help", "odd"}, value : {"given", Absent}]
ERCalls ==
  {[tool |-> t, args |-> a, read |-> r] : t \in {"graph", "record"}, a \in UNION {[1..n -> ERArguments] : n \in 0..2},
     r \in {"unreadable", "other", "defective", "sound"}}
-----------------------------------------------------------------------------

(* Plugin rules: three cells, one of which owns a plain directory; a source  *)
(* file of each and another file; imports in every direction, cycles too.    *)
PrA == <<"a">>
PrB == <<"b">>
PrC == <<"c">>
PrFa == <<PrA, PrA>>
PrFb == <<PrB, PrA>>
PrFn == <<PrB, PrC>>
PrFc == <<PrC, PrA>>
PrCells == <<[id |-> "core", owned |-> {<<PrA, Globstar>>}], [id |-> "web", owned |-> {<<PrB>>}],
             [id |-> "old", owned |-> {<<PrC, Globstar>>}]>>
PrMoved == <<[id |-> "core", owned |-> {<<PrA, Globstar>>, <<PrC, Globstar>>}], [id |-> "web", owned |-> {<<PrB>>}],
             [id |-> "old", owned |-> {}]>>
PrFile(source, imports) == [source |-> source, imports |-> imports]
PrTree(cells, a, b, c, gone) ==
  [cells |-> cells,
   files |-> [f \in {PrFa, PrFb, PrFn, PrFc} \ gone |->
               CASE f = PrFa -> PrFile(TRUE, a) [] f = PrFb -> PrFile(TRUE, b)
                 [] f = PrFc -> PrFile(TRUE, c) [] OTHER -> PrFile(FALSE, {})]]
PrBefores ==
  {PrTree(PrCells, {}, {}, {}, {PrFn}), PrTree(PrCells, {PrFc}, {PrFa}, {}, {}), PrTree(PrCells, {PrFc}, {PrFc}, {}, {PrFc}),
   PrTree(PrMoved, {}, {PrFc}, {}, {})}
PrAfters ==
  {PrTree(PrCells, a, b, c, g) : a \in {{}, {PrFb}, {PrFc}}, b \in {{}, {PrFa}, {PrFa, PrFc}}, c \in {{}, {PrFa}},
                                 g \in {{}, {PrFc}, {PrFb}}}
PrBudget(files, forbidden, scoped, allowed) ==
  [maxFiles |-> files, maxEdges |-> 1, forbidden |-> forbidden, scoped |-> scoped, allowed |-> allowed]
PrAsk(protected, approved, actor, changedOnly) ==
  [legacy |-> {"old"}, maxIncoming |-> 1, maxAffected |-> 0, protected |-> protected, approved |-> approved,
   owners |-> ("old" :> {"ann"}) @@ ("web" :> {"bob"}), actor |-> actor, changedOnly |-> changedOnly]
PrOptions ==
  {PrBudget(9, {}, TRUE, {"core"}) @@ PrAsk({"old"}, {}, "ann", FALSE),
   PrBudget(9, {}, TRUE, {"core", "old"}) @@ PrAsk({"old", "core"}, {}, "bob", FALSE),
   PrBudget(1, {<<PrC, Globstar>>}, FALSE, {}) @@ PrAsk({"old", "web"}, {"web"}, "eve", TRUE),
   PrBudget(9, {<<PrB>>}, TRUE, {"core", "web"}) @@ PrAsk({"old"}, {}, "eve", TRUE)}
PrChanges == [before : PrBefores, after : PrAfters, options : PrOptions]

PrPoints == [date : {1, 2, Undated}, value : {0, 1, 3}]
PrTrends ==
  [history : UNION {[1..n -> PrPoints] : n \in 0..2} \cup {<<p, q, r>> : p \in PrPoints, q \in {[date |-> 1, value |-> 2]}, r \in PrPoints},
   current : {0, 2, 5}, multiplier : {0, 1, 2}, minimum : {0, 2}]

PrItem(kind, form, names, lines) == [kind |-> kind, form |-> form, names |-> names, lines |-> lines]
PrItems ==
  {PrItem("doc", "", <<>>, 1), PrItem("comment", "", <<>>, 1), PrItem("code", "", <<>>, 2),
   PrItem("decl", "const", <<"f", "g">>, 1), PrItem("decl", "abstract class", <<"f">>, 1), PrItem("decl", "default", <<"default">>, 1),
   PrItem("list", "", <<"f", "h">>, 1)}
PrEntries ==
  [items : UNION {[1..n -> PrItems] : n \in 0..4}, symbols : {{"f", "g", "h"}}, required : {TRUE}, limit : {3}]
-----------------------------------------------------------------------------

(* A corpus of up to twenty findings, one in each of ten repositories and a *)
(* second in each, by two rules; the twenty-first is a warning.             *)
PcIds == <<"f1", "f2", "f3", "f4", "f5", "f6", "f7", "f8", "f9", "f10", "f11", "f12", "f13", "f14",
           "f15", "f16", "f17", "f18", "f19", "f20", "f21">>
PcSubjects == <<"s1", "s2", "s3", "s4", "s5", "s6", "s7", "s8", "s9", "s10">>
PcFinding(i) ==
  [findingId |-> PcIds[i], subjectId |-> PcSubjects[((i - 1) % 10) + 1], repository |-> "",
   ruleId |-> IF i % 2 = 0 THEN "A" ELSE "B", severity |-> IF i = 21 THEN "warning" ELSE "error",
   precisionEligible |-> TRUE, fingerprint |-> "", replayed |-> FALSE]
PcManifest == [strategy |-> "existing", status |-> "reviewed", readers |-> {"rev"}, attestations |-> {}, noted |-> TRUE, digest |-> <<>>]
PcCopy == [PcManifest EXCEPT !.strategy = "copy", !.digest = <<"copy">>,
             !.attestations = {[id |-> "rev", type |-> "human", independent |-> TRUE]}]
PcOf(ids, findings, subjects) ==
  LET b == [sealed |-> TRUE, artifactSet |-> <<"unlabelled">>, preLabelSet |-> <<"made">>, studyId |-> "study", history |-> FALSE, subjects |-> subjects,
            copies |-> [id \in DOMAIN subjects |-> "copy"], sampled |-> ids, findings |-> findings, labels |-> <<>>,
            evidence |-> [id \in DOMAIN subjects |-> "log"], preLabel |-> <<>>, commit |-> "commit", harness |-> "clean"]
  IN [b EXCEPT !.preLabel = b.preLabelSet]
PcBundle(ns) ==
  LET findings == {PcFinding(i) : i \in ns}
  IN PcOf({f.findingId : f \in findings}, findings,
          [id \in {f.subjectId : f \in findings} |-> [before |-> PcManifest, after |-> PcManifest]])
PcResealed(b) == [b EXCEPT !.preLabelSet = <<"changed">>, !.preLabel = <<"changed">>]
PcTurned(b) == [b EXCEPT !.preLabelSet = <<"changed">>]
PcSmall == PcBundle(1..2)
PcTen == PcBundle(1..10)
PcTwenty == PcBundle(1..20)
PcWarned == PcBundle((1..10) \cup {21})
PcReplays(attestations) ==
  LET b == [PcTen EXCEPT !.history = TRUE,
              !.findings = {[f EXCEPT !.replayed = TRUE] : f \in @},
              !.subjects = [id \in DOMAIN @ |->
                              [before |-> [PcCopy EXCEPT !.attestations = attestations],
                               after |-> [PcManifest EXCEPT !.strategy = "reuse-before"]]]]
  IN PcResealed(b)

PcBlind ==
  [mode |-> "blind", raters |-> <<"ann", "bob">>, types |-> <<"human">>, adjudicator |-> "", adjudicatorType |-> "",
   allowExisting |-> FALSE, protocol |-> <<>>, rules |-> {"A", "B"}, severities |-> {"error"}, given |-> {},
   exists |-> FALSE, force |-> FALSE, apart |-> TRUE]
PcSettle(name) == [PcBlind EXCEPT !.mode = "adjudication", !.raters = <<>>, !.types = <<>>, !.adjudicator = name, !.adjudicatorType = "human"]

(* The rows of a worklist, labelled as says tells by finding and round. *)
PcRows(dir, says(_, _)) ==
  LET entries == FoldSet(LAMBDA e, list : Append(list, e), <<>>, AssignedIn(dir))
  IN [i \in DOMAIN entries |->
        LET e == entries[i]
        IN [dir.files[e.path].template EXCEPT !.worklist = dir.seal, !.label = says(e.findingId, e.round), !.reasoned = TRUE]]
PcLabelled(b, dir, says(_, _)) ==
  [b EXCEPT !.labels = @ \o PcRows(dir, says), !.artifactSet = IF b.labels = <<>> THEN <<"labelled">> ELSE <<"settled">>]
PcTrue(id, round) == "true_positive"
PcDiffer(id, round) == IF id = "f1" /\ round = "blind_second" THEN "false_positive" ELSE "true_positive"
PcExcept(ids, label, id) == IF id \in ids THEN label ELSE "true_positive"

PcWorkSmall == CreateWorklist(PcBlind, PcSmall, "small")
PcSmallDiffer == PcLabelled(PcSmall, PcWorkSmall, PcDiffer)
PcSmallAgree == PcLabelled(PcSmall, PcWorkSmall, PcTrue)
PcFirstRow(b, F(_)) == [b EXCEPT !.labels = [i \in DOMAIN @ |-> IF i = 1 THEN F(@[1]) ELSE @[i]]]
PcEveryRow(b, F(_)) == [b EXCEPT !.labels = [i \in DOMAIN @ |-> F(@[i])]]

PcReason(reason) == {[field |-> "findingId", how |-> "equals", values |-> {"f2"}, reason |-> reason]}
PcNoClaim == [schema |-> TRUE, studyId |-> "study", claim |-> <<>>, top |-> <<>>, plan |-> <<>>, review |-> <<>>, share |-> <<>>, exclusions |-> {}]
PcBound(exclusions) == [PcNoClaim EXCEPT !.top = [includedRules |-> {"A", "B"}], !.exclusions = exclusions]

PcWorklists ==
  {[options |-> o, bundle |-> b] :
     o \in {[PcBlind EXCEPT !.raters = <<x, "bob">>, !.allowExisting = y, !.protocol = p] :
              x \in {"ann", "bob", "fp-ann"}, y \in BOOLEAN,
              p \in {<<>>} \cup {<<PcBound(e)>> : e \in {{}, PcReason("given"), PcReason("none"), PcReason("null")}}}
           \cup {[PcSettle(x) EXCEPT !.protocol = p] : x \in {"cem", "ann", "fp-cem", ""}, p \in {<<>>, <<PcBound({})>>, <<PcBound(PcReason("none"))>>}}
           \cup {[PcBlind EXCEPT !.exists = TRUE], [PcBlind EXCEPT !.exists = TRUE, !.force = TRUE], [PcBlind EXCEPT !.apart = FALSE],
                 [PcBlind EXCEPT !.given = {"rules"}, !.rules = {"A"}, !.protocol = <<PcBound({})>>], [PcBlind EXCEPT !.rules = {}],
                 [PcBlind EXCEPT !.types = <<"human", "agent">>], [PcBlind EXCEPT !.types = <<"robot">>], [PcBlind EXCEPT !.severities = {"warning"}],
                 [PcBlind EXCEPT !.protocol = <<[PcBound({}) EXCEPT !.studyId = "other"]>>],
                 [PcBlind EXCEPT !.protocol = <<[PcBound({}) EXCEPT !.top = @ @@ [preLabel |-> <<"else">>]]>>],
                 [PcBlind EXCEPT !.protocol = <<[PcBound({}) EXCEPT !.top = @ @@ [preLabel |-> PcSmall.preLabel]]>>]},
     b \in {PcSmall, PcSmallAgree, PcSmallDiffer,
            PcEveryRow(PcSmallDiffer, LAMBDA l : [l EXCEPT !.legacy = TRUE]),
            PcEveryRow(PcSmallDiffer, LAMBDA l : IF l.findingId = "f2" THEN [l EXCEPT !.legacy = TRUE] ELSE l),
            PcFirstRow(PcSmallDiffer, LAMBDA l : [l EXCEPT !.role = "adjudicator", !.round = "adjudication"]),
            PcFirstRow(PcSmallDiffer, LAMBDA l : [l EXCEPT !.reasoned = FALSE]),
            PcTurned([PcSmall EXCEPT !.sampled = {"f1"}]), PcResealed([PcSmall EXCEPT !.sampled = {"f1"}])}}

(* Protocols with a setting in none, one or several of their places. *)
PcDigest == {<<<<"one">>>>, <<<<"two">>, <<"three">>>>}
PcOlder == {<<>>} \cup {[worklists |-> d] : d \in PcDigest} \cup {[worklist |-> <<"one">>], [worklist |-> <<"two">>] @@ [worklists |-> <<>>]}
PcBinds ==
  [protocol : [schema : {TRUE}, studyId : {"study", ""},
               claim : {<<>>} \cup {<<x>> : x \in PcOlder} \cup {<<x @@ [minimum |-> <<1, 2>>, includedRules |-> {"B"}]>> : x \in PcOlder},
               top : {x @@ y : x \in PcOlder, y \in {<<>>, [includedRules |-> {"A"}, minimum |-> <<3, 4>>, metric |-> "blocking_precision"],
                                                    [confidence |-> <<1, 2>>, blockingSeverities |-> {"error", "warning"}]}},
               plan : PcOlder \cup {[raters |-> 3]}, review : {<<>>}, share : {<<>>}, exclusions : {{}}],
   digests : PcDigest]

(* Samples of five findings of three repositories. *)
PcRulesBy == {<<"A", "A", "A", "A", "A">>, <<"A", "B", "A", "B", "A">>, <<"A", "A", "A", "B", "B">>}
PcSampled(repositories, rules, warned) ==
  [i \in 1..5 |-> [PcFinding(i) EXCEPT !.repository = repositories[i], !.ruleId = rules[i],
                                       !.severity = IF i = warned THEN "warning" ELSE IF i = 2 THEN "" ELSE "error"]]
PcSamples ==
  [findings : {PcSampled(r, u, w) : r \in {x \in [1..5 -> {"a", "b", ""}] : x[1] = "a" /\ x[2] # ""}, u \in PcRulesBy, w \in {4}},
   cap : {1, 2}, perRepository : {1, 2}, share : {<<>>, <<<<1, 2>>>>}, rules : {{}, {"A"}}, exclusions : {{}}]
  \cup [findings : {PcSampled(<<"a", "b", "a", "a", "">>, u, w) : u \in PcRulesBy, w \in {0, 4}},
        cap : {1, 2}, perRepository : {1, 2}, share : {<<>>, <<<<1, 2>>>>}, rules : {{}, {"A"}}, exclusions : {PcReason("given")}]

(* Claims over ten findings of ten repositories, and what may be wrong with *)
(* one of them.                                                             *)
PcClaim(b, dirs) ==
  [protocol |-> [PcNoClaim EXCEPT
     !.claim = <<[includedRules |-> {"A", "B"}, preLabel |-> b.preLabel, toolCommit |-> "commit", artifactSet |-> b.artifactSet,
                  minimum |-> <<1, 2>>, confidence |-> <<3, 4>>,
                  worklists |-> [i \in DOMAIN dirs |-> dirs[i].seal]]>>],
   bundle |-> b, worklists |-> dirs]
(* One study, its worklists made and labelled: all agree, two differ, an     *)
(* adjudicator settles it.                                                  *)
PcStarted ==
  {[work |-> w, agreed |-> PcLabelled(PcTen, w, PcTrue), differing |-> PcLabelled(PcTen, w, PcDiffer),
    first |-> CHOOSE e \in AssignedIn(w) : e.findingId = "f1" /\ e.round = "blind_first",
    second |-> CHOOSE e \in AssignedIn(w) : e.findingId = "f2" /\ e.round = "blind_first"] :
     w \in {CreateWorklist(PcBlind, PcTen, "work")}}
PcStudies ==
  {[settle |-> p[2], settled |-> PcLabelled(p[1].differing, p[2], PcTrue)] @@ p[1] :
     p \in {<<k, CreateWorklist(PcSettle("cem"), k.differing, "settle")>> : k \in PcStarted}}
PcBase(k) == PcClaim(k.agreed, <<k.work>>)
PcBothBase(k) == PcClaim(k.settled, <<k.work, k.settle>>)
PcClaimsOf(b, dirs, says(_, _)) ==
  {PcClaim(p[1], <<p[2]>>) : p \in {<<PcLabelled(b, dir, says), dir>> : dir \in dirs}}

PcVerdicts(k) ==
  UNION {PcClaimsOf(PcTen, {k.work}, LAMBDA id, round : PcExcept(ids, label, id)) :
     ids \in {{"f1"}, {"f1", "f3", "f5", "f7"}, {PcIds[i] : i \in 1..10}}, label \in AllowedLabels \cup {"good"}}
  \cup {PcBothBase(k), PcClaim(k.differing, <<k.work>>), PcClaim(k.differing, <<k.work, k.settle>>), PcClaim(k.settled, <<k.work>>),
        PcClaim(k.settled, <<k.settle, k.work>>), PcClaim(k.settled, <<k.settle>>), PcClaim(PcTen, <<k.work>>), PcClaim(k.agreed, <<>>),
        PcClaim(k.agreed, <<k.work, k.work>>)}
  \cup {PcClaim(PcLabelled(k.differing, dir, LAMBDA id, round : label), <<k.work, dir>>) :
          dir \in {CreateWorklist(PcSettle(name), k.differing, "other") : name \in {"ann", "gpt", "dan"}},
          label \in {"false_positive", "out_of_scope"}}
(* An adjudication that nobody assigned, or of findings nobody differed on. *)
PcUnasked(k) ==
  {PcClaim([b EXCEPT !.labels = @ \o PcRows(k.settle, LAMBDA id, round : label)], dirs) :
     b \in {k.agreed, k.settled}, label \in {"true_positive", "false_positive"}, dirs \in {<<k.work>>, <<k.work, k.settle>>}}
PcTwenties ==
  UNION {PcClaimsOf(PcTwenty, {CreateWorklist(PcBlind, PcTwenty, "other")}, LAMBDA id, round : PcExcept(p[1], p[2], id)) :
     p \in {<<{}, "">>, <<{"f1", "f12"}, "false_positive">>, <<{"f1", "f3", "f5", "f7"}, "needs_policy">>, <<{"f1", "f11"}, "false_positive">>}}
PcHeavy == UNION {PcClaimsOf(b, {CreateWorklist(PcBlind, b, "other")}, PcTrue) : b \in {PcBundle(1..11)}}

(* One row, one setting, one part of the bundle or one file that is not as it should be. *)
PcRowEdits(l) ==
  {[l EXCEPT !.studyId = "other"], [l EXCEPT !.findingId = "f2"], [l EXCEPT !.findingId = "f0"], [l EXCEPT !.rater = "bob"],
   [l EXCEPT !.rater = "gpt"], [l EXCEPT !.rater = "fp-ann"], [l EXCEPT !.rater = ""], [l EXCEPT !.raterType = "agent"],
   [l EXCEPT !.raterType = "organization"], [l EXCEPT !.raterType = ""], [l EXCEPT !.legacy = TRUE], [l EXCEPT !.role = "adjudicator"],
   [l EXCEPT !.round = "blind_second"], [l EXCEPT !.round = "blind_first"], [l EXCEPT !.round = "adjudication"], [l EXCEPT !.flagged = TRUE],
   [l EXCEPT !.role = "adjudicator", !.round = "adjudication", !.flagged = TRUE, !.sawPeerLabels = TRUE, !.sourceHasLabels = TRUE,
             !.claimUse = "sealed_adjudication"],
   [l EXCEPT !.assignmentId = <<>>], [l EXCEPT !.assignmentId[2] = "f2"], [l EXCEPT !.evidencePackageId = <<>>],
   [l EXCEPT !.evidencePackageId = <<"f2">>], [l EXCEPT !.worklist = <<>>], [l EXCEPT !.worklist = PcWorkSmall.seal],
   [l EXCEPT !.sawPeerLabels = ~@], [l EXCEPT !.sourceHasLabels = ~@], [l EXCEPT !.claimUse = "diagnostic_only_existing_labels"],
   [l EXCEPT !.label = ""], [l EXCEPT !.label = "invalid_setup"], [l EXCEPT !.reasoned = FALSE]}
PcIsFirst(b, i) == b.labels[i].findingId = "f1"
PcRowsWrong(k) ==
  UNION {LET i == CHOOSE n \in DOMAIN b.labels : PcIsFirst(b, n) /\ b.labels[n].round = round
         IN {PcClaim([b EXCEPT !.labels[i] = l], <<k.work>> \o (IF b = k.agreed THEN <<>> ELSE <<k.settle>>)) : l \in PcRowEdits(b.labels[i])}
         : <<b, round>> \in {<<k.agreed, "blind_first">>, <<k.settled, "blind_second">>, <<k.settled, "adjudication">>}}
  \cup {PcClaim([b EXCEPT !.labels = SelectSeq(@, LAMBDA l : l.findingId # "f1" \/ l.round # round)], <<k.work, k.settle>>) :
          b \in {k.agreed, k.settled}, round \in BlindRounds \cup {"adjudication"}}
  \cup {PcClaim([b EXCEPT !.labels = Append(@, @[1])], <<k.work>>) : b \in {k.agreed}}
PcSet(c, key, value) == [c EXCEPT !.protocol.claim = <<(key :> value) @@ @[1]>>]
PcPlan(c, key, value) == [c EXCEPT !.protocol.plan = (key :> value) @@ @]
PcProtocolsWrong(k) ==
  UNION {{PcSet(c, "minimum", <<1, 1>>), PcSet(c, "minimum", <<2, 3>>), PcSet(c, "minimum", <<0, 1>>),
     PcSet(c, "confidence", <<95, 100>>), PcSet(c, "confidence", <<99, 100>>), PcSet(c, "metric", "recall"), PcSet(c, "toolCommit", ""),
     PcSet(c, "toolCommit", "other"), PcSet(c, "artifactSet", PcTen.artifactSet), PcSet(c, "preLabel", <<>>), PcSet(c, "preLabel", <<"else">>),
     PcSet(c, "includedRules", {}), PcSet(c, "includedRules", {"A"}), PcSet(c, "includedRules", {"A", "B", "C"}),
     PcSet(c, "blockingSeverities", {"error", "warning"}), PcSet(c, "worklists", <<PcWorkSmall.seal>>), PcSet(c, "worklists", <<>>),
     [c EXCEPT !.protocol.schema = FALSE], [c EXCEPT !.protocol.studyId = "other"], [c EXCEPT !.protocol.studyId = ""],
     [c EXCEPT !.protocol.share = <<<<1, 11>>>>], [c EXCEPT !.protocol.share = <<<<1, 9>>>>], [c EXCEPT !.protocol.exclusions = PcReason("given")],
     [c EXCEPT !.protocol.exclusions = PcReason("null")], [c EXCEPT !.protocol.review = [required |-> TRUE]],
     [c EXCEPT !.protocol.claim = <<>>, !.protocol.top = c.protocol.claim[1]],
     PcPlan(c, "raters", 1), PcPlan(c, "raters", 3), PcPlan(c, "types", {"human"}), PcPlan(c, "types", {"organization"}), PcPlan(c, "known", TRUE),
     PcPlan(c, "nonHuman", FALSE), PcPlan(c, "external", TRUE), PcPlan(PcPlan(c, "external", TRUE), "minimumExternal", 2),
     PcPlan(PcPlan(c, "external", TRUE), "minimumExternal", 3),
     PcPlan(PcPlan(c, "external", TRUE), "externalTypes", {"organization"})} : c \in {PcBase(k), PcBothBase(k)}}
PcAgents ==
  UNION {{c, PcSet(c, "minimum", <<99, 100>>), PcPlan(c, "external", TRUE), PcPlan(c, "nonHuman", FALSE), PcPlan(c, "types", {"human"})} :
     c \in PcClaimsOf(PcTen, {CreateWorklist([PcBlind EXCEPT !.types = <<"agent">>], PcTen, "other")}, PcTrue)}
PcBundlesWrong(k) ==
  UNION {PcClaimsOf(PcResealed(b), {CreateWorklist(PcBlind, PcResealed(b), "other")}, PcTrue) :
     b \in {[PcTen EXCEPT !.commit = "other"], [PcTen EXCEPT !.commit = ""], [PcTen EXCEPT !.harness = "dirty"], [PcTen EXCEPT !.harness = ""],
            [PcTen EXCEPT !.sealed = FALSE], [PcTen EXCEPT !.sampled = @ \ {"f1"}], [PcTen EXCEPT !.sampled = @ \cup {"f0"}],
            [PcTen EXCEPT !.subjects["s1"].before.status = "draft"], [PcTen EXCEPT !.subjects["s1"].before.strategy = "generated"],
            [PcTen EXCEPT !.subjects["s1"].before.readers = {}], [PcTen EXCEPT !.subjects["s1"].before = PcCopy],
            [PcTen EXCEPT !.subjects["s1"].before.status = "draft", !.findings = {IF f.subjectId = "s1" THEN [f EXCEPT !.precisionEligible = FALSE] ELSE f : f \in @}],
            [PcTen EXCEPT !.findings = {[f EXCEPT !.repository = "one"] : f \in @}],
            [PcTen EXCEPT !.findings = {[f EXCEPT !.fingerprint = "same"] : f \in @}]}}
  \cup {[PcBase(k) EXCEPT !.bundle.preLabel = <<"else">>], [PcBase(k) EXCEPT !.bundle.evidence["s1"] = "turned", !.bundle.preLabelSet = <<"changed">>],
        PcClaim(PcTurned([k.agreed EXCEPT !.evidence["s1"] = "turned"]), <<k.work>>),
        PcClaim(PcResealed([k.agreed EXCEPT !.evidence["s1"] = "turned"]), <<k.work>>)}
PcReplayClaims ==
  UNION {PcClaimsOf(b, {CreateWorklist(PcBlind, b, "other")}, PcTrue) :
     b \in {PcReplays(PcCopy.attestations), PcReplays({}), PcReplays({[id |-> "gpt", type |-> "human", independent |-> TRUE]}),
            PcReplays({[id |-> "rev", type |-> "human", independent |-> FALSE]}), PcReplays({[id |-> "rev", type |-> "agent", independent |-> TRUE]}),
            PcResealed([PcReplays(PcCopy.attestations) EXCEPT !.subjects["s1"].after.strategy = "copy"]),
            PcResealed([PcReplays(PcCopy.attestations) EXCEPT !.subjects["s1"].before.digest = <<"other">>]),
            PcResealed([PcReplays(PcCopy.attestations) EXCEPT !.subjects["s1"].before.noted = FALSE])}}
(* A warning that was sampled and that the claim does not count. *)
PcWarnedClaims ==
  PcClaimsOf(PcWarned, {CreateWorklist([PcBlind EXCEPT !.severities = s], PcWarned, "other") : s \in {{"error"}, {"error", "warning"}}}, PcTrue)

PcDirsWrong(k) ==
  LET files == k.work.files
      manifests ==
        {[files EXCEPT ![ManifestPath] = m] :
           m \in {[ManifestOf(k.work) EXCEPT !.existing = 1], [ManifestOf(k.work) EXCEPT !.allowExisting = TRUE],
                  [ManifestOf(k.work) EXCEPT !.selected = 9], [ManifestOf(k.work) EXCEPT !.size = 19], [ManifestOf(k.work) EXCEPT !.version = 2],
                  [ManifestOf(k.work) EXCEPT !.mode = "adjudication"], [ManifestOf(k.work) EXCEPT !.studyId = "other"],
                  [ManifestOf(k.work) EXCEPT !.bundle.preLabel = <<"else">>], [ManifestOf(k.work) EXCEPT !.raters = {r \in @ : r.rater = "ann"}],
                  [ManifestOf(k.work) EXCEPT !.assignments = @ \ {k.first}],
                  [ManifestOf(k.work) EXCEPT !.filters.exclusions = PcReason("null")],
                  [ManifestOf(k.work) EXCEPT !.filterDigest = FilterDigest(ManifestOf(k.work).filters)]}}
      assignments ==
        {[files EXCEPT ![k.first.path] = a] :
           a \in {[files[k.first.path] EXCEPT !.template.rater = "bob"], [files[k.first.path] EXCEPT !.template.label = "true_positive"],
                  [files[k.first.path] EXCEPT !.finding.ruleId = "B"], [files[k.first.path] EXCEPT !.finding.ruleId = "A"],
                  [files[k.first.path] EXCEPT !.evidence = "turned"], [files[k.first.path] EXCEPT !.sourceLabels = {k.agreed.labels[1]}],
                  [files[k.first.path] EXCEPT !.sawPeerLabels = TRUE], [files[k.first.path] EXCEPT !.entry = k.second], files[k.second.path]}}
  IN {PcClaim(k.agreed, <<SealedWorklist(f, "sealed")>>) : f \in manifests \cup assignments}
     \cup {PcClaim(k.agreed, <<[k.work EXCEPT !.files = f, !.intact = FALSE]>>) : f \in assignments}
     \cup {PcClaim([k.agreed EXCEPT !.labels = [i \in DOMAIN @ |-> [@[i] EXCEPT !.worklist = <<>>]]], <<dir>>) :
             dir \in {k.work, [k.work EXCEPT !.files = [x \in DOMAIN @ \ {k.first.path} |-> @[x]]],
                      SealedWorklist([x \in DOMAIN files \ {k.first.path} |-> files[x]], "sealed"), SealedWorklist(((<<"more">> :> files[k.first.path]) @@ files), "sealed")}}
PcClaims ==
  UNION {PcVerdicts(k) \cup PcUnasked(k) \cup PcRowsWrong(k) \cup PcProtocolsWrong(k) \cup PcBundlesWrong(k) \cup PcDirsWrong(k) : k \in PcStudies}
  \cup PcTwenties \cup PcHeavy \cup PcAgents \cup PcReplayClaims \cup PcWarnedClaims

(* Labels that move to a newer study of two or three findings. *)
PcTarget == PcResealed([PcBundle(1..3) EXCEPT !.studyId = "newer"])
PcTargetPart == PcResealed([PcBundle(2..3) EXCEPT !.studyId = "newer"])
PcWorkTarget == CreateWorklist(PcBlind, PcTarget, "target")
PcTargetDirs ==
  {<<>>, <<PcWorkTarget>>, <<CreateWorklist([PcBlind EXCEPT !.raters = <<"bob", "ann">>], PcTarget, "other")>>, <<PcWorkSmall>>, <<PcWorkTarget, PcWorkTarget>>}
PcSmallSettled == PcLabelled(PcSmallDiffer, CreateWorklist(PcSettle("cem"), PcSmallDiffer, "other"), PcTrue)
PcOfThird(worker) == SelectSeq(PcRows(worker, PcDiffer), LAMBDA l : l.findingId = "f3")
PcTransfers ==
  [source : {[PcSmall EXCEPT !.labels = <<>>], PcSmallAgree, PcSmallDiffer, PcSmallSettled}
            \cup {[PcSmallDiffer EXCEPT !.labels[1] = l] : l \in PcRowEdits(PcSmallDiffer.labels[1])},
   target : {PcTarget, PcTargetPart}, worklists : PcTargetDirs,
   extra : {<<>>, PcOfThird(PcWorkTarget), PcSmallDiffer.labels},
   defaultType : {"", "human"}, strict : BOOLEAN]
-----------------------------------------------------------------------------

(* Tool calls: two spellings of a write tool, a read tool, an unknown tool.  *)
PxNames == {"Edit", "edit", "list", "List", "other"}

PxKeys == {"path", "file"}
PxBuiltIn == <<[name |-> "Edit", keys |-> {"path"}]>>
PxSomeOptions ==
  [mode : {"enforce", "dry-run", "off"}, failMode : {"closed", "open"}, unknown : {"allow", "deny"},
   writeTools : {PxBuiltIn, <<[name |-> "edit", keys |-> PxKeys]>>}, readTools : {{}, {"list"}, {"List"}}]
PxSomeArgs == [PxKeys -> {{}, {"f"}}]
PxCalls == [options : PxSomeOptions, tool : PxNames, args : PxSomeArgs, verdict : {"ok", "denied", "error"}]

(* Command lines of at most three tokens in front of the agent and command.  *)
PxDeclared == ("edit=file" :> [name |-> "edit", keys |-> {"file"}]) @@
            ("Edit=path" :> [name |-> "Edit", keys |-> {"path"}])
PxConfigs ==
  ("c.json" :> [writeTools |-> <<[name |-> "EDIT", keys |-> {"path"}]>>, readTools |-> {"list"}, unknown |-> "allow"]) @@
  ("d.json" :> [writeTools |-> <<[name |-> "edit", keys |-> {"file"}]>>, readTools |-> {}, unknown |-> None])
PxLineNames == PxNames \cup {"EDIT"}
PxLineLower == [n \in PxLineNames |-> IF n \in {"Edit", "EDIT"} THEN "edit" ELSE IF n = "List" THEN "list" ELSE n]
PxTokens ==
  {Token("option", o, None) : o \in {"mode", "unknown", "feature", "writeTool", "toolConfig", "agent"}} \cup
  {Token("assigned", "mode", "off"), Token("assigned", "failMode", "open"), Token("assigned", "unknown", Empty),
   Token("assigned", "unknown", "allow"), Token("assigned", "unknown", "deny"),
   Token("assigned", "writeTool", "Edit=path"), Token("assigned", "toolConfig", "c.json"),
   Token("flag", "mismatch", None), Token("word", None, "dry-run"), Token("word", None, "allow"), Token("word", None, "edit=file"),
   Token("word", None, "d.json")}
PxCommand ==
  <<Token("option", "agent", None), Token("word", None, "a"), Token("end", None, None), Token("word", None, "cmd"),
    Token("assigned", "writeTool", "Edit=path")>>
PxEnv ==
  [mode |-> "enforce", failMode |-> "closed", unknown |-> "deny", feature |-> "deny", readTools |-> {},
   agent |-> Empty, command |-> Empty]
PxLine(t, n) == [tokens |-> t, env |-> PxEnv, defaults |-> PxBuiltIn, tool |-> n, args |-> [k \in PxKeys |-> {k}]]
PxLines ==
  {PxLine(t \o e, n) : t \in UNION {[1..m -> PxTokens] : m \in 0..2}, e \in {<<>>, PxCommand}, n \in {"edit", "list"}}
  \cup {PxLine(t \o PxCommand, "edit") : t \in [1..3 -> PxTokens]}
================================================================================
