------------------------------ MODULE MCPolicies -------------------------------
(* The cases of Policies. *)
EXTENDS Policies, TLC

(* Exports maps of two keys over the subpaths ./a and ./a/a.                *)
P(text) == [kind |-> "path", path |-> text]
Either(items) == [kind |-> "list", items |-> items]
When(branches) == [kind |-> "conditions", branches |-> branches]
On(c, e) == [on |-> c, entry |-> e]
Entries ==
  {Null, P(<<".", "s", "*">>), P(<<".", "t">>), P(<<"t">>), Either(<<Null, P(<<".", "t">>)>>), Either(<<Null, Null>>),
   Either(<<P(<<"t">>), P(<<".", "t">>)>>), When(<<On("types", P(<<".", "t">>)), On("import", P(<<".", "s", "*">>))>>),
   When(<<On("browser", P(<<".", "t">>))>>), When(<<On("import", Null), On("default", P(<<".", "t">>))>>),
   When(<<On("default", P(<<".", "s", "*">>)), On("types", P(<<".", "t">>))>>),
   When(<<On("require", P(<<".", "t">>)), On("node", When(<<On("import", P(<<".", "u">>))>>))>>)}
Subpath == {<<".", "a">>, <<".", "a", "a">>, <<".">>}
MapKeys == {<<".">>, <<".", "*">>, <<".", "a", "*">>, <<".", "*", "a">>, <<".", "a", "a">>}
Exports ==
  [exports : {NoExports} \cup
     [kind : {"map"}, map : {<<[key |-> k, entry |-> e], [key |-> l, entry |-> f]>> :
                              <<k, l>> \in {p \in MapKeys \X MapKeys : p[1] # p[2]}, e \in Entries, f \in Entries}],
   specifier : Subpath, mode : {"import", "require", "types"},
   files : {{<<".", "t">>, <<".", "s", "a">>}}]

(* Two aliases over four files. *)
AliasPatterns == {<<"@", "a">>, <<"@", "*">>, <<"*">>, <<"@", "*", "a">>}
AliasTargets == {<<<<"a">>>>, <<<<"b", "*">>>>, <<<<"b", "*">>, <<"a">>>>}
AliasFiles == {File(<<"a">>, ".ts", FALSE), File(<<"a">>, ".d.ts", FALSE), File(<<"b", "a">>, ".js", TRUE),
               File(<<"b", "a">>, ".d.ts", TRUE)}
Aliases ==
  [aliases : {<<[pattern |-> p, targets |-> s], [pattern |-> q, targets |-> t]>> :
                p \in AliasPatterns, q \in AliasPatterns, s \in AliasTargets, t \in AliasTargets},
   specifier : {<<"@", "a">>, <<"@", "a", "a">>}, files : SUBSET AliasFiles]

(* Three files that re-export and import types from each other. *)
Surfaces ==
  [tree : [{"e", "f", "g"} ->
     {[exports |-> x, stars |-> s, named |-> <<>>, types |-> t] :
        x \in {{"default"}, {"p"}, {"default", "q"}},
        s \in {<<>>, <<"f">>, <<"g", "e">>}, t \in {<<>>, <<"g">>}}],
   entry : {"e"}]

(* Programs of two nested scopes. *)
E(form, name) == [form |-> form, name |-> name]
Decl(how, name, value) == [op |-> "declare", how |-> how, name |-> name, value |-> value]
CallOf(callee, arg) == [op |-> "call", callee |-> callee, arg |-> arg]
Assign(name, value) == [op |-> "assign", name |-> name, value |-> value]
Nothing == E("other", "")
Stmts ==
  {Decl("var", "r", E("id", "require")), Decl("const", "r", E("id", "require")), Decl("const", "r", Nothing),
   Decl("const", "r", E("member", "module")), Decl("var", "module", Nothing), Decl("const", "require", Nothing),
   Decl("const", "m", E("text", "a")), Decl("var", "m", E("text", "b")), Decl("const", "r", E("create", "c")),
   Assign("r", E("id", "require")), Assign("r", Nothing), CallOf(E("id", "r"), E("id", "m")),
   CallOf(E("id", "require"), E("text", "b")), CallOf(Nothing, E("id", "r"))}
Open(fn) == [op |-> "open", fn |-> fn]
Close == [op |-> "close"]
Begin == <<[op |-> "import", name |-> "c"]>>
LegalList(list) ==
  \A i, j \in DOMAIN list : i < j /\ list[i].op = "declare" /\ list[j].op = "declare" /\ list[i].name = list[j].name
    => list[i].how = "var" /\ list[j].how = "var"
Programs ==
  {Begin \o <<s, t, Open(fn), u, CallOf(E("id", "r"), E("id", "m")), Close>> :
     s \in Stmts, t \in {x \in Stmts : TRUE}, u \in Stmts, fn \in BOOLEAN} \cup
  {Begin \o <<s, Open(fn), t, u, Close, CallOf(E("id", "r"), E("text", "d"))>> :
     s \in Stmts, t \in Stmts, u \in Stmts, fn \in BOOLEAN}
LegalPrograms ==
  {p \in Programs : LegalList(IF p[4].op = "open" THEN <<p[2], p[3]>> ELSE <<p[4], p[5]>>)}
-----------------------------------------------------------------------------

(* Guarded requires: files of up to three statements with one guard at least. *)
GdSets ==
  [op : {"set"}, how : {"const", "let"}, top : BOOLEAN, exported : {FALSE}, elements : {<<"a">>, <<"a", "b">>}] \cup
  {[op |-> "set", how |-> "const", top |-> TRUE, exported |-> TRUE, elements |-> <<"a">>]}
GdStatements ==
  GdSets \cup [op : {"use"}, way : {"add", "alias", "test"}]
  \cup [op : {"patch"}, way : {"assign", "define", "defineAll", "defineOther", "aliased"}]
  \cup {[op |-> "class"]} \cup [op : {"guard"}, required : BOOLEAN, single : BOOLEAN]
GdLegal(f) ==
  /\ \E i \in DOMAIN f : f[i].op = "guard"
  /\ Cardinality({i \in DOMAIN f : f[i].op = "set" /\ f[i].top}) <= 1
  /\ \A i \in DOMAIN f : f[i].op = "set" /\ ~f[i].top => \A k \in DOMAIN f : k > i => f[k].op # "set"
  /\ \A i \in DOMAIN f : f[i].op \in {"use", "guard"} => \E k \in 1..(i - 1) : f[k].op = "set"
GdFiles == {f \in UNION {[1..n -> GdStatements] : n \in 1..3} : GdLegal(f)}

(* Programs of a module and up to two nested frames. *)
TextExpr(form, left, right) == [form |-> form, left |-> left, right |-> right]
TextExprs ==
  {TextExpr("text", "s", ""), TextExpr("id", "p", ""), TextExpr("other", "", ""),
   TextExpr("either", "s", "p"), TextExpr("join", "t", "p")}
TextDecl(how, name, e) == [op |-> "declare", how |-> how, name |-> name, value |-> e]
TextSet(op, name, e) == [op |-> op, name |-> name, value |-> e]
TextStmts ==
  {TextDecl(h, "q", e) : h \in {"const", "var"}, e \in TextExprs} \cup
  {TextDecl("let", "p", TextExpr("text", "t", "")), TextDecl("const", "p", TextExpr("id", "q", ""))} \cup
  {TextSet(op, "q", e) : op \in {"assign", "nested", "closure"}, e \in {TextExpr("text", "t", ""), TextExpr("other", "", "")}}
TextTops ==
  {<<>>, <<TextDecl("const", "q", TextExpr("text", "t", "")), TextDecl("const", "p", TextExpr("either", "s", "t"))>>,
   <<TextDecl("const", "p", TextExpr("text", "s", "")), TextDecl("const", "q", TextExpr("id", "p", ""))>>,
   <<TextDecl("let", "q", TextExpr("text", "t", "")), TextDecl("const", "p", TextExpr("join", "s", "q"))>>}
LegalTexts(list) ==
  /\ \A i, j \in DOMAIN list : i < j /\ list[i].op = "declare" /\ list[j].op = "declare" => list[i].name # list[j].name
  /\ \A i, j \in DOMAIN list : list[i].op = "declare" /\ list[i].how = "const" /\ list[j].op # "declare" => list[i].name # list[j].name
TextLists == {l \in {<<>>} \cup {<<s>> : s \in TextStmts} \cup {<<s, t>> : s \in TextStmts, t \in TextStmts} : LegalTexts(l)}
TextFrame(kind, head, before, after) == [kind |-> kind, head |-> head, before |-> before, after |-> after]
TextPrograms ==
  [top : TextTops, name : {"q"},
   frames : {<<TextFrame("function", h, b, <<>>)>> : h \in {{}, {"p"}}, b \in TextLists} \cup
            {<<TextFrame("function", {}, b, <<>>), TextFrame(k, h, c, a)>> :
               k \in {"function", "block", "loop", "catch"}, h \in {{}, {"q"}},
               b \in {l \in TextLists : Len(l) <= 1}, c \in {l \in TextLists : Len(l) <= 1},
               a \in {<<>>, <<TextSet("assign", "q", TextExpr("other", "", ""))>>}}]
LegalTextPrograms ==
  {x \in TextPrograms : \A i \in DOMAIN x.frames :
     /\ x.frames[i].kind = "block" => x.frames[i].head = {}
     /\ x.frames[i].kind \in {"function", "catch"} => x.frames[i].head \cap DeclaredNames(x.frames[i].before) = {}}

(* Names for node:fs: programs of a module and up to two frames within it. *)

FsExpr(form, of, method) == [form |-> form, of |-> of, method |-> method]
FsValues ==
  {FsExpr("module", "", ""), FsExpr("named", "", "read"), FsExpr("member", "f", "write"), FsExpr("promises", "f", ""),
   FsExpr("alias", "f", ""), FsExpr("other", "", "")}
FsStmt(how, name, value) == [how |-> how, name |-> name, value |-> value]
FsStmts ==
  {FsStmt(h, n, v) : h \in {"const", "var"}, n \in {"f", "g"}, v \in FsValues} \cup
  {FsStmt("function", n, FsExpr("other", "", "")) : n \in {"f", "g"}}
FsImports == {<<>>} \cup {<<FsStmt("import", n, v)>> : n \in {"f", "g"}, v \in {FsExpr("module", "", ""), FsExpr("named", "", "read")}}
FsFrame(head, before, after) == [head |-> head, before |-> before, after |-> after]
LegalFs(f) ==
  LET all == f.before \o f.after IN
  /\ \A i, j \in DOMAIN all : i < j => all[i].name # all[j].name
  /\ \A i \in DOMAIN all : all[i].name \notin f.head
FsLists == {<<>>} \cup {<<s>> : s \in FsStmts}
FsAfter == {<<>>} \cup {<<s>> : s \in {x \in FsStmts : x.value.form = "other" /\ x.how = "const"}}
OuterFrames == {f \in {FsFrame({}, i \o b, a) : i \in FsImports, b \in FsLists, a \in FsAfter} : LegalFs(f)}
InnerFrames == {f \in {FsFrame(h, b, a) : h \in {{}, {"f"}, {"g"}}, b \in FsLists, a \in FsAfter} : LegalFs(f)}
FsPrograms ==
  [callee : {FsExpr("member", "f", "read"), FsExpr("alias", "g", "")},
   frames : {<<outer, inner>> : outer \in OuterFrames, inner \in InnerFrames}]
-----------------------------------------------------------------------------
(* SQL texts of two clauses among comments, literals and quoted names; files *)
(* of one or two calls.                                                      *)
SqlPart(kind, tokens) == [kind |-> kind, tokens |-> tokens]
SqlBodies == {<<"from", "x">>, <<"--">>, <<"/*">>, <<"'">>, <<"QUOTE">>}
SqlNoise ==
  {SqlPart("space", <<>>)} \cup
  {SqlPart("literal", <<"'">> \o b \o <<"'">>) : b \in SqlBodies \ {<<"'">>}} \cup
  {SqlPart("line", <<"--">> \o b \o <<"NEWLINE">>) : b \in SqlBodies} \cup
  {SqlPart("block", <<"/*">> \o b \o <<"*/">>) : b \in SqlBodies}
SqlNames_ == {SqlPart("code", <<"t">>)} \cup
             {SqlPart("name", <<"QUOTE">> \o b \o <<"QUOTE">>) : b \in {<<"t">>, <<"--">>, <<"'">>, <<"/*">>}}
SqlTextCases ==
  {<<p, SqlPart("code", <<v>>), g, n, q, SqlPart("code", <<"from", "u">>)>> :
     p \in {x \in SqlNoise : x.kind # "line"}, v \in {"from", "delete from"},
     g \in {SqlPart("space", <<>>), SqlPart("block", <<"/*", "'", "*/">>)}, n \in SqlNames_, q \in SqlNoise}

SqlNamed == ("q" :> <<"select", "from", "t">>) @@ ("d" :> <<"select", "delete from", "t">>) @@ ("n" :> <<"select">>)
RArg(form, text) == [form |-> form, text |-> text, number |-> 0, props |-> <<>>]
RAbsent == RArg("absent", "")
RObject(props) == [RArg("object", "") EXCEPT !.props = props]
RTexts == {RAbsent, RArg("literal", ""), RArg("literal", "t"), RArg("literal", "q"), RArg("constant", "d"), RArg("name", "User"),
           RArg("name", "x"), RArg("other", "")}
RCall(how, method, args) ==
  [how |-> how, method |-> method, root |-> "", chained |-> FALSE, member |-> "", names |-> {}, entity |-> RAbsent,
   fs |-> "", args |-> args]
SwitchedOn(root, c) == [c EXCEPT !.root = root]
RQueries ==
  {SwitchedOn(r, RCall(h, m, <<a, RAbsent>>)) : r \in {"prisma", "pool", "client"}, h \in {"call", "template"},
     m \in {"query", "$queryRaw", "$queryRawUnsafe"}, a \in RTexts} \cup
  {[SwitchedOn(r, RCall("call", m, <<a, RAbsent>>)) EXCEPT !.member = "user"] :
     r \in {"prisma", "client"}, m \in {"findMany", "update", "query"}, a \in {RAbsent, RArg("other", "")}}
RBuilders ==
  {[SwitchedOn(r, RCall("call", m, <<a, RAbsent>>)) EXCEPT !.chained = (n # {}), !.names = n] :
     r \in {"db", "users"}, m \in {"from", "update", "into", "insertInto", "selectFrom", "delete", "find"}, a \in RTexts,
     n \in {{}, {"select"}, {"delete"}, {"createQueryBuilder"}}} \cup
  {[RCall("call", m, <<RAbsent, RAbsent>>) EXCEPT !.entity = a] : m \in {"find", "save"}, a \in RTexts}
RFiles ==
  {[RCall("call", m, <<a, b>>) EXCEPT !.fs = m] :
     m \in {"readFile", "writeFile", "copyFile", "open", "createReadStream"}, a \in RTexts,
     b \in {RAbsent, RArg("literal", "w"), RArg("literal", "r"), RArg("other", ""), RObject("fd" :> "3"),
            [RArg("number", "") EXCEPT !.number = 0], [RArg("number", "") EXCEPT !.number = 2],
            [RArg("number", "") EXCEPT !.number = 1088]}}
ROthers ==
  {SwitchedOn(r, RCall("call", m, <<a, RAbsent>>)) : r \in {"", "app", "bus", "jobs", "cp"},
     m \in {"fetch", "get", "publish", "add", "execSync", "route", "send"},
     a \in RTexts \cup {RArg("literal", "/route"), RArg("literal", "curl"), RObject("topic" :> "t"),
                        RObject(("url" :> "/u") @@ ("method" :> "get"))}} \cup
  {RCall("new", m, <<a, RAbsent>>) : m \in {"Worker", "DatabaseSync"}, a \in RTexts}
RDeclared(name, how, callee, arg) == [name |-> name, how |-> how, callee |-> callee, arg |-> arg]
RDeclarations ==
  {RDeclared("client", "new", "PrismaClient", RAbsent), RDeclared("users", "call", "getRepository", RArg("name", "User")),
   RDeclared("x", "call", "pgTable", RArg("literal", "t")), RDeclared("jobs", "new", "Queue", RArg("literal", "t"))}
RFile(calls, controller) ==
  [declarations |-> RDeclarations, schema |-> ("user" :> "people"), calls |-> calls,
   classes |-> {[name |-> "User", entity |-> "people", controller |-> controller, prefix |-> "p",
                 routes |-> {[verb |-> "get", path |-> "r"]}]}]
RSwitched == {{a} : a \in Adapters} \cup {{"prisma", "sql-literal"}, {"typeorm", "drizzle"}, Adapters}
CallFiles ==
  {[file |-> RFile({c}, FALSE), off |-> {o}] : c \in RQueries, o \in {"prisma", "sql-literal"}} \cup
  {[file |-> RFile({c, SwitchedOn("pool", RCall("call", "query", <<RArg("literal", "q"), RAbsent>>))}, FALSE), off |-> {"prisma"}] :
     c \in RQueries} \cup
  {[file |-> RFile({c}, FALSE), off |-> o] : c \in RBuilders, o \in {{"typeorm"}, {"drizzle"}, {"query-builder"}}} \cup
  {[file |-> RFile({c}, FALSE), off |-> {}] : c \in RFiles} \cup
  {[file |-> RFile({c}, TRUE), off |-> o] : c \in ROthers, o \in RSwitched}
-----------------------------------------------------------------------------
(* Batches of up to five files; programs of up to four statements.           *)
PBFiles == UNION {[1..n -> {"good", "bad", "hang"}] : n \in 0..5}
PBInterpreters == UNION {[1..2 -> {"missing", "broken", "works"}]}
PBCases ==
  {[files |-> f, interpreters |-> i, printed |-> p, limit |-> l, chosen |-> c] :
     f \in PBFiles, i \in {<<"missing", "works">>}, p \in {"ordered", "reversed"}, l \in {1, 5, 64}, c \in {0}}
  \cup {[files |-> f, interpreters |-> i, printed |-> p, limit |-> 7, chosen |-> c] :
          f \in UNION {[1..n -> {"good", "hang"}] : n \in 0..3}, i \in PBInterpreters, p \in {"ordered", "reversed", "short", "twice"}, c \in 0..2}

PStmt(do, how, of, member, as, arg, nested) ==
  [do |-> do, how |-> how, of |-> of, member |-> member, as |-> as, arg |-> arg, nested |-> nested]
PLImports ==
  {PStmt("import", "name", m, "", a, "", FALSE) : m \in {"importlib", "builtins", "pkgutil"}, a \in {"il"}}
  \cup {PStmt("from", "name", m[1], m[2], "f", "", FALSE) :
          m \in {<<"importlib", "import_module">>, <<"builtins", "__import__">>, <<"pkgutil", "resolve_name">>, <<"importlib", "other">>}}
  \cup {PStmt("import", "name", "importlib", "", "il", "", TRUE)}
PLAliases ==
  {PStmt("alias", h, o, m, "g", "", n) :
     h \in {"attribute", "getattr"}, o \in {"il"}, m \in {"import_module", "__import__", "resolve_name"}, n \in BOOLEAN}
  \cup {PStmt("alias", "name", "f", "", "g", "", FALSE), PStmt("alias", "attribute", "f", "x", "il", "", FALSE)}
PLCalls ==
  {PStmt("call", h[1], h[2], h[3], "", a, n) :
     h \in {<<"name", "f", "">>, <<"name", "g", "">>, <<"name", "__import__", "">>, <<"attribute", "il", "import_module">>,
            <<"getattr", "il", "import_module">>, <<"getattr", "il", "resolve_name">>, <<"called", "il", "import_module">>},
     a \in {"m", Computed}, n \in BOOLEAN}
  \cup {PStmt("exec", "name", "", "", "", a, FALSE) : a \in {"m", Computed}}
PLCases ==
  {<<i, c>> : i \in PLImports, c \in PLCalls} \cup {<<i, a, c>> : i \in PLImports, a \in PLAliases, c \in PLCalls}
  \cup {<<c, i, a>> : i \in PLImports, a \in PLAliases, c \in {x \in PLCalls : x.nested}}

PDef(def, name, text) == [def |-> def, name |-> name, text |-> text]
PAll(names, text) == [def |-> "all", name |-> "__all__", text |-> text, names |-> names]
PSDefs == {PDef(d, n, t) : d \in {"function", "variable"}, n \in {"f", "_g", "h"}, t \in {"1", "2"}}
PSAlls == {<<>>, <<PAll({"f"}, "l")>>, <<PAll({"f", "h"}, "l")>>, <<PAll({"f", "_g"}, "l")>>, <<PAll({}, "l")>>, <<PAll({"f"}, Computed)>>}
PSFiles == {<<d>> \o a : d \in PSDefs, a \in PSAlls} \cup {<<d, e>> \o a : d \in {x \in PSDefs : x.def = "function"}, e \in {x \in PSDefs : x.text = "1"}, a \in {<<>>, <<PAll({"f"}, "l")>>}}
PSCases == {<<p, q>> : p \in PSFiles, q \in {x \in PSFiles : Len(x) < 3 /\ x[1].def = "function"}}

PRIncludes == {[receiver |-> x, router |-> y, prefix |-> p] : x \in {"app", "outer"}, y \in {"outer", "inner"}, p \in {<<>>, <<"a", "">>}}
PRCases ==
  {[apps |-> {"app"}, routers |-> ("outer" :> a @@ "inner" :> b), includes |-> i,
    routes |-> {[receiver |-> "inner", path |-> <<"", "r">>, method |-> "get"], [receiver |-> o, path |-> <<"">>, method |-> "put"]}] :
     a \in {<<>>, <<"b">>}, b \in {<<>>, <<"c">>}, i \in {<<>>} \cup {<<x>> : x \in PRIncludes} \cup {<<x, y>> : x \in PRIncludes, y \in PRIncludes},
     o \in {"outer", "app", "other"}}

PMStmt(do, name, path, arg, nested) == [do |-> do, name |-> name, path |-> path, arg |-> arg, nested |-> nested]
PMDecls ==
  {<<PMStmt("model", "M", <<>>, "t", FALSE), PMStmt("assign", "x", p, "", n)>> : p \in {<<"M">>, <<"M", "objects">>, <<"y">>, <<"x", "filter">>}, n \in BOOLEAN}
  \cup {<<PMStmt("assign", "x", <<"M">>, "", n), PMStmt("model", "M", <<>>, "t", n)>> : n \in BOOLEAN}
  \cup {<<PMStmt("entity", "E", <<>>, "e", FALSE), PMStmt("task", "k", <<>>, a, n)>> : a \in {"", "named"}, n \in BOOLEAN}
PMCalls ==
  {PMStmt("call", "", p, a, n) : p \in {<<"M", "objects", "filter">>, <<"M", "_default_manager", "create">>, <<"x", "save">>, <<"x", "filter", "delete">>,
      <<"x", "objects", "get">>, <<"M", "get">>}, a \in {""}, n \in BOOLEAN}
  \cup {PMStmt("call", "", p, a, n) : p \in {<<"select">>, <<"insert">>, <<"s", "get">>, <<"E", "update">>, <<"s", "add">>, <<"s", "close">>, <<"c", "send_task">>},
         a \in {"E", "named"}, n \in BOOLEAN}
  \cup {PMStmt("call", "", p, "", n) : p \in {<<"k", "delay">>, <<"k", "apply_async">>, <<"j", "delay">>}, n \in BOOLEAN}
PMCases == {d \o <<c>> : d \in PMDecls, c \in PMCalls} \cup {<<c>> \o d : d \in PMDecls, c \in PMCalls}

PIRoots == <<<<>>, <<"app">>, <<"src">>>>
PIFiles == {<<"app", "__init__">>, <<"app", "a">>, <<"app", "b", "__init__">>, <<"app", "b">>, <<"src", "app", "__init__">>, <<"src", "app", "c">>, <<"src", "d">>}
PICells == {{}, {[entry |-> <<"app", "b", "__init__">>, prefixes |-> {<<>>, <<"src", "d">>}]}}
PICases ==
  {[files |-> f, importer |-> <<"app", "b", "x">>, up |-> u, parts |-> p, declared |-> {}, cells |-> c] :
     f \in SUBSET PIFiles, u \in {0}, p \in {<<"app">>, <<"app", "a">>, <<"app", "b">>, <<"app", "c">>, <<"a">>}, c \in PICells}
  \cup {[files |-> f, importer |-> <<"app", "b", "x">>, up |-> u, parts |-> p, declared |-> {<<"app">>}, cells |-> {}] :
          f \in SUBSET PIFiles, u \in {1, 2}, p \in {<<"a">>, <<"b">>, <<"__init__">>}}
-----------------------------------------------------------------------------

(* Signatures: an entry and two files; versions that differ in one of their  *)
(* files or in their package maps.                                          *)
SgDecl(name, kind, type, written, detail, exported, internal) ==
  [name |-> name, kind |-> kind, type |-> type, written |-> written, detail |-> detail, exported |-> exported, internal |-> internal]
SgLink(kind, form, to, name) == [kind |-> kind, to |-> [form |-> form, name |-> to], name |-> name]
SgFile(form, emits, decls, links) == [form |-> form, emits |-> emits, decls |-> decls, links |-> links]
SgF(type, written, detail) == SgDecl("f", "function", type, written, detail, TRUE, FALSE)
SgT(exported, detail) == SgDecl("T", "interface", "none", TRUE, detail, exported, FALSE)
SgHidden(type, exported, internal) == SgDecl("h", "variable", type, TRUE, "", exported, internal)
SgIndexes ==
  {SgFile(".ts", TRUE, {}, {SgLink("star", "hash", "impl", "")}),
   SgFile(".ts", TRUE, {SgF("T", TRUE, "")}, {SgLink("type", "bare", "types", "T"), SgLink("from", "self", "b", "g")}),
   SgFile(".ts", TRUE, {SgF("T", TRUE, "")}, {SgLink("type", "bare", "types", "T"), SgLink("from", "hash", "impl", "g")}),
   SgFile(".ts", TRUE, {SgF("T", TRUE, "")}, {SgLink("import", "relative", "c", "T"), SgLink("star", "relative", "b", "")}),
   SgFile(".ts", TRUE, {SgF("number", TRUE, "")}, {}),
   SgFile(".ts", TRUE, {SgF("number", TRUE, ""), SgHidden("number", FALSE, FALSE)}, {}),
   SgFile(".ts", TRUE, {SgF("number", TRUE, ""), SgHidden("number", TRUE, TRUE)}, {}),
   SgFile(".ts", FALSE, {SgF("number", TRUE, "?")}, {}),
   SgFile(".ts", FALSE, {SgF("number", TRUE, ""), SgHidden("string", TRUE, TRUE)}, {}),
   SgFile(".ts", FALSE, {SgF("number", TRUE, "?")}, {SgLink("star", "hash", "impl", "")}),
   SgFile(".ts", FALSE, {SgHidden("number", TRUE, FALSE)}, {SgLink("star", "hash", "impl", "")}),
   SgFile(".ts", TRUE, {SgF("T", TRUE, ""), SgT(FALSE, "y")}, {SgLink("star", "bare", "types", "")})}
SgG(type, written) == SgDecl("g", "variable", type, written, "", TRUE, FALSE)
SgBs ==
  {SgFile(".ts", TRUE, {SgG("number", TRUE)}, {}),
   SgFile(".ts", TRUE, {SgG("number", FALSE), SgHidden("number", FALSE, FALSE)}, {SgLink("star", "relative", "c", "")}),
   SgFile(".ts", TRUE, {SgG("T", TRUE)}, {SgLink("type", "relative", "c", "T")}),
   SgFile(".d.ts", TRUE, {SgG("number", TRUE), SgHidden("number", FALSE, FALSE)}, {})}
SgCs == {SgFile(".ts", TRUE, {SgT(TRUE, "x"), SgG("number", TRUE)}, {}),
         SgFile(".ts", TRUE, {SgT(TRUE, "y"), SgHidden("string", TRUE, TRUE)}, {})}
SgDir(package, aliases, git) == [package |-> package, aliases |-> aliases, git |-> git]
SgPackage(impl, b) == <<[imports |-> "impl" :> impl, exports |-> IF b = Absent THEN "c" :> "c" ELSE "b" :> b]>>
SgDirs ==
  {<<SgDir(SgPackage("b", "b"), <<>>, FALSE), SgDir(SgPackage("c", Absent), <<"types" :> "c">>, TRUE)>>,
   <<SgDir(SgPackage("c", Absent), <<"types" :> "b">>, FALSE), SgDir(<<>>, <<"types" :> "c">>, TRUE)>>,
   <<SgDir(<<>>, <<>>, TRUE), SgDir(SgPackage("b", "gone"), <<"types" :> "c">>, FALSE)>>}
SgVersions == {[files |-> "index" :> i @@ "b" :> b @@ "c" :> c, dirs |-> d] : i \in SgIndexes, b \in SgBs, c \in SgCs, d \in SgDirs}
SgChanged(p) ==
  {[p EXCEPT !.files["index"] = i] : i \in SgIndexes} \cup {[p EXCEPT !.files["b"] = b] : b \in SgBs}
  \cup {[p EXCEPT !.files["c"] = c] : c \in SgCs} \cup {[p EXCEPT !.dirs = d] : d \in SgDirs}
SgCases == UNION {{[before |-> p, after |-> q] : q \in SgChanged(p) \ {p}} : p \in SgVersions}
SgOrder == <<"b", "c", "index">>
================================================================================
