----------------------------- MODULE PythonAnalysis -----------------------------
(***************************************************************************)
(* Python sources (python-analysis.ts with the inspector it runs,          *)
(* python-inspector-runner.ts, and the Python part of module-resolution.ts *)
(* and python-roots.ts): how an interpreter is found and a batch of files  *)
(* inspected, what a file imports, publishes and accesses, and to which    *)
(* file an import leads.  What Python itself does with the same text is    *)
(* the reference of the properties.                                        *)
(***************************************************************************)
EXTENDS ResourceCalls

CONSTANTS
  PyBatchCases, PyLoadCases, PySurfaceCases, PyRouteCases, PyModelCases, PyImportCases,
  PyBatchSize,       \* PYTHON_INSPECTOR_BATCH_SIZE
  PyRootOrder        \* the directories that may be roots, as localeCompare sorts them

-----------------------------------------------------------------------------
(* The runner.  A file is "good", "bad" (its inspection reports an error) or*)
(* "hang" (the whole batch times out with it); an interpreter is "missing", *)
(* "broken" or "works".  What the batch runner prints may be in any order,  *)
(* or "short", or name an id twice.  memo remembers the interpreter that    *)
(* worked last, or that none exists.                                        *)
NoInterpreter == 0
FreshMemo == [chosen |-> NoInterpreter, absent |-> FALSE]
BatchFailed == [ok |-> FALSE, results |-> <<>>]
ErrorOf(i) == [file |-> i, kind |-> "inspector_error"]
ResultOf(e, i) == [file |-> i, kind |-> IF e.files[i] = "good" THEN "inspected" ELSE "reported"]

(* Mutant: results are taken in the order in which they are printed. *)
ParseBatchInOrder(e, batch) ==
  IF e.printed \in {"short", "twice"} THEN BatchFailed
  ELSE [ok |-> TRUE,
        results |-> [k \in DOMAIN batch |-> ResultOf(e, batch[IF e.printed = "reversed" THEN Len(batch) + 1 - k ELSE k])]]

(* PYTHON_BATCH_RUNNER, parsePythonInspectorBatchOutput: results are put in *)
(* place by their id, and all must be there, once.                          *)
ParseBatch(e, batch) ==
  IF e.printed \in {"short", "twice"} THEN BatchFailed
  ELSE [ok |-> TRUE, results |-> [k \in DOMAIN batch |-> ResultOf(e, batch[k])]]

(* pythonCommands *)
CommandOrder(memo, e) ==
  IF memo.chosen = NoInterpreter THEN [i \in DOMAIN e.interpreters |-> i]
  ELSE <<memo.chosen>> \o SelectSeq([i \in DOMAIN e.interpreters |-> i], LAMBDA i : i # memo.chosen)

Works(e, i, batch) ==
  e.interpreters[i] = "works" /\ (\A k \in DOMAIN batch : e.files[batch[k]] # "hang") /\ ParseBatch(e, batch).ok

(* runPythonInspectorBatch *)
RunBatch(e, memo, batch) ==
  LET order == CommandOrder(memo, e)
      good == SelectSeq(order, LAMBDA i : Works(e, i, batch))
  IN IF memo.absent \/ good = <<>>
     THEN [out |-> BatchFailed, memo |-> [memo EXCEPT !.absent = @ \/ \A i \in DOMAIN e.interpreters : e.interpreters[i] = "missing"]]
     ELSE [out |-> ParseBatch(e, batch), memo |-> [memo EXCEPT !.chosen = Head(good)]]

(* recoverPythonInspectorBatch: a failed batch is halved while attempts are *)
(* left.                                                                    *)
RECURSIVE RecoverBatch(_, _, _)
PyRecovered(results, s) == [results |-> results, left |-> s.left, memo |-> s.memo]
RecoverSecond(e, first, batch) ==
  LET second == RecoverBatch(e, batch, [left |-> first.left, memo |-> first.memo])
  IN PyRecovered(first.results \o second.results, second)
RecoverFrom(e, batch, ran, left) ==
  LET s == [left |-> left, memo |-> ran.memo]
      middle == Len(batch) \div 2
  IN IF ran.out.ok THEN PyRecovered(ran.out.results, s)
     ELSE IF Len(batch) = 1 THEN PyRecovered(<<ErrorOf(batch[1])>>, s)
     ELSE RecoverSecond(e, RecoverBatch(e, SubSeq(batch, 1, middle), s), SubSeq(batch, middle + 1, Len(batch)))
RecoverBatch(e, batch, s) ==
  IF batch = <<>> THEN PyRecovered(<<>>, s)
  ELSE IF s.left <= 0 THEN PyRecovered([k \in DOMAIN batch |-> ErrorOf(batch[k])], s)
  ELSE RecoverFrom(e, batch, RunBatch(e, s.memo, batch), s.left - 1)

(* inspectPendingPythonSources: the attempts are counted anew for each batch.*)
InspectPending(e, memo) ==
  LET n == Len(e.files)
      batches == (n + PyBatchSize - 1) \div PyBatchSize
      batch(b) == [k \in 1..(IF b * PyBatchSize <= n THEN PyBatchSize ELSE n - (b - 1) * PyBatchSize) |-> (b - 1) * PyBatchSize + k]
  IN FoldLeft(LAMBDA done, b :
       LET r == RecoverBatch(e, batch(b), [left |-> IF e.limit < 1 THEN 1 ELSE e.limit, memo |-> done.memo])
       IN [results |-> done.results \o r.results, memo |-> r.memo],
       [results |-> <<>>, memo |-> memo], [b \in 1..batches |-> b])

InspectBatch ==
  Asked("python batch") /\ \E e \in PyBatchCases : Take(e, InspectPending(e, [FreshMemo EXCEPT !.chosen = e.chosen]))

-----------------------------------------------------------------------------
(* What a file loads.  A statement is [do, how, of, member, as, arg,        *)
(* nested], nested ones being those that are not at the top of the module.  *)
Computed == "computed"
ImportsOf(p, m) == {s.as : s \in {x \in p : x.do = "import" /\ x.of = m /\ ~x.nested}}
FromsOf(p, m, n) == {s.as : s \in {x \in p : x.do = "from" /\ x.of = m /\ x.member = n /\ ~x.nested}}
AliasesOf(p, m, n) ==
  {s.as : s \in {x \in p : x.do = "alias" /\ x.how # "name" /\ x.member = n /\ x.of \in ImportsOf(p, m)}}

DynamicFunctions(p) ==
  {"__import__"} \cup FromsOf(p, "importlib", "import_module") \cup AliasesOf(p, "importlib", "import_module")
  \cup FromsOf(p, "builtins", "__import__") \cup AliasesOf(p, "builtins", "__import__")
ResolverFunctions(p) == FromsOf(p, "pkgutil", "resolve_name") \cup AliasesOf(p, "pkgutil", "resolve_name")

(* dynamic_import_getattr_source, and the attributes in                     *)
(* dynamic_import_call_source                                               *)
LoaderMember(p, of, member) ==
  \/ member = "import_module" /\ of \in ImportsOf(p, "importlib")
  \/ member = "__import__" /\ of \in ImportsOf(p, "builtins")
  \/ member = "resolve_name" /\ of \in ImportsOf(p, "pkgutil")

(* dynamic_import_call_source *)
LoadsBy(p, s) ==
  IF s.how = "name" THEN s.of \in DynamicFunctions(p) \cup ResolverFunctions(p)
  ELSE LoaderMember(p, s.of, s.member)

(* inspect_dynamic_import_call_node, inspect_exec_literal *)
LoadingCalls(p) == {s \in p : (s.do = "call" /\ LoadsBy(p, s)) \/ s.do = "exec"}

(* add_import *)
SeenImports(p) ==
  {s.of : s \in {x \in p : x.do \in {"import", "from"} /\ ~x.nested}}
  \cup {s.arg : s \in {x \in LoadingCalls(p) : x.arg # Computed}}
SeenWarnings(p) == \E s \in LoadingCalls(p) : s.arg = Computed

ScanPython ==
  Asked("python loads") /\ \E p \in PyLoadCases :
    Take(p, [imports |-> SeenImports(Range(p)), warned |-> SeenWarnings(Range(p))])

(* Python: names are bound as the statements run, nested ones last.         *)
MemberValue(owner, member) ==
  CASE owner = "importlib" /\ member = "import_module" -> "load"
    [] owner = "builtins" /\ member = "__import__" -> "load"
    [] owner = "pkgutil" /\ member = "resolve_name" -> "load"
    [] OTHER -> "other"
ValueIn(env, name) == IF name \in DOMAIN env THEN env[name] ELSE IF name = "__import__" THEN "load" ELSE "other"
Denoted(env, s) ==
  CASE s.do = "import" -> s.of
    [] s.do = "from" -> MemberValue(s.of, s.member)
    [] s.how = "name" -> ValueIn(env, s.of)
    [] s.how = "called" -> "other"
    [] OTHER -> MemberValue(ValueIn(env, s.of), s.member)
PyExecute(run, s) ==
  [env |-> IF s.do \in {"import", "from", "alias"} THEN [n \in {s.as} |-> Denoted(run.env, s)] @@ run.env ELSE run.env,
   loads |-> run.loads \cup (IF s.do \in {"import", "from"} THEN {s.of}
                             ELSE IF s.do = "exec" \/ (s.do = "call" /\ Denoted(run.env, s) = "load") THEN {s.arg}
                             ELSE {})]
PyExecuted(p) ==
  FoldLeft(PyExecute, [env |-> [n \in {"__import__"} |-> "load"], loads |-> {}],
           SelectSeq(p, LAMBDA s : ~s.nested) \o SelectSeq(p, LAMBDA s : s.nested))

-----------------------------------------------------------------------------
(* What a file publishes.  A definition is [def, name, text], def one of    *)
(* "function", "class", "variable", "import" and "all"; that of "all" has   *)
(* names, and text Computed when it is no literal; text is the signature,   *)
(* the bases or the annotation, and that of an import is empty.             *)
PrivateNames == {"_g"}
AllOf(p) ==
  LET alls == SelectSeq(p, LAMBDA d : d.def = "all") IN
  IF alls = <<>> \/ Last(alls).text = Computed THEN {} ELSE {Last(alls).names}
TopPublic(p) == {p[i].name : i \in {j \in DOMAIN p : p[j].def # "all"}} \ PrivateNames
PySymbols(p) == IF AllOf(p) = {} THEN TopPublic(p) ELSE UNION AllOf(p)

PyParts(p) == {[def |-> p[i].def, name |-> p[i].name, text |-> p[i].text] :
               i \in {j \in DOMAIN p : p[j].def # "all" /\ p[j].name \notin PrivateNames}}

(* surface_parts *)
SurfaceParts(p) ==
  LET named == {x \in PyParts(p) : x.name \in PySymbols(p)}
      missing == PySymbols(p) \ {x.name : x \in named}
  IN IF AllOf(p) = {} THEN PyParts(p)
     ELSE named \cup {[def |-> "__all__", names |-> PySymbols(p)]} \cup {[def |-> "missing", name |-> n] : n \in missing}

Published(p) == [symbols |-> PySymbols(p), parts |-> SurfaceParts(p)]
ReadSurface ==
  Asked("python surface") /\ \E c \in PySurfaceCases : Take(c, <<Published(c[1]), Published(c[2])>>)

-----------------------------------------------------------------------------
(* Routes of FastAPI: [apps, routers (name, prefix), includes in the order  *)
(* of the text, routes (receiver, path, method)].                           *)
(* normalize_http_path: paths are sequences of segments, "" one that two     *)
(* slashes enclose.                                                         *)
HttpPath(prefix, route) == SelectSeq(prefix \o route, LAMBDA s : s # "")
DeclaredPrefix(p, name) == IF name \in p.apps THEN <<>> ELSE p.routers[name]

(* include_router, in the walk over the declarations *)
Include(prefixes, i) ==
  IF i.receiver \in DOMAIN prefixes /\ i.router \in DOMAIN prefixes
    THEN [prefixes EXCEPT ![i.router] = HttpPath(prefixes[i.receiver], HttpPath(i.prefix, @))]
    ELSE prefixes
RoutePrefixes(p) ==
  FoldLeft(Include, [n \in p.apps \cup DOMAIN p.routers |-> DeclaredPrefix(p, n)], p.includes)

(* emit_fastapi_route *)
EmittedRoutes(p, prefixes) ==
  {[method |-> r.method, path |-> HttpPath(prefixes[r.receiver], r.path)] :
     r \in {x \in p.routes : x.receiver \in DOMAIN prefixes}}

ReadRoutes == Asked("python routes") /\ \E p \in PyRouteCases : Take(p, EmittedRoutes(p, RoutePrefixes(p)))

(* FastAPI: the routes of a router are served below each app or router that *)
(* includes it (whichever of two inclusions comes first).                   *)
RECURSIVE ServedUnder(_, _)
ServedUnder(p, name) ==
  {[method |-> r.method, path |-> HttpPath(DeclaredPrefix(p, name), r.path)] : r \in {x \in p.routes : x.receiver = name}}
  \cup UNION {{[method |-> r.method, path |-> HttpPath(DeclaredPrefix(p, name), HttpPath(p.includes[i].prefix, r.path))] :
                r \in ServedUnder(p, p.includes[i].router)} : i \in {j \in DOMAIN p.includes : p.includes[j].receiver = name}}

-----------------------------------------------------------------------------
(* Models and tasks: a program of statements [do, name, path, arg, nested]: *)
(*   "model"/"entity" a class, arg its table; "task" a function, arg its    *)
(*   name or NoText; "assign" name = path; "call" path[..](arg).            *)
(* A path is a root and the attributes after it, calls in between left out. *)
DjangoReads == {"all", "count", "exists", "exclude", "filter", "first", "get", "last", "order_by", "prefetch_related", "raw", "select_related"}
DjangoWrites == {"bulk_create", "bulk_update", "create", "delete", "get_or_create", "save", "update", "update_or_create"}
Managers == {"objects", "_default_manager"}

(* ast.walk: the statements at the top before the nested ones. *)
AstWalk(p) == SelectSeq(p, LAMBDA s : ~s.nested) \o SelectSeq(p, LAMBDA s : s.nested)

(* django_manager_model *)
ManagerModel(aliases, path) ==
  IF Len(path) > 1 /\ path[2] \in Managers THEN path[1]
  ELSE IF path[1] \in DOMAIN aliases THEN aliases[path[1]] ELSE NoText

(* The first walk: aliases of managers and instances of the models that     *)
(* were declared before.                                                    *)
CollectAlias(known, s) ==
  CASE s.do = "model" -> [known EXCEPT !.models = [n \in {s.name} |-> s.arg] @@ @]
    [] s.do = "entity" -> [known EXCEPT !.entities = [n \in {s.name} |-> s.arg] @@ @]
    [] s.do = "assign" /\ ManagerModel(known.aliases, s.path) # NoText ->
         [known EXCEPT !.aliases = [n \in {s.name} |-> ManagerModel(known.aliases, s.path)] @@ @]
    [] s.do = "assign" /\ Len(s.path) = 1 /\ s.path[1] \in DOMAIN known.models ->
         [known EXCEPT !.aliases = [n \in {s.name} |-> s.path[1]] @@ @]
    [] OTHER -> known
KnownModels(p) == FoldLeft(CollectAlias, [models |-> <<>>, entities |-> <<>>, aliases |-> <<>>], AstWalk(p))

PyAccess(kind, mode, name) == {[kind |-> kind, mode |-> mode, name |-> name]}
DjangoAccess(known, s) ==
  LET model == ManagerModel(known.aliases, Front(s.path))
      mode == IF Last(s.path) \in DjangoReads THEN "read" ELSE "write"
  IN IF Len(s.path) > 1 /\ model \in DOMAIN known.models /\ Last(s.path) \in DjangoReads \cup DjangoWrites
     THEN PyAccess("database", mode, known.models[model]) ELSE {}

(* selector_from_expression, for a first argument or the receiver *)
EntityAccess(known, s) ==
  LET method == Last(s.path)
      bare == Len(s.path) = 1
      table(n, mode) == IF n \in DOMAIN known.entities THEN PyAccess("database", mode, known.entities[n]) ELSE {}
  IN CASE bare /\ method = "select" -> table(s.arg, "read")
       [] bare /\ method \in {"insert", "update", "delete"} -> table(s.arg, "write")
       [] ~bare /\ method \in {"get", "query"} -> table(s.arg, "read")
       [] ~bare /\ method \in {"insert", "update", "delete"} -> table(s.path[1], "write")
       [] ~bare /\ method \in {"add", "merge", "add_all", "bulk_save_objects", "bulk_insert_mappings", "bulk_update_mappings"} ->
            table(s.arg, "write")
       [] OTHER -> {}

TaskName(s) == IF s.arg = NoText THEN s.name ELSE s.arg
(* emit_celery_task, and delay, apply_async and send_task: tasks of deeper  *)
(* functions are known to later calls only.                                 *)
TasksBefore(w, i) == {w[j] : j \in {k \in DOMAIN w : w[k].do = "task" /\ (k < i \/ ~w[k].nested)}}
CeleryAccess(w, i) ==
  LET s == w[i]
      declared == {t \in TasksBefore(w, i) : t.name = s.path[1]}
  IN CASE s.do = "task" -> PyAccess("queue", "subscribe", TaskName(s))
       [] s.do = "call" /\ Last(s.path) = "send_task" -> PyAccess("queue", "publish", s.arg)
       [] s.do = "call" /\ Last(s.path) \in {"delay", "apply_async"} /\ declared # {} ->
            PyAccess("queue", "publish", TaskName(CHOOSE t \in declared : TRUE))
       [] OTHER -> {}

PyAccesses(w, known) ==
  UNION {CeleryAccess(w, i) \cup (IF w[i].do = "call" THEN DjangoAccess(known, w[i]) \cup EntityAccess(known, w[i]) ELSE {}) :
           i \in DOMAIN w}
ReadModels == Asked("python models") /\ \E p \in PyModelCases : Take(p, PyAccesses(AstWalk(p), KnownModels(p)))

(* What the statements do when they run, names bound as they come.          *)
RunModel(run, s) ==
  LET root == IF s.path = <<>> THEN NoText ELSE s.path[1]
      model == IF root \in DOMAIN run.env THEN run.env[root] ELSE NoText
      manages == IF Len(s.path) > 1 /\ s.path[2] \in Managers THEN root ELSE model
      method == IF s.path = <<>> THEN NoText ELSE Last(s.path)
  IN [env |-> CASE s.do = "assign" /\ Len(s.path) = 1 /\ root \in DOMAIN run.tables -> [n \in {s.name} |-> root] @@ run.env
                [] s.do = "assign" -> [n \in {s.name} |-> manages] @@ run.env
                [] OTHER -> run.env,
      tables |-> IF s.do = "model" THEN [n \in {s.name} |-> s.arg] @@ run.tables ELSE run.tables,
      tasks |-> IF s.do = "task" THEN [n \in {s.name} |-> TaskName(s)] @@ run.tasks ELSE run.tasks,
      done |-> run.done \cup
        (IF s.do # "call" THEN {}
         ELSE IF method \in {"delay", "apply_async"} /\ root \in DOMAIN run.tasks THEN PyAccess("queue", "publish", run.tasks[root])
         ELSE IF method \in DjangoReads \cup DjangoWrites /\ Len(s.path) > 1 /\ manages \in DOMAIN run.tables
           THEN PyAccess("database", IF method \in DjangoReads THEN "read" ELSE "write", run.tables[manages])
         ELSE {})]
RanModels(p) == FoldLeft(RunModel, [env |-> <<>>, tables |-> <<>>, tasks |-> <<>>, done |-> {}], AstWalk(p))

-----------------------------------------------------------------------------
(* sql_table_accesses of the inspector: comments and literals are text to   *)
(* it like any other, and only a blank may stand between verb and name.     *)
PySqlAccesses(text) ==
  {<<IF text[i] \in ReadVerbs THEN "read" ELSE "write", NameAt(text, i + 1)>> :
     i \in {j \in 1..(Len(text) - 1) : /\ text[j] \in ReadVerbs \cup WriteVerbs
                                       /\ text[j + 1] \notin DOMAIN SqlCloses \cup {"'", "--", "/*", "*/", "NEWLINE"}
                                       /\ NameAt(text, j + 1) # <<>>}}
PartTokens(parts) == FoldLeft(LAMBDA t, p : t \o p.tokens, <<>>, parts)
ReadPySql == Asked("python sql") /\ \E c \in SqlCases : Take(c, PySqlAccesses(PartTokens(c)))

-----------------------------------------------------------------------------
(* The file that an import leads to: [files, importer, up, parts, declared, *)
(* cells]; up is the number of leading dots, declared are the roots that    *)
(* pyproject.toml, setup.cfg and setup.py name.                             *)
PyDir(f) == IF f = <<>> THEN <<>> ELSE Front(f)
(* pythonSourceRoots *)
SourceRoots(c) ==
  {<<>>, <<"src">>} \cup c.declared
  \cup UNION {{PyDir(PyDir(cell.entry))} \cup {PyDir(p) : p \in cell.prefixes \ {<<>>}} : cell \in c.cells}
PyRootsOf(c) == SelectSeq(PyRootOrder, LAMBDA r : r \in SourceRoots(c))
PyPackage(base) == base \o <<"__init__">>
(* candidatePythonModulePaths *)
PyCandidates(base) == <<PyPackage(base), base>>
PyExisting(files, bases) ==
  LET found == SelectSeq(FoldLeft(LAMBDA done, b : done \o PyCandidates(b), <<>>, bases), LAMBDA f : f \in files)
  IN IF found = <<>> THEN <<>> ELSE found[1]

(* resolvePythonRelativeModule, resolvePythonImport *)                      
ResolvePython(c) ==
  IF c.up = 0 THEN PyExisting(c.files, <<c.parts>> \o [i \in DOMAIN PyRootsOf(c) |-> PyRootsOf(c)[i] \o c.parts])
  ELSE PyExisting(c.files, <<SubSeq(PyDir(c.importer), 1, Len(PyDir(c.importer)) - (c.up - 1)) \o c.parts>>)
ResolvePythonCase == Asked("python import") /\ \E c \in PyImportCases : Take(c, ResolvePython(c))

(* Python: the first root that has the top package or module decides, and   *)
(* the rest is looked for inside of it.                                     *)
PythonTarget(c) ==
  LET roots == PyRootsOf(c)
      has(r) == PyPackage(r \o <<c.parts[1]>>) \in c.files \/ r \o <<c.parts[1]>> \in c.files
      tops == {i \in DOMAIN roots : has(roots[i])}
      top == roots[CHOOSE i \in tops : \A j \in tops : i <= j]
      inside == \A k \in 1..(Len(c.parts) - 1) : PyPackage(top \o SubSeq(c.parts, 1, k)) \in c.files
  IN IF tops = {} THEN <<>>
     ELSE IF ~inside THEN <<>>
     ELSE IF PyPackage(top \o c.parts) \in c.files THEN PyPackage(top \o c.parts)
     ELSE IF top \o c.parts \in c.files THEN top \o c.parts ELSE <<>>

-----------------------------------------------------------------------------
(* Every file of a batch gets a result, its own; a file that hangs never    *)
(* counts as inspected; and where an interpreter works and the attempts     *)
(* suffice, it costs no other file its inspection.                          *)
Halvings(n) == CHOOSE k \in 0..n : 2 ^ k >= n /\ \A j \in 0..(k - 1) : 2 ^ j < n
BatchIsolates ==
  Is("python batch") =>
    LET n == Len(input.files) IN
    /\ Len(answer.results) = n
    /\ \A i \in 1..n : answer.results[i].file = i /\ (answer.results[i].kind # "inspector_error" => input.files[i] # "hang")
    /\ input.printed \in {"ordered", "reversed"} /\ input.limit >= 1 + 2 * Halvings(PyBatchSize) * Cardinality({i \in 1..n : input.files[i] = "hang"}) /\ (\E k \in DOMAIN input.interpreters : input.interpreters[k] = "works") =>
         \A i \in 1..n : input.files[i] = "good" => answer.results[i].kind = "inspected"

(* What a Python file loads when it runs is among its imports, or there is  *)
(* a warning, as long as it imports at the top of the module only and binds *)
(* no loader to a second name by way of a first.                            *)
PythonLoadsAreSeen ==
  Is("python loads") /\ (\A i \in DOMAIN input : /\ input[i].nested => input[i].do \notin {"import", "from"}
                                                 /\ ~(input[i].do = "alias" /\ input[i].how = "name")) =>
    /\ PyExecuted(input).loads \ {Computed} \subseteq answer.imports
    /\ Computed \in PyExecuted(input).loads => answer.warned

(* Equal surfaces mean equal public symbols, each with the same text, of    *)
(* files that define no name twice and list no private one in __all__.      *)
SurfaceTellsChanges ==
  Is("python surface") /\ answer[1].parts = answer[2].parts =>
    /\ answer[1].symbols = answer[2].symbols
    /\ (\A k \in {1, 2} : /\ \A i, j \in DOMAIN input[k] : input[k][i].name = input[k][j].name => i = j
                          /\ answer[k].symbols \cap PrivateNames = {}) =>
         \A i \in DOMAIN input[1], j \in DOMAIN input[2] :
           input[1][i].name = input[2][j].name /\ input[1][i].name \in answer[1].symbols =>
             input[1][i] = input[2][j]

(* Every route that an app serves is reported, where a router is included   *)
(* once, by an app or by a router that was itself included before.          *)
RoutesAreReported ==
  LET i == input.includes IN
  Is("python routes") /\ (\A k \in DOMAIN i : /\ i[k].receiver \in input.apps \cup {i[j].router : j \in 1..(k - 1)}
                                            /\ \A j \in 1..(k - 1) : i[j].router # i[k].router) =>
    UNION {ServedUnder(input, a) : a \in input.apps} \subseteq answer

(* What models and tasks are used for when the file runs is reported, where *)
(* no name is bound twice.                                                  *)
ModelsAreReported ==
  Is("python models") /\ (\A i, j \in DOMAIN input : input[i].do # "call" /\ input[j].do # "call" /\ input[i].name = input[j].name => i = j) =>
    RanModels(input).done \subseteq answer

(* The two scanners of SQL name the same tables in a text without comments  *)
(* and literals.                                                            *)
SqlScannersAgree ==
  Is("python sql") /\ (\A i \in DOMAIN input : input[i].kind \in {"code", "name", "space"}) =>
    answer = SqlTableAccesses(PartTokens(input))

(* A module that Python finds, all directories above it being packages, is  *)
(* the one that the import is taken to lead to.                             *)
PythonFindsTheSame ==
  Is("python import") /\ input.up = 0 /\ PythonTarget(input) # <<>> => answer = PythonTarget(input)
=============================================================================
