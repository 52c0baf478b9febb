------------------------------ MODULE SourceScans ------------------------------
(***************************************************************************)
(* The scans of a JavaScript or TypeScript file that follow names through  *)
(* its scopes: which modules the file requires, and what a name stands for *)
(* where it is used.                                                       *)
(*                                                                         *)
(* Which modules a JavaScript file requires (extractImports): the scan of  *)
(* the scopes of a file for names that stand for require, however they got *)
(* there.                                                                  *)
(*                                                                         *)
(* A program is a sequence of                                              *)
(*   [op |-> "open", fn |-> b]      "{" of a function (b) or a block       *)
(*   [op |-> "close"]               "}"                                    *)
(*   [op |-> "declare", how |-> "var" or "const", name, value]             *)
(*   [op |-> "import", name]        import { createRequire as name }       *)
(*   [op |-> "assign", name, value]                                        *)
(*   [op |-> "call", callee, arg]   callee(arg)                            *)
(* with expressions [form, name]: "id" for a name, "member" for            *)
(* name.require, "create" for name(import.meta.url), "bind" for            *)
(* name.bind(null), "text" for a string, "other" for anything else.        *)
(*                                                                         *)
(* Then what a name stands for at its place in a source file: the texts it *)
(* may hold where a query or an URL is expected, and node:fs or one of its *)
(* methods.  These scans look at different statements, so each has its own *)
(* form of program.                                                        *)
(*                                                                         *)
(* Which texts a name may stand for where it is used as a query or an URL  *)
(* (resource-access.ts: collectStaticStringConstants,                      *)
(* collectLocalStaticStringResolution, staticStringResolutionAt).          *)
(*                                                                         *)
(* A program is [top, frames, name]: the statements of the module, then    *)
(* the statement lists from the outermost to the one that holds the use of *)
(* name.  A frame is [kind, head, before, after]: "function", "catch",     *)
(* "loop" or "block"; the names its head binds; the statements before and  *)
(* after the one that leads to the use.  A statement is                    *)
(*   [op: "declare", how, name, value], [op: "assign", name, value]        *)
(*   [op: "nested", name, value]     an assignment under a condition       *)
(*   [op: "closure", name, value]    one in a function defined there       *)
(* and an expression [form: "text" | "id" | "other" | "either" | "join",   *)
(* left, right], where left and right are texts or names.                  *)
(*                                                                         *)
(* Which calls go to node:fs (resource-access.ts: collectFsBindings,       *)
(* declarationShadowsName, fsFileMethodName).                              *)
(*                                                                         *)
(* A program is [frames, callee]: the statement lists from the module,     *)
(* frames[1], to the one that holds the call.  A frame is [head, before,   *)
(* after]: the names bound by parameters, a catch clause or a loop, and the*)
(* statements before and after the one that leads to the call; a statement *)
(*   [how: "import" | "const" | "var" | "function", name, value]           *)
(* with value [form, of, method]: "module" for the module itself, required *)
(* or imported; "named" for a method required or imported from it; "member"*)
(* for of.method; "promises" for of.promises; "alias" for of; or "other".  *)
(* The callee is "member", of.method(), or "alias", of().                  *)
(***************************************************************************)
EXTENDS Cases, Naturals, Sequences, SequencesExt, FiniteSets

CONSTANTS
  GuardCases,    \* files with guarded requires, see their section
  StringCases,   \* programs in the sense of the texts
  FsCases,       \* programs in the sense of node:fs
  ValueLimit,    \* texts that are followed at most, 16 in the code
  SqlTexts,      \* the texts that look like SQL
  SqlNames       \* the names that do


Unbound == "unbound"     \* of bindingFor: no scope knows the name
Value(kind) == [kind |-> kind, text |-> ""]
Text(t) == [kind |-> "null", text |-> t]

-----------------------------------------------------------------------------
(* Scopes, innermost last: [fn, names], names a function to values.         *)

Scope(fn, names) == [fn |-> fn, names |-> names]
Bound(names, n, v) == [m \in DOMAIN names \cup {n} |-> IF m = n THEN v ELSE names[m]]

(* createRootImportScope *)
RootScope == Scope(TRUE, [n \in {"require"} |-> Value("require")])

(* bindingFor, stringConstantFor: the innermost scope that has the name. *)
Lookup(scopes, n) ==
  LET having == {i \in DOMAIN scopes : n \in DOMAIN scopes[i].names}
  IN IF having = {} THEN Value(Unbound)
     ELSE scopes[CHOOSE i \in having : \A j \in having : j <= i].names[n]

(* Mutant: a var belongs to its block, as a const does. *)
BindInBlock(scopes, n, v, how) == [scopes EXCEPT ![Len(scopes)].names = Bound(@, n, v)]

(* bindName: a var belongs to the innermost function. *)
BindName(scopes, n, v, how) ==
  LET functions == {i \in DOMAIN scopes : scopes[i].fn}
      at == IF how = "var" THEN CHOOSE i \in functions : \A j \in functions : j <= i
            ELSE Len(scopes)
  IN [scopes EXCEPT ![at].names = Bound(@, n, v)]

(* isNodeModuleObject, isGlobalRequireProperty, isRequireLikeExpression,    *)
(* createRequireKind and bindingKindFromInitializer.                        *)
KindOf(scopes, e) ==
  LET known == Lookup(scopes, e.name).kind IN
  CASE e.form = "id" /\ known \in {"require", "createRequire", "nodeModule"} -> known
    [] e.form = "id" /\ e.name = "module" /\ known = Unbound -> "nodeModule"
    [] e.form = "member" /\ (known = "nodeModule" \/
         (e.name \in {"module", "global"} /\ known = Unbound)) -> "require"
    [] e.form = "create" /\ known = "createRequire" -> "require"
    [] e.form = "bind" /\ known = "require" -> "require"
    [] OTHER -> "null"

(* staticModuleSpecifier: a literal, or a const that holds one. *)
SpecifierOf(scopes, e) ==
  IF e.form = "text" THEN e.name
  ELSE IF e.form = "id" THEN Lookup(scopes, e.name).text ELSE ""

(* The end of the scope that opens at i. *)
EndOf(program, i) ==
  LET depth(k) == Cardinality({j \in i..k : program[j].op = "open"}) -
                  Cardinality({j \in i..k : program[j].op = "close"})
  IN CHOOSE k \in i..Len(program) : depth(k) = 0 /\ \A l \in i..(k - 1) : depth(l) > 0

(* The places of the statements between from and to, blocks passed over.    *)
Statements(program, from, to) ==
  {k \in from..to : \A i \in from..(k - 1) :
     program[i].op = "open" => EndOf(program, i) < k}

(* predeclareScope: every name declared in the list, with nothing known of it.*)
Predeclare(scopes, program, from, to) ==
  FoldLeft(LAMBDA ss, k :
            IF k \in Statements(program, from, to) /\ program[k].op \in {"declare", "import"}
              THEN BindName(ss, program[k].name, Value("null"),
                            IF program[k].op = "declare" THEN program[k].how ELSE "const")
            ELSE ss,
          scopes, [i \in 1..(to - from + 1) |-> from + i - 1])

(* visitVariableDeclaration *)
Declare(scopes, s) ==
  LET kind == KindOf(scopes, s.value)
      text == IF s.how = "const" THEN SpecifierOf(scopes, s.value) ELSE ""
  IN BindName(scopes, s.name, IF kind # "null" THEN Value(kind) ELSE Text(text), s.how)

(* requireCallArgument, addRequireCallReference: what a call adds. *)
Called(scopes, s) ==
  IF KindOf(scopes, s.callee) = "require"
    THEN LET t == SpecifierOf(scopes, s.arg)
         IN IF t # "" THEN [references |-> {t}, warned |-> FALSE]
            ELSE [references |-> {}, warned |-> TRUE]
  ELSE [references |-> {}, warned |-> KindOf(scopes, s.arg) = "require"]

(* visit, one statement: the scopes, references and warnings after it.      *)
Visit(state, program, i) ==
  LET s == program[i] IN
  CASE s.op = "open" ->
         [state EXCEPT !.scopes =
            Predeclare(Append(@, Scope(s.fn, <<>>)), program, i + 1, EndOf(program, i) - 1)]
    [] s.op = "close" -> [state EXCEPT !.scopes = Front(@)]
    [] s.op = "declare" -> [state EXCEPT !.scopes = Declare(@, s)]
    [] s.op = "import" -> [state EXCEPT !.scopes = BindName(@, s.name, Value("createRequire"), "const")]
    [] s.op = "assign" ->
         [state EXCEPT !.warned = @ \/ KindOf(state.scopes, s.value) = "require"]
    [] s.op = "call" ->
         LET c == Called(state.scopes, s)
         IN [state EXCEPT !.references = @ \cup c.references, !.warned = @ \/ c.warned]

(* extractImports: the specifiers required and whether anything was warned  *)
(* of as not statically known.                                              *)
Scan(program) ==
  FoldLeft(LAMBDA state, i : Visit(state, program, i),
          [scopes |-> Predeclare(<<RootScope>>, program, 1, Len(program)),
           references |-> {}, warned |-> FALSE],
          [i \in DOMAIN program |-> i])

-----------------------------------------------------------------------------
(* What the program does when it is run from top to bottom, functions and   *)
(* blocks in place: names are hoisted, a const may not be read before its   *)
(* declaration or assigned, and a run ends where that happens.              *)

(* The var names of the function whose body lies between from and to.       *)
VarNames(program, from, to) ==
  {program[k].name : k \in {j \in from..to :
     /\ program[j].op = "declare" /\ program[j].how = "var"
     /\ \A i \in from..(j - 1) :
          program[i].op = "open" /\ program[i].fn => EndOf(program, i) < j}}
ConstNames(program, from, to) ==
  {program[k].name : k \in {j \in Statements(program, from, to) :
     program[j].op = "import" \/ (program[j].op = "declare" /\ program[j].how = "const")}}

Frame(program, fn, from, to) ==
  LET consts == ConstNames(program, from, to)
      hoisted == IF fn THEN VarNames(program, from, to) ELSE {}
  IN Scope(fn, [n \in consts \cup hoisted |-> Value(IF n \in consts THEN "early" ELSE "other")])

Evaluate(frames, e) ==
  LET v == Lookup(frames, e.name) IN
  CASE e.form = "text" -> Text(e.name)
    [] e.form = "id" -> v
    [] e.form = "member" -> Value(IF v.kind \in {"nodeModule", "early"}
                                    THEN (IF v.kind = "early" THEN "early" ELSE "require") ELSE "other")
    [] e.form = "create" -> Value(IF v.kind = "createRequire" THEN "require"
                                  ELSE IF v.kind = "early" THEN "early" ELSE "other")
    [] e.form = "bind" -> v
    [] OTHER -> Value("other")

Store(frames, n, v) ==
  LET having == {i \in DOMAIN frames : n \in DOMAIN frames[i].names}
      at == CHOOSE i \in having : \A j \in having : j <= i
  IN IF having = {} THEN frames ELSE [frames EXCEPT ![at].names[n] = v]

Step(state, program, i) ==
  LET s == program[i]
      value(e) == Evaluate(state.frames, e)
      stop == [state EXCEPT !.running = FALSE]
  IN IF ~state.running THEN state
     ELSE CASE s.op = "open" ->
                 [state EXCEPT !.frames =
                    Append(@, Frame(program, s.fn, i + 1, EndOf(program, i) - 1))]
            [] s.op = "close" -> [state EXCEPT !.frames = Front(@)]
            [] s.op = "import" -> [state EXCEPT !.frames = Store(@, s.name, Value("createRequire"))]
            [] s.op \in {"declare", "assign"} ->
                 IF value(s.value).kind = "early" THEN stop
                 ELSE [state EXCEPT !.frames = Store(@, s.name, value(s.value))]
            [] s.op = "call" ->
                 IF "early" \in {value(s.callee).kind, value(s.arg).kind} THEN stop
                 ELSE IF value(s.callee).kind = "require" /\ value(s.arg).text # ""
                   THEN [state EXCEPT !.required = @ \cup {value(s.arg).text}]
                 ELSE state

(* The modules the program requires by a name it has at that moment.        *)
Required(program) ==
  FoldLeft(LAMBDA state, i : Step(state, program, i),
           [running |-> TRUE, required |-> {},
            frames |-> <<Scope(TRUE, [n \in {"require", "module"} |->
                                        Value(IF n = "require" THEN n ELSE "nodeModule")]),
                         Frame(program, TRUE, 1, Len(program))>>],
           [i \in DOMAIN program |-> i]).required

-----------------------------------------------------------------------------
(* Guarded requires: if (name.has(x)) return require(x), where name is a    *)
(* set of one text.  A file is a sequence of                                *)
(*   [op: "set", how: "const" | "let", top, exported, elements]  the set    *)
(*        declared, at the top or in the block that follows                 *)
(*   [op: "use", way: "add" | "alias" | "test"]     any other use of it     *)
(*   [op: "patch", way: "assign" | "define" | "defineAll" | "defineOther" | *)
(*        "aliased"]                 has of Set.prototype, or another member*)
(*   [op: "class"]                   class Set { ... }                      *)
(*   [op: "guard", required, single] whether it requires what it tested, and*)
(*        nothing but that.                                                 *)
(* x and what else may be required hold any text.                           *)

GuardTexts == {"a", "b"}

Places(file, op) == {i \in DOMAIN file : file[i].op = op}

(* singletonStringSetInitializer *)
IsSingleton(s) == Len(s.elements) = 1 /\ s.elements[1] \in GuardTexts

(* mutatesSetPrototypeHas: an assignment or a definition of the member, as  *)
(* far as it is by that name.                                               *)
PatchSeen(file) == \E i \in Places(file, "patch") : file[i].way \in {"assign", "define", "defineAll"}

(* collectSafeSingletonStringSets: a constant of the module, declared once  *)
(* in the file and used for nothing but the conditions of "if".             *)
SafeSets(file) ==
  {i \in Places(file, "set") :
     /\ file[i].how = "const" /\ file[i].top /\ IsSingleton(file[i])
     /\ Cardinality(Places(file, "set")) = 1 /\ Places(file, "use") = {}
     /\ Places(file, "class") = {} /\ ~PatchSeen(file)}

(* addReadonlySetGuardedRequireIfSafe: the set must have been declared      *)
(* before; any other require of a name is warned of as computed.            *)
GuardFound(file, i) == {file[k].elements[1] : k \in {k \in SafeSets(file) : k < i /\ file[i].single /\ file[i].required}}

ScanGuards ==
  Asked("guard") /\ \E c \in GuardCases :
  Take(c, [references |-> UNION {GuardFound(c, i) : i \in Places(c, "guard")},
           warned |-> \E i \in Places(c, "guard") : GuardFound(c, i) = {}])

(* What the set that is declared last before i holds at i, with has as it   *)
(* is by then: everything, if somebody replaced it.                         *)
HeldAt(file, i) ==
  LET before(op) == {k \in Places(file, op) : k < i}
      set == CHOOSE k \in before("set") : \A l \in before("set") : l <= k
      added == {k \in before("use") : k > set /\ file[k].way \in {"add", "alias"}}
      replaced == before("class") # {} \/ \E k \in before("patch") : file[k].way # "defineOther"
  IN IF before("set") = {} THEN {}
     ELSE IF replaced \/ added # {} \/ file[set].exported THEN GuardTexts
     ELSE Range(file[set].elements) \cap GuardTexts

RequiredAt(file, i) ==
  IF HeldAt(file, i) = {} THEN {}
  ELSE IF file[i].single /\ file[i].required THEN HeldAt(file, i) ELSE GuardTexts

(* A guarded require that is taken for a require of one module requires no  *)
(* other, whatever else the file does with the set and with Set, unless the *)
(* set is exported or has is replaced through another name for the          *)
(* prototype.                                                               *)
GuardsAreSound ==
  Is("guard") /\ (\A i \in Places(input, "set") : ~input[i].exported)
              /\ (\A i \in Places(input, "patch") : input[i].way # "aliased") =>
    answer.warned \/ UNION {RequiredAt(input, i) : i \in Places(input, "guard")} \subseteq answer.references

-----------------------------------------------------------------------------
TextNames == {"q", "p", "query"}

-----------------------------------------------------------------------------
(* Texts are sequences of parts; the empty set means: not resolved. *)
LimitedValues(values) == IF Cardinality(values) <= ValueLimit THEN values ELSE {}

Combine(form, left, right) ==
  IF left = {} \/ right = {} THEN {}
  ELSE LimitedValues(IF form = "either" THEN left \cup right ELSE {x \o y : x \in left, y \in right})

(* The texts of an expression, where known gives those of a name. *)
TextsOf(e, known(_)) ==
  LET part(x) == IF x \in TextNames THEN known(x) ELSE {<<x>>} IN
  CASE e.form = "other" -> {}
    [] e.form \in {"text", "id"} -> part(e.left)
    [] OTHER -> Combine(e.form, part(e.left), part(e.right))

HasSqlLiteral(e) ==
  \/ e.form # "other" /\ e.left \in SqlTexts
  \/ e.form \in {"either", "join"} /\ e.right \in SqlTexts
LooksSql(values) == \E v \in values : \E i \in DOMAIN v : v[i] \in SqlTexts

(* collectStaticStringConstants: constants of the module, whatever their    *)
(* order; one that depends on itself is not resolved.                       *)
TopConstants(top) ==
  LET initializer(n) == CHOOSE e \in {s.value : s \in {t \in Range(top) : t.name = n}} : TRUE
      constants == {s.name : s \in {t \in Range(top) : t.op = "declare" /\ t.how = "const"}}
      values[k \in 0..Cardinality(TextNames)] ==
        [n \in TextNames |->
           IF n \notin constants \/ k = 0 THEN {}
           ELSE TextsOf(initializer(n), LAMBDA m : values[k - 1][m])]
  IN values[Cardinality(TextNames)]

-----------------------------------------------------------------------------
(* The state of the walk over the frames: values per name, and the names    *)
(* that are unsafe, hold dynamic SQL, are declared on the way, or are bound *)
(* by the head of a function or catch clause.                               *)
KnownTexts(w, self, n) ==
  IF n = self THEN {}
  ELSE IF w.values[n] # {} THEN w.values[n]
  ELSE IF n \in w.unsafe \cup w.dynamic \cup w.declared \cup w.params THEN {}
  ELSE w.constants[n]

(* markUnsafe *)
MarkUnsafe(w, n) ==
  [w EXCEPT !.dynamic = @ \cup {x \in {n} : LooksSql(w.values[x]) \/ x \in SqlNames},
            !.values[n] = {}, !.unsafe = @ \cup {n}]

MarkSql(w, n, e) == [w EXCEPT !.dynamic = @ \cup {x \in {n} : HasSqlLiteral(e)}]

(* processDeclaration *)
ProcessDeclaration(w, s) ==
  LET resolved == TextsOf(s.value, LAMBDA m : KnownTexts(w, s.name, m)) IN
  IF s.how = "var" THEN MarkUnsafe(w, s.name)
  ELSE IF s.name \in w.unsafe THEN w
  ELSE IF resolved # {} THEN [w EXCEPT !.values[s.name] = resolved]
  ELSE MarkUnsafe(MarkSql(w, s.name, s.value), s.name)

(* The loop over the statements before the use: processDeclaration, and     *)
(* markAssignments, which does not look into functions.                     *)
ProcessText(w, s) ==
  CASE s.op = "declare" -> ProcessDeclaration(w, s)
    [] s.op \in {"assign", "nested"} -> MarkUnsafe(MarkSql(w, s.name, s.value), s.name)
    [] s.op = "closure" -> w

DeclaredNames(list) == {s.name : s \in {t \in Range(list) : t.op = "declare"}}

(* collectLocalStaticStringResolution *)
WalkFrames(program) ==
  LET frames == program.frames
      heads(kinds) == UNION {frames[i].head : i \in {j \in DOMAIN frames : frames[j].kind \in kinds}}
      start == [values |-> [n \in TextNames |-> {}], unsafe |-> {}, dynamic |-> {},
                declared |-> UNION {DeclaredNames(f.before) \cup DeclaredNames(f.after) : f \in Range(frames)},
                params |-> heads({"function"}) \cup (heads({"catch"}) \cap {program.name}),
                constants |-> TopConstants(program.top)]
  IN FoldLeft(ProcessText, start, FlattenSeq([i \in DOMAIN frames |-> frames[i].before]))

Resolution(values, dynamic) == [values |-> values, dynamic |-> dynamic]

(* staticStringResolutionAt for a name *)
ResolveText(program) ==
  LET w == WalkFrames(program)
      n == program.name
  IN IF n \in w.unsafe THEN Resolution({}, n \in w.dynamic)
     ELSE IF w.values[n] # {} THEN Resolution(w.values[n], FALSE)
     ELSE IF n \in w.params THEN Resolution({}, n \in SqlNames)
     ELSE IF n \in w.declared THEN Resolution({}, FALSE)
     ELSE Resolution(w.constants[n], FALSE)

ResolveString == Asked("string") /\ \E c \in StringCases : Take(c, ResolveText(c))

-----------------------------------------------------------------------------
(* What the program does: scopes from the module to the use, each giving the*)
(* texts that its names may hold then.  AnyText stands for a text nobody    *)
(* knows, and a name that is used before its declaration has none.          *)
AnyText == {<<"?">>}

BindingScope(scopes, n) ==
  LET binding == {i \in DOMAIN scopes : n \in DOMAIN scopes[i]}
  IN IF binding = {} THEN 0 ELSE CHOOSE i \in binding : \A j \in binding : j <= i

HeldBy(scopes, n) == IF BindingScope(scopes, n) = 0 THEN AnyText ELSE scopes[BindingScope(scopes, n)][n]

Evaluated(scopes, e) ==
  LET part(x) == IF x \in TextNames THEN HeldBy(scopes, x) ELSE {<<x>>} IN
  CASE e.form = "other" -> AnyText
    [] e.form \in {"text", "id"} -> part(e.left)
    [] e.form = "either" -> part(e.left) \cup part(e.right)
    [] e.form = "join" -> {x \o y : x \in part(e.left), y \in part(e.right)}

Execute(scopes, s) ==
  LET value == Evaluated(scopes, s.value)
      at == BindingScope(scopes, s.name)
  IN CASE s.op = "declare" -> [scopes EXCEPT ![Len(scopes)][s.name] = value]
       [] s.op = "assign" /\ at > 0 -> [scopes EXCEPT ![at][s.name] = value]
       [] s.op \in {"nested", "closure"} /\ at > 0 -> [scopes EXCEPT ![at][s.name] = @ \cup value]
       [] OTHER -> scopes

(* In a loop, what follows the use may have been executed as well. *)
EnterFrame(scopes, f) ==
  LET scope == [n \in f.head \cup DeclaredNames(f.before) \cup DeclaredNames(f.after) |->
                  IF n \in f.head THEN AnyText ELSE {}]
      later == IF f.kind = "loop" THEN [i \in DOMAIN f.after |-> [f.after[i] EXCEPT !.op = "nested"]] ELSE <<>>
  IN FoldLeft(Execute, Append(scopes, scope), later \o f.before)

HeldAtUse(program) ==
  HeldBy(FoldLeft(EnterFrame, <<>>, <<[kind |-> "block", head |-> {}, before |-> program.top, after |-> <<>>]>>
                                      \o program.frames), program.name)

-----------------------------------------------------------------------------
(* The name of the use is bound again, between the statements that are read *)
(* and the use, by something that is not a declaration among them; or it is *)
(* assigned where the walk does not look.                                   *)
BoundAgain(program) ==
  LET f == program.frames IN
  \E i \in DOMAIN f :
    \/ f[i].head # {} /\ (f[i].kind = "loop" \/ \E j \in 1..(i - 1) : DeclaredNames(f[j].before) # {})
    \/ \E s \in Range(f[i].before) : s.op = "closure"
    \/ f[i].kind = "loop" /\ f[i].after # <<>>

(* The texts a name is resolved to are all it can hold when the use is      *)
(* executed, whatever is shadowed, reassigned or decided on the way; said   *)
(* of programs in which nothing is bound again behind the reader's back.    *)
TextsAreSound ==
  Is("string") /\ ~BoundAgain(input) /\ answer.values # {} => HeldAtUse(input) \subseteq answer.values

(* A name that was given an SQL text in so many words, in a declaration or  *)
(* an assignment that is read, is resolved or reported as dynamic SQL: the  *)
(* query does not disappear.  Said of names without var whose statements    *)
(* stand in one frame.                                                      *)
SqlIsNoticed ==
  LET f == input.frames
      about(i) == {s \in Range(f[i].before) : s.name = input.name /\ s.op # "closure"}
      usesVar == \E i \in DOMAIN f : \E s \in Range(f[i].before) : s.op = "declare" /\ s.how = "var"
  IN Is("string") /\ ~usesVar /\ Cardinality({i \in DOMAIN f : about(i) # {}}) = 1
       /\ (\E i \in DOMAIN f : \E s \in about(i) : HasSqlLiteral(s.value)) =>
       answer.values # {} \/ answer.dynamic

-----------------------------------------------------------------------------
(* Names for node:fs. *)

FsNoMethod == "-"
FsOther == "other"

-----------------------------------------------------------------------------
(* A declaration is seen at a place: [frame, index, name], in the order of  *)
(* the text, and stands for "module", a method, or FsOther.                 *)
FsPlace(i, k, s) == [frame |-> i, index |-> k, name |-> s.name, hoisted |-> s.how = "import", stands |-> FsOther]

(* fsBindingIsVisible: what is known to be bound so far and stands before   *)
(* the node; all these places are in scope, for the frames are nested.      *)
Visible(bindings, name, module) ==
  {b \in bindings : b.name = name /\ (b.stands = "module") = module}

(* declarationShadowsName: from the node outwards, the first frame that     *)
(* binds the name decides; a head shadows always, a declaration unless it   *)
(* is one of the bindings that the name may stand for.                      *)
Shadows(p, bindings, name, module, depth) ==
  LET allowed == {<<b.frame, b.index>> : b \in Visible(bindings, name, module)}
      list(i) == p.frames[i].before \o p.frames[i].after
      declares(i) == {k \in DOMAIN list(i) : list(i)[k].name = name}
      binds(i) == name \in p.frames[i].head \/ declares(i) # {}
      deciding == {i \in 1..depth : binds(i) /\ \A j \in (i + 1)..depth : ~binds(j)}
  IN \E i \in deciding :
       \/ \E k \in declares(i) : <<i, k>> \notin allowed
       \/ declares(i) = {}

(* fsNamespaceExpressionRootIsBound *)
IsModule(p, bindings, name, depth) ==
  Visible(bindings, name, TRUE) # {} /\ ~Shadows(p, bindings, name, TRUE, depth)

(* fsVisibleCalleeBinding: the one declared last. *)
LastMethod(bindings, name) ==
  LET found == Visible(bindings, name, FALSE) IN
  IF found = {} THEN FsNoMethod
  ELSE (CHOOSE b \in found : \A c \in found :
          c.frame < b.frame \/ (c.frame = b.frame /\ c.index <= b.index)).stands

(* What a declaration binds, in collectFsBindings; FsOther for nothing. *)
FsStandsFor(p, bindings, value, depth) ==
  CASE value.form = "module" -> "module"
    [] value.form = "named" -> value.method
    [] value.form = "member" /\ IsModule(p, bindings, value.of, depth) -> value.method
    [] value.form \in {"promises", "alias"} /\ IsModule(p, bindings, value.of, depth) -> "module"
    [] OTHER -> FsOther

(* collectFsBindings over the statements that lead to the call. *)
CollectFsBindings(p) ==
  LET all == FlattenSeq([i \in DOMAIN p.frames |->
               [k \in DOMAIN p.frames[i].before |-> [place |-> FsPlace(i, k, p.frames[i].before[k]), depth |-> i,
                                                     value |-> p.frames[i].before[k].value]]])
      add(bindings, d) ==
        LET stands == FsStandsFor(p, bindings, d.value, d.depth) IN
        IF stands = FsOther THEN bindings ELSE bindings \cup {[d.place EXCEPT !.stands = stands]}
  IN FoldLeft(add, {}, all)

(* fsFileMethodName *)
FsFileMethod(p) ==
  LET bindings == CollectFsBindings(p)
      depth == Len(p.frames)
      of == p.callee.of
  IN CASE p.callee.form = "member" -> IF IsModule(p, bindings, of, depth) THEN p.callee.method ELSE FsNoMethod
       [] p.callee.form = "alias" ->
            IF LastMethod(bindings, of) # FsNoMethod /\ ~Shadows(p, bindings, of, FALSE, depth)
            THEN LastMethod(bindings, of) ELSE FsNoMethod

FindFsCall == Asked("fs") /\ \E c \in FsCases : Take(c, FsFileMethod(c))

-----------------------------------------------------------------------------
(* What the callee is when the call is executed in its place: "none" stands *)
(* for a name that nothing binds, or that is not initialized yet.           *)
FsHeld(scopes, name) ==
  LET binding == {i \in DOMAIN scopes : name \in DOMAIN scopes[i]}
  IN IF binding = {} THEN "none" ELSE scopes[CHOOSE i \in binding : \A j \in binding : j <= i][name]

FsValue(scopes, value) ==
  CASE value.form = "module" -> "module"
    [] value.form = "named" -> value.method
    [] value.form = "member" /\ FsHeld(scopes, value.of) = "module" -> value.method
    [] value.form = "promises" /\ FsHeld(scopes, value.of) = "module" -> "module"
    [] value.form = "alias" -> FsHeld(scopes, value.of)
    [] OTHER -> FsOther

FsEnter(scopes, f) ==
  LET names == {s.name : s \in Range(f.before \o f.after)}
      functions == {s.name : s \in {t \in Range(f.before \o f.after) : t.how = "function"}}
      scope == [n \in f.head \cup names |-> IF n \in names \ functions THEN "none" ELSE FsOther]
      run(state, s) == [state EXCEPT ![Len(state)][s.name] = FsValue(state, s.value)]
  IN FoldLeft(run, Append(scopes, scope), f.before)

FsActual(p) ==
  LET scopes == FoldLeft(FsEnter, <<>>, p.frames)
      held == FsHeld(scopes, p.callee.of)
  IN CASE p.callee.form = "member" -> IF held = "module" THEN p.callee.method ELSE FsNoMethod
       [] p.callee.form = "alias" -> IF held \in {"none", "module", FsOther} THEN FsNoMethod ELSE held

(* A call of a method of fs is recognized as that method, whatever renames, *)
(* destructures or shadows it, and no other call is; a name that merely     *)
(* repeats a method that was bound to another name is not followed.         *)
FsCallsAreSeen ==
  LET repeats == \E i \in DOMAIN input.frames : \E s \in Range(input.frames[i].before) : s.value.form = "alias"
  IN Is("fs") =>
       /\ answer # FsNoMethod => FsActual(input) = answer
       /\ ~repeats /\ FsActual(input) # FsNoMethod => answer = FsActual(input)
================================================================================
