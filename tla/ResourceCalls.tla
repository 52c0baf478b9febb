------------------------------ MODULE ResourceCalls ------------------------------
(***************************************************************************)
(* The resources that the calls of one source file are seen to access      *)
(* (resource-access.ts, collectResourceAccesses): the declarations of the  *)
(* file are collected first, then every call is offered to the detectors of*)
(* the adapters that are not switched off.                                 *)
(***************************************************************************)
EXTENDS Integers, Sequences, FiniteSets, SequencesExt, Cases

CONSTANTS
  SqlCases,     \* sequences of SQL parts [kind, tokens]
  FileCases,    \* [file, off], off the adapters that are switched off
  SqlTextOf     \* the tokens of each text that is SQL

-----------------------------------------------------------------------------
(* SQL texts are sequences of tokens: quotes, comment signs, line ends, words*)
ReadVerbs == {"from", "join"}
WriteVerbs == {"delete from", "insert into", "merge into", "truncate", "drop table", "create table",
               "alter table", "update"}
SqlOpens == [t \in {"'", "QUOTE", "--", "/*"} |->
            CASE t = "'" -> "literal" [] t = "QUOTE" -> "identifier" [] t = "--" -> "line" [] t = "/*" -> "block"]
SqlCloses == [literal |-> "'", identifier |-> "QUOTE", line |-> "NEWLINE", block |-> "*/"]

(* stripSqlCommentsAndLiterals, one token; what is blanked out is left out. *)
StripToken(read, t) ==
  [state |-> IF read.state = "code" THEN IF t \in DOMAIN SqlOpens THEN SqlOpens[t] ELSE "code"
             ELSE IF t = SqlCloses[read.state] THEN "code" ELSE read.state,
   text |-> IF read.state = "identifier" \/ (read.state = "code" /\ t \notin {"'", "--", "/*"})
            THEN Append(read.text, t) ELSE read.text]

StripSql(tokens) == FoldLeft(StripToken, [state |-> "code", text |-> <<>>], tokens).text

(* The name that starts at position i, a word or what stands in quotes.     *)
NameAt(text, i) ==
  IF text[i] # "QUOTE" THEN IF text[i] \in {"NEWLINE", "*/"} THEN <<>> ELSE <<text[i]>>
  ELSE LET ends == {j \in (i + 1)..Len(text) : text[j] = "QUOTE"}
       IN IF ends = {} THEN <<>> ELSE SubSeq(text, i + 1, (CHOOSE j \in ends : \A k \in ends : j <= k) - 1)

(* sqlTableAccesses: a verb and the name after it, from left to right. *)
SqlTableAccesses(tokens) ==
  LET text == SelectSeq(StripSql(tokens), LAMBDA t : t # "NEWLINE")
      seen[i \in 1..(Len(text) + 2)] ==
        IF i >= Len(text) THEN {}
        ELSE IF text[i] \in ReadVerbs \cup WriteVerbs /\ NameAt(text, i + 1) # <<>>
        THEN {<<IF text[i] \in ReadVerbs THEN "read" ELSE "write", NameAt(text, i + 1)>>} \cup seen[i + 2]
        ELSE seen[i + 1]
  IN seen[1]

TextLooksSql(text) ==
  text \in DOMAIN SqlTextOf /\
  \E t \in Range(SqlTextOf[text]) : t \in {"select"} \cup ReadVerbs \cup (WriteVerbs \ {"truncate", "drop table", "create table", "alter table"})

-----------------------------------------------------------------------------
(* A file is [declarations, classes, schema, calls]: variables initialized  *)
(* with a call or new, entity classes, the tables of the Prisma models, and *)
(* the calls.  An argument is [form, text, number, props].                  *)
NoText == ""
LiteralText(a) == IF a.form = "literal" THEN a.text ELSE NoText
IsGiven(a) == a.form # "absent"
StaticValues(a) == IF a.form \in {"literal", "constant"} THEN {a.text} ELSE {}
ObjectProperty(a, name) ==
  IF a.form = "object" /\ name \in DOMAIN a.props THEN a.props[name] ELSE NoText
Initialized(f, how, callees) == {d \in f.declarations : d.how = how /\ d.callee \in callees}

PrismaClients(f) == {"prisma"} \cup {d.name : d \in Initialized(f, "new", {"PrismaClient"})}
EntitySelector(f, name) ==
  LET c == {x \in f.classes : x.name = name}
  IN IF c = {} THEN NoText ELSE LET e == CHOOSE x \in c : TRUE IN IF e.entity = NoText THEN name ELSE e.entity
(* selectorFromEntityExpression *)
EntityOrTable(f, a, unknown) ==
  IF LiteralText(a) # NoText THEN LiteralText(a)
  ELSE IF a.form # "name" THEN NoText
  ELSE IF EntitySelector(f, a.text) # NoText THEN EntitySelector(f, a.text)
  ELSE IF unknown THEN a.text ELSE NoText
Repository(f, name) ==
  LET d == {x \in Initialized(f, "call", {"getRepository"}) : x.name = name}
  IN IF d = {} THEN NoText ELSE EntityOrTable(f, (CHOOSE x \in d : TRUE).arg, TRUE)
DrizzleTable(f, a) ==
  LET d == {x \in Initialized(f, "call", {"pgTable", "mysqlTable", "sqliteTable", "singlestoreTable", "table"}) :
              a.form = "name" /\ x.name = a.text}
  IN IF LiteralText(a) # NoText THEN LiteralText(a) ELSE IF d = {} THEN NoText ELSE LiteralText((CHOOSE x \in d : TRUE).arg)
BullQueue(f, name) ==
  LET d == {x \in Initialized(f, "new", {"Queue"}) : x.name = name}
  IN IF d = {} THEN NoText ELSE LiteralText((CHOOSE x \in d : TRUE).arg)

(* A call is [how, method, root, chained, member, names, entity, fs, args]: *)
(* the root of its receiver, whether calls stand between, the last property *)
(* before the method, the methods of the chain, the argument of a           *)
(* getRepository it is called on, and the method of fs it stands for.       *)
RootName(c) == IF c.chained THEN NoText ELSE c.root
Arg1(c) == c.args[1]
Arg2(c) == c.args[2]

SqlMethods == {"query", "execute"}
(* collectSqlReceiverRoots *)
SqlReceivers(f) ==
  {RootName(c) : c \in {x \in f.calls : x.how = "call" /\ x.method \in SqlMethods /\ RootName(x) # NoText /\
                      (TextLooksSql(Arg1(x).text))}}

-----------------------------------------------------------------------------
SeenAccess(kind, mode, name) == [kind |-> kind, mode |-> mode, name |-> name, unresolved |-> FALSE]
OpenAccess(kind, mode) == [kind |-> kind, mode |-> mode, name |-> <<"?">>, unresolved |-> TRUE]
Provided(condition, accesses) == IF condition THEN accesses ELSE {}
SqlAccesses(values) ==
  UNION {{SeenAccess("database", t[1], t[2]) : t \in SqlTableAccesses(SqlTextOf[v])} : v \in values \cap DOMAIN SqlTextOf}

RawMethods == {"$queryRaw", "$executeRaw", "query"}
UnsafeMethods == {"$queryRawUnsafe", "$executeRawUnsafe"}
PrismaReads == {"findMany", "findFirst", "findUnique", "count", "aggregate", "groupBy"}
PrismaWrites == {"create", "createMany", "update", "updateMany", "upsert", "delete", "deleteMany"}
PrismaRaw(f, c) == RootName(c) \in PrismaClients(f) /\ c.method \in RawMethods \cup UnsafeMethods

PrismaDelegates(f, c) ==
  LET model == IF c.member \in DOMAIN f.schema THEN f.schema[c.member] ELSE c.member
  IN Provided(c.how = "call" /\ RootName(c) \in PrismaClients(f) /\ c.member # NoText /\ c.method \in PrismaReads \cup PrismaWrites,
              {SeenAccess("database", IF c.method \in PrismaReads THEN "read" ELSE "write", <<model>>)})
PrismaTemplates(f, c) ==
  Provided(c.how = "template" /\ PrismaRaw(f, c),
           IF c.method \in UnsafeMethods \/ Arg1(c).form # "literal" THEN {OpenAccess("database", "read")}
           ELSE SqlAccesses({Arg1(c).text}))
PrismaRawCalls(f, c) ==
  Provided(c.how = "call" /\ PrismaRaw(f, c),
           IF c.method \in UnsafeMethods \/ StaticValues(Arg1(c)) = {} THEN {OpenAccess("database", "read")}
           ELSE SqlAccesses(StaticValues(Arg1(c))))
PrismaAccesses(f, c) == PrismaDelegates(f, c) \cup PrismaTemplates(f, c) \cup PrismaRawCalls(f, c)

DrizzleAccesses(f, c) ==
  LET reads == c.method = "from" /\ "select" \in c.names
      writes == c.method \in {"insert", "update", "delete"}
      mode == IF writes THEN "write" ELSE "read"
  IN Provided(c.how = "call" /\ c.root = "db" /\ (reads \/ writes) /\ IsGiven(Arg1(c)),
              IF DrizzleTable(f, Arg1(c)) # NoText THEN {SeenAccess("database", mode, <<DrizzleTable(f, Arg1(c))>>)}
              ELSE {OpenAccess("database", mode)})

OrmReads == {"find", "findBy", "findOne", "findOneBy", "count", "countBy", "exist"}
OrmWrites == {"save", "insert", "update", "upsert", "delete", "remove", "softDelete", "restore"}
TypeOrmAccesses(f, c) ==
  LET repository == IF IsGiven(c.entity) THEN EntityOrTable(f, c.entity, TRUE)
                    ELSE IF ~c.chained /\ c.member = NoText THEN Repository(f, c.root) ELSE NoText
  IN Provided(c.how = "call" /\ repository # NoText /\ c.method \in OrmReads \cup OrmWrites,
              {SeenAccess("database", IF c.method \in OrmReads THEN "read" ELSE "write", <<repository>>)})

(* The query builder's own methods, and TypeORM's below a builder. Entities *)
(* are known only while the TypeORM adapter is on.                          *)
BuilderAccesses(f, c, generic, typeorm) ==
  LET own == generic /\ c.method \in {"selectFrom", "insertInto", "updateTable", "deleteFrom"}
      below == typeorm /\ c.method \in {"from", "into", "update"} /\ c.names \cap {"createQueryBuilder", "delete", "insert"} # {}
      mode == IF c.method = "selectFrom" \/ (c.method = "from" /\ "delete" \notin c.names) THEN "read" ELSE "write"
      selector == IF typeorm THEN EntityOrTable(f, Arg1(c), FALSE) ELSE LiteralText(Arg1(c))
  IN Provided(c.how = "call" /\ (own \/ below) /\ IsGiven(Arg1(c)),
              IF selector # NoText THEN {SeenAccess("database", mode, <<selector>>)} ELSE {OpenAccess("database", mode)})

(* query and execute on a receiver that is given SQL anywhere in the file.  *)
SqlLiteralAccesses(f, c) ==
  Provided(c.how = "call" /\ c.method \in SqlMethods /\ RootName(c) \in SqlReceivers(f) /\ IsGiven(Arg1(c)),
           IF StaticValues(Arg1(c)) # {} THEN SqlAccesses(StaticValues(Arg1(c)))
           ELSE {OpenAccess("database", "read")})
SqliteAccesses(c) ==
  Provided(c.how = "new" /\ c.method = "DatabaseSync",
           IF LiteralText(Arg1(c)) # NoText THEN {SeenAccess("database", "read", <<LiteralText(Arg1(c))>>)}
           ELSE {OpenAccess("database", "read")})

BullPublishes(f, c) ==
  Provided(c.how = "call" /\ c.method = "add" /\ BullQueue(f, RootName(c)) # NoText,
           {SeenAccess("queue", "publish", <<BullQueue(f, RootName(c))>>)})
BullWorkers(c) ==
  Provided(c.how = "new" /\ c.method = "Worker" /\ LiteralText(Arg1(c)) # NoText,
           {SeenAccess("queue", "subscribe", <<LiteralText(Arg1(c))>>)})
KafkaAccesses(c) ==
  Provided(c.how = "call" /\ c.method \in {"send", "subscribe"} /\ ObjectProperty(Arg1(c), "topic") # NoText,
           {SeenAccess("queue", IF c.method = "send" THEN "publish" ELSE "subscribe", <<ObjectProperty(Arg1(c), "topic")>>)})
(* Queue methods by the end of their name, on receivers named for a queue.  *)
QueueMode == [m \in {"publish", "enqueue", "subscribe", "consume"} |->
                IF m \in {"publish", "enqueue"} THEN "publish" ELSE "subscribe"]
QueueAccesses(c) ==
  Provided(c.how = "call" /\ c.method \in DOMAIN QueueMode /\ LiteralText(Arg1(c)) \notin {NoText, "/route"} /\ RootName(c) \in {"bus", "queue"},
           {SeenAccess("queue", QueueMode[c.method], <<LiteralText(Arg1(c))>>)})

FileReads == {"readFile", "readFileSync", "createReadStream", "readdir", "readdirSync", "open", "openSync"}
FileWrites == {"writeFile", "writeFileSync", "appendFile", "appendFileSync", "createWriteStream", "rm", "rmSync", "unlink",
               "unlinkSync"}
FileCopies == {"copyFile", "copyFileSync"}
Bit(n, place) == (n \div place) % 2 = 1

(* fsOpenAccessMode: O_WRONLY and O_RDWR, O_CREAT, O_TRUNC and O_APPEND write.*)
OpenMode(flag) ==
  CASE flag.form = "literal" -> IF flag.text \in {"w", "a", "r+"} THEN "write" ELSE "read"
    [] flag.form = "number" ->
         IF flag.number % 4 \in {1, 2} \/ Bit(flag.number, 64) \/ Bit(flag.number, 512) \/ Bit(flag.number, 1024)
         THEN "write" ELSE "read"
    [] flag.form = "absent" -> "read"
    [] OTHER -> "write"
FileMode(c) ==
  IF c.fs \in {"open", "openSync"} THEN OpenMode(Arg2(c)) ELSE IF c.fs \in FileReads THEN "read" ELSE "write"

(* The arguments that are paths, with the mode they are used in. *)
FileArguments(c) ==
  LET descriptor == c.fs \in {"createReadStream", "createWriteStream"} /\ Arg2(c).form = "object" /\ "fd" \in DOMAIN Arg2(c).props
  IN IF c.fs \notin FileReads \cup FileWrites \cup FileCopies \/ descriptor \/ ~IsGiven(Arg1(c)) THEN {}
     ELSE IF c.fs \notin FileCopies THEN {<<Arg1(c), FileMode(c)>>}
     ELSE {<<Arg1(c), "read">>} \cup Provided(IsGiven(Arg2(c)), {<<Arg2(c), "write">>})
OpenFiles(c) == {OpenAccess("file", u[2]) : u \in {x \in FileArguments(c) : LiteralText(x[1]) = NoText}}
(* Literals are reported only if the first argument is one.                 *)
LiteralFiles(c) ==
  {SeenAccess("file", u[2], <<LiteralText(u[1])>>) :
     u \in {x \in FileArguments(c) : LiteralText(Arg1(c)) # NoText /\ LiteralText(x[1]) # NoText}}

(* fetch and request, routes, and commands that reach out.                  *)
HttpCalls(c) ==
  LET values == StaticValues(Arg1(c)) \ {NoText} IN
  Provided(c.how = "call" /\ c.method \in {"fetch", "request"} /\ IsGiven(Arg1(c)),
           IF values = {} THEN {OpenAccess("http", "call")} ELSE {SeenAccess("http", "call", <<v>>) : v \in values})
HttpRoutes(c) ==
  Provided(c.how = "call" /\ c.fs = NoText /\ c.method \in {"get", "post", "put", "patch", "delete", "options", "head", "all"} /\
           LiteralText(Arg1(c)) = "/route" /\ RootName(c) \in {"app", "router"},
           {SeenAccess("http", "serve", <<c.method, LiteralText(Arg1(c))>>)})
RunsCommand(c) ==
  c.method \in {"execSync", "execFileSync", "spawnSync"} /\ c.how = "call" /\ RootName(c) \in {NoText, "cp", "child"}
CommandAccesses(c, http, sql) ==
  Provided(RunsCommand(c) /\ http /\ LiteralText(Arg1(c)) = "curl", {OpenAccess("http", "call")}) \cup
  Provided(RunsCommand(c) /\ sql /\ (LiteralText(Arg1(c)) = "psql" \/ TextLooksSql(LiteralText(Arg1(c)))), {OpenAccess("database", "read")})
FastifyAccesses(c) ==
  Provided(c.how = "call" /\ c.method = "route" /\ ObjectProperty(Arg1(c), "url") # NoText /\ ObjectProperty(Arg1(c), "method") # NoText,
           {SeenAccess("http", "serve", <<ObjectProperty(Arg1(c), "method"), ObjectProperty(Arg1(c), "url")>>)})
(* collectNestRouteAccesses: the methods of controller classes, as [method, path]. *)
NestAccesses(f) ==
  UNION {{SeenAccess("http", "serve", <<r.verb, k.prefix, r.path>>) : r \in k.routes} :
           k \in {x \in f.classes : x.controller}}

(* collectResourceAccesses *)
CallAccesses(f, on, c) ==
  Provided("prisma" \in on, PrismaAccesses(f, c)) \cup
  Provided("drizzle" \in on, DrizzleAccesses(f, c)) \cup
  Provided("typeorm" \in on, TypeOrmAccesses(f, c)) \cup
  BuilderAccesses(f, c, "query-builder" \in on, "typeorm" \in on) \cup
  Provided("sql-literal" \in on /\ ~("prisma" \in on /\ PrismaRaw(f, c)), SqlLiteralAccesses(f, c)) \cup
  Provided("sql-literal" \in on, SqliteAccesses(c)) \cup
  Provided("bullmq" \in on, BullPublishes(f, c) \cup BullWorkers(c)) \cup
  Provided("kafkajs" \in on, KafkaAccesses(c)) \cup
  Provided("queue" \in on, QueueAccesses(c)) \cup
  Provided("file" \in on, OpenFiles(c) \cup LiteralFiles(c)) \cup
  Provided("http" \in on, HttpCalls(c) \cup HttpRoutes(c)) \cup
  CommandAccesses(c, "http" \in on, "sql-literal" \in on) \cup
  Provided("fastify" \in on, FastifyAccesses(c))

Adapters == {"prisma", "drizzle", "typeorm", "query-builder", "sql-literal", "bullmq", "kafkajs", "queue", "file", "http",
             "fastify", "nestjs"}
ResourceAccesses(f, off) ==
  (UNION {CallAccesses(f, Adapters \ off, c) : c \in f.calls}) \cup Provided("nestjs" \notin off, NestAccesses(f))

ReadSql == Asked("sql") /\ \E c \in SqlCases : Take(c, SqlTableAccesses(FlattenSeq([i \in DOMAIN c |-> c[i].tokens])))
CollectAccesses ==
  Asked("calls") /\ \E c \in FileCases :
  Take(c, [all |-> ResourceAccesses(c.file, {}), some |-> ResourceAccesses(c.file, c.off)])

-----------------------------------------------------------------------------
(* The tokens of an SQL text that are no comment and no literal. *)
CodeOf(parts) == FlattenSeq([i \in DOMAIN parts |-> IF parts[i].kind \in {"code", "name"} THEN parts[i].tokens ELSE <<>>])

(* A table that stands after a verb outside of comments and literals is     *)
(* reported, as written if the verb writes, and apart from what a quoted    *)
(* name contains nothing else is, whatever the comments, literals and quoted*)
(* names contain.                                                           *)
SqlTablesAreNamed ==
  LET code == CodeOf(input)
      named == {i \in 1..(Len(code) - 1) : code[i] \in ReadVerbs \cup WriteVerbs}
      reported(i) == <<IF code[i] \in WriteVerbs THEN "write" ELSE "read", NameAt(code, i + 1)>>
  IN Is("sql") =>
       /\ \A i \in named : NameAt(code, i + 1) # <<>> => reported(i) \in answer
       /\ \A a \in answer : \E i \in named : a = reported(i)

(* Switching adapters off resolves nothing that was not resolved before; at *)
(* most it leaves open what another adapter would have known.               *)
AdaptersOnlyRemove ==
  Is("calls") => \A a \in answer.some : ~a.unresolved => a \in answer.all

(* What one call touches when it runs, as [kind, mode, arg]: files by the   *)
(* meaning of the method, and the tables of the SQL it sends.               *)
Touches(f, c) ==
  CASE c.fs \in FileCopies /\ ~IsGiven(Arg2(c)) -> {}
    [] c.fs \in FileCopies /\ IsGiven(Arg2(c)) -> {[kind |-> "file", mode |-> "read", name |-> LiteralText(Arg1(c))],
                                 [kind |-> "file", mode |-> "write", name |-> LiteralText(Arg2(c))]}
    [] c.fs \in FileWrites -> {[kind |-> "file", mode |-> "write", name |-> LiteralText(Arg1(c))]}
    [] c.fs \in {"open", "openSync"} ->
         {[kind |-> "file", mode |-> m, name |-> LiteralText(Arg1(c))] :
            m \in IF Arg2(c).form = "absent" THEN {"read"}
                  ELSE IF Arg2(c).form = "literal" THEN IF Arg2(c).text = "r" THEN {"read"} ELSE {"write"}
                  ELSE IF Arg2(c).form = "number" THEN IF Arg2(c).number = 0 THEN {"read"} ELSE {"write"}
                  ELSE {"write"}}
    [] c.fs \in FileReads -> {[kind |-> "file", mode |-> "read", name |-> LiteralText(Arg1(c))]}
    [] c.fs = NoText /\ c.method \in {"fetch", "request"} -> {[kind |-> "http", mode |-> "call", name |-> Arg1(c).text]}
    [] OTHER -> {}
ByDescriptor(c) == c.fs \in {"createReadStream", "createWriteStream"} /\ Arg2(c).form = "object"

(* With every adapter on, each file and address that a call touches is among*)
(* the accesses, in the mode it is touched in, or an access of that kind is *)
(* reported as unresolved.                                                  *)
TouchesAreReported ==
  Is("calls") =>
    \A c \in input.file.calls : IsGiven(Arg1(c)) /\ ~ByDescriptor(c) =>
      \A t \in Touches(input.file, c) :
        \/ \E a \in answer.all : a.kind = t.kind /\ a.mode = t.mode /\ a.name = <<t.name>>
        \/ \E a \in answer.all : a.kind = t.kind /\ a.unresolved
=============================================================================
