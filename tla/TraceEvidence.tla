----------------------------- MODULE TraceEvidence -----------------------------
(***************************************************************************)
(* Where runtime evidence comes from: the trace that patches a process     *)
(* (trace/src/index.ts), the spans of OpenTelemetry                        *)
(* (adapter-opentelemetry) and the calls named by a pattern                *)
(* (adapter-call-pattern).                                                 *)
(*                                                                         *)
(* A process is its environment [cap, cell, commit, disabled] (cell and    *)
(* commit "" for none) and what it does, in order: [do, ...] with do       *)
(*   "install"                the hooks are put in place                   *)
(*   "file"    mode, path     a file is read or written                    *)
(*   "fetch"   url            a request is made                            *)
(*   "record"  access         the program records an access of its own     *)
(*   "beforeExit", "exit"     node gives the hooks their chance            *)
(***************************************************************************)
EXTENDS Cases, ManifestSchema, SequencesExt

CONSTANTS TraceCases, SpanCases, CallPatternCases

Access == [cell : STRING, kind : ResourceContractKind, access : ResourceAccessMode, selector : STRING]

NoText == ""      \* of an attribute or a variable that is not there
SourceFile == "source.ts"
TraceOutput == "evidence"
Descriptor == "fd"        \* a number, not a path

(* The state of the module: accesses is a function of accessKey. *)
Fresh == [installed |-> FALSE, hooked |-> FALSE, flushed |-> FALSE, full |-> FALSE, accesses |-> <<>>, written |-> <<>>]

AccessKeyOf(a) == <<a.cell, a.kind, a.access, a.selector>>
Resolved(env, a) == IF a.cell = NoText THEN [a EXCEPT !.cell = env.cell] ELSE a

(* recordResourceAccess *)
Record(env, s, a) ==
  LET r == Resolved(env, a)  k == AccessKeyOf(r)
  IN IF k \notin DOMAIN s.accesses /\ Cardinality(DOMAIN s.accesses) >= env.cap
     THEN [s EXCEPT !.hooked = TRUE, !.full = TRUE]
     ELSE [s EXCEPT !.hooked = TRUE, !.accesses = [x \in DOMAIN @ \cup {k} |-> IF x = k THEN r ELSE @[x]]]

(* recordFileAccess *)
Recordable(path) == path \notin {SourceFile, TraceOutput, Descriptor}
AccessBy(e) ==
  IF e.do = "file" THEN [cell |-> NoText, kind |-> "file", access |-> e.mode, selector |-> e.path]
  ELSE IF e.do = "fetch" THEN [cell |-> NoText, kind |-> "http", access |-> "call", selector |-> e.url]
  ELSE e.access
(* The patched functions record, and so does whoever calls the module. *)
Noted(s, e) ==
  \/ e.do = "record"
  \/ e.do = "file" /\ s.installed /\ Recordable(e.path)
  \/ e.do = "fetch" /\ s.installed /\ e.url # NoText

TranscriptStatus(env, s) == IF s.full THEN "incomplete" ELSE IF env.disabled THEN "inactive" ELSE "active"

(* flushEvidence: once, and not for a mere import of the module. *)
Flush(env, s) ==
  IF s.flushed \/ (~s.installed /\ DOMAIN s.accesses = {}) THEN s
  ELSE [s EXCEPT !.flushed = TRUE,
          !.written = [cell |-> env.cell, commit |-> env.commit, status |-> TranscriptStatus(env, s),
                       accesses |-> Range(s.accesses)]]

Step(env, s, e) ==
  IF e.do = "install" THEN (IF s.installed \/ env.disabled THEN s ELSE [s EXCEPT !.installed = TRUE, !.hooked = TRUE])
  ELSE IF e.do \in {"beforeExit", "exit"} THEN (IF s.hooked THEN Flush(env, s) ELSE s)
  ELSE IF Noted(s, e) THEN Record(env, s, AccessBy(e)) ELSE s
Trace(c) ==
  LET state[i \in 0..Len(c.events)] == IF i = 0 THEN Fresh ELSE Step(c.env, state[i - 1], c.events[i])
  IN state
RunTrace == Asked("trace") /\ \E c \in TraceCases : Take(c, Trace(c)[Len(c.events)].written)

(* deriveTranscriptStatus *)
DerivedStatus(status, accesses, disabled, hooked) ==
  IF disabled \/ ~hooked \/ status = "inactive" THEN "inactive"
  ELSE IF status = "active" /\ accesses # {} THEN "active" ELSE "incomplete"

-----------------------------------------------------------------------------
(* Spans: [system, table, destination, route, selector, name, operation,    *)
(* cell], NoText for an attribute that is not there; system is the first of *)
(* cellfence.resource.kind, db.system, messaging.system, rpc.system and the *)
(* schemes that is.  A case is [spans, cell, commit].                       *)
NormalizeKind(system) ==
  CASE system \in ResourceContractKind -> system [] system = "db" -> "database"
    [] system = "messaging" -> "queue" [] system = "rpc" -> "http" [] OTHER -> NoText
FirstOf(texts) == LET i == SelectInSeq(texts, LAMBDA t : t # NoText) IN IF i = 0 THEN NoText ELSE texts[i]
KindOfSpan(s) ==
  FirstOf(<<NormalizeKind(s.system), IF s.table # NoText THEN "database" ELSE NoText,
            IF s.destination # NoText THEN "queue" ELSE NoText, IF s.route # NoText THEN "http" ELSE NoText>>)
SelectorOfSpan(s) == FirstOf(<<s.selector, s.table, s.destination, s.route, s.name>>)

(* normalizeOperation, by the words it looks for. *)
ChangingWords == {"insert", "update", "write"}   \* and ten more
NormalizeOperation(kind, operation) ==
  IF operation \in ResourceAccessMode THEN operation
  ELSE CASE kind = "database" -> IF operation \in ChangingWords THEN "write" ELSE "read"
         [] kind = "queue" -> IF operation \in {"receive", "consume"} THEN "subscribe" ELSE "publish"
         [] kind = "http" -> IF operation = "server" THEN "serve" ELSE "call"
         [] kind = "file" -> "read"

(* accessFromSpan *)
AccessOfSpan(c, s) ==
  [kind |-> KindOfSpan(s), access |-> NormalizeOperation(KindOfSpan(s), s.operation), selector |-> SelectorOfSpan(s),
   cell |-> FirstOf(<<s.cell, c.cell>>)]
SpanEvidence(c) ==
  [cell |-> NoText, commit |-> c.commit, status |-> "active",
   accesses |-> {AccessOfSpan(c, s) : s \in {x \in c.spans : KindOfSpan(x) # NoText /\ SelectorOfSpan(x) # NoText}}]
ConvertSpans == Asked("spans") /\ \E c \in SpanCases : Take(c, SpanEvidence(c))

-----------------------------------------------------------------------------
(* callPatternAdapter: patterns [call, argument, kind, operation], calls    *)
(* [call, args, line], an argument being a text or Dynamic.                 *)
Dynamic == "dynamic"
PatternAccess(patterns, call) ==
  LET p == patterns[SelectInSeq(patterns, LAMBDA x : x.call = call.call)]
      text == IF p.argument \in DOMAIN call.args /\ call.args[p.argument] # Dynamic THEN call.args[p.argument] ELSE NoText
  IN [kind |-> p.kind, access |-> p.operation, selector |-> text, line |-> call.line, unresolved |-> text = NoText]
PatternAccesses(c) ==
  {PatternAccess(c.patterns, k) : k \in {x \in c.calls : \E i \in DOMAIN c.patterns : c.patterns[i].call = x.call}}
MatchCalls == Asked("calls by pattern") /\ \E c \in CallPatternCases : Take(c, PatternAccesses(c))

-----------------------------------------------------------------------------
(* A trace holds one access at least, and what goes into it has its type.   *)
ASSUME TraceAssumption ==
  /\ \A c \in TraceCases :
       /\ c.env.cap \in Nat \ {0} /\ c.env.cell \in STRING /\ c.env.disabled \in BOOLEAN
       /\ c.events \in Seq(Range(c.events))
       /\ \A i \in DOMAIN c.events : c.events[i].do \in {"file", "fetch", "record"} => AccessBy(c.events[i]) \in Access
  /\ \A c \in SpanCases : IsFiniteSet(c.spans)
  /\ \A c \in CallPatternCases : c.patterns \in Seq(Range(c.patterns))

(* The file as it is written: JSON leaves out what is undefined. *)
Missing == [null |-> TRUE]
IfAny(text) == IF text = NoText THEN Missing ELSE Text(text)
Present(f) == Object([k \in {x \in DOMAIN f : f[x] # Missing} |-> f[k]])
Written(e) ==
  Present([schemaVersion |-> Text("evidence v2"), generatedAt |-> Text("date"), commitSha |-> Text(e.commit),
    cellId |-> IfAny(e.cell), transcriptStatus |-> Text(e.status),
    accesses |-> List(SetToSeq({Present([kind |-> Text(a.kind), access |-> Text(a.access), selector |-> Text(a.selector),
                                         cellId |-> IfAny(a.cell), detectedBy |-> Text("a"), confidence |-> Text("runtime")]) :
                                  a \in e.accesses}))])
WellNamed(e) ==
  /\ "blank" \notin Traits[e.commit] /\ (e.cell # NoText => "cell id" \in Traits[e.cell])
  /\ \A a \in e.accesses : a.cell # NoText /\ "cell id" \in Traits[a.cell] /\ "blank" \notin Traits[a.selector]

(* What a trace says is so: "active" means that every access up to the      *)
(* moment of writing is in the file, one that noted anything leaves a file  *)
(* when the process ends, the file never outgrows the cap, and it is        *)
(* accepted when it is read, provided that cell and commit are known.       *)
(* Accesses after node first ran out of work are not in it.                 *)
TraceIsHonest ==
  Is("trace") =>
    LET ran == DOMAIN input.events
        noted(i) == Noted(Trace(input)[i - 1], input.events[i])
        open(i) == ~Trace(input)[i - 1].flushed
    IN /\ (\E i, k \in ran : noted(i) /\ i < k /\ input.events[k].do \in {"beforeExit", "exit"}) => answer # <<>>
       /\ answer # <<>> =>
            /\ answer.status = "active" =>
                 \A i \in ran : noted(i) /\ open(i) => Resolved(input.env, AccessBy(input.events[i])) \in answer.accesses
            /\ Cardinality(answer.accesses) <= input.env.cap
            /\ input.env.disabled => answer.status # "active"
            /\ DerivedStatus(answer.status, answer.accesses, input.env.disabled, TRUE) = answer.status
                 \/ answer.accesses = {} \/ input.env.disabled
            /\ WellNamed(answer) => ValidEvidence(Written(answer))

(* What spans become is accepted, none that names a table, a destination or *)
(* a route is left out, and a statement that changes a table is no read.    *)
SpansAreHonest ==
  Is("spans") =>
    /\ WellNamed(answer) => ValidEvidence(Written(answer))
    /\ \A s \in input.spans : <<s.table, s.destination, s.route>> # <<NoText, NoText, NoText>> =>
         \E a \in answer.accesses : a.selector = FirstOf(<<s.selector, s.table, s.destination, s.route>>)
    /\ \A s \in input.spans : s.table # NoText /\ s.system \notin {"queue", "messaging", "http", "rpc", "file"} /\ s.operation \in ChangingWords =>
         \E a \in answer.accesses : a.kind = "database" /\ a.access = "write" /\ a.selector = FirstOf(<<s.selector, s.table>>)

(* Every call that some pattern names is reported at its line, by the text  *)
(* of its argument where there is one and as unresolved where there is not. *)
PatternCallsAreReported ==
  Is("calls by pattern") =>
    \A k \in input.calls : (\E i \in DOMAIN input.patterns : input.patterns[i].call = k.call) =>
      \E a \in answer : a.line = k.line /\ (a.unresolved \/ a.selector \in Range(k.args) \ {Dynamic, NoText})
=============================================================================
