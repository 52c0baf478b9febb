------------------------------ MODULE CommandLine ------------------------------
(***************************************************************************)
(* The command line (cli/src/index.ts, check-output.ts): how arguments     *)
(* become a command, what "check" writes, how "init" and "install" treat   *)
(* the files that are there, how "waivers request" and "waivers sign" lead *)
(* to an attestation, and how "serve --mcp" answers.                       *)
(***************************************************************************)
EXTENDS CheckVerdict, SequencesExt

CONSTANTS
  ArgumentCases, RunCases, InitCases, InstallCases, DoctorCases, SignCases, ServeCases,
  Numerals    \* the words that Number() reads as a number

-----------------------------------------------------------------------------
(* Arguments.  An argument is a word, which may be empty, a short option    *)
(* such as -h, a long one, or a long one with its value behind "=".         *)
Word(t) == [shape |-> "word", text |-> t]
Short(t) == [shape |-> "short", text |-> t]
Long(n) == [shape |-> "long", name |-> n]
Inline(n, v) == [shape |-> "inline", name |-> n, value |-> v]

FlagOptions ==
  {"json", "changed", "auto-allocate", "check", "uninstall", "no-scaffold", "production-scope",
   "research-ablate-package-policy-hints", "mcp"}
RefOptions == {"base", "head", "commit", "manifest", "baseline"}
GateOptions == {"baseline-base", "baseline-head", "base-ref", "head-ref"}
ArtifactOptions == {"audit-log", "summary-json", "evidence-graph", "acceptance-record"}
ClaimOptions == {"agent", "claim-id", "claims", "task"}
TargetOptions == {"target", "output", "repo", "branch", "required-check", "rule"}
WaiverOptions == {"expires", "ttl", "reason", "approved-by", "attestation-id", "finding-fingerprint"}
ReportOptions == {"profile", "report", "coverage-output", "format", "preset", "root"}
NumberOptions == {"line", "min-score", "fail-under"}
ListOptions == {"path", "symbol", "resource", "artifact", "evidence", "from"}
KeptAndListed == {"cell", "file"}
ValuedOptions ==
  RefOptions \cup GateOptions \cup ArtifactOptions \cup ClaimOptions \cup TargetOptions \cup WaiverOptions \cup ReportOptions
  \cup NumberOptions \cup ListOptions \cup KeptAndListed
(* Those whose inline form refuses an empty value: requireInlineOptionValue. *)
StrictInline == GateOptions \cup {"acceptance-record", "output", "format", "preset", "root"}

NotANumber == "NaN"
NumberOf(text) == IF text = "" THEN "0" ELSE IF text \in Numerals THEN text ELSE NotANumber

(* What an option does with its value; a threshold that is no number is dropped. *)
Store(p, name, text) ==
  LET value == IF name \in NumberOptions THEN NumberOf(text) ELSE text IN
  [p EXCEPT !.values = IF name \in ListOptions \/ (name = "fail-under" /\ value = NotANumber) THEN @
                       ELSE [n \in DOMAIN @ \cup {name} |-> IF n = name THEN value ELSE @[n]],
            !.lists = IF name \in ListOptions \cup KeptAndListed THEN [@ EXCEPT ![name] = Append(@, text)] ELSE @,
            !.awaits = Absent]

(* One turn of the loop of parseArgs, requireOptionValue and *)
(* requireInlineOptionValue.                                 *)
ReadArgument(p, a) ==
  CASE p.failed -> p
    [] ~p.failed /\ p.awaits # Absent ->
         IF a.shape \in {"word", "short"} /\ a.text # "" THEN Store(p, p.awaits, a.text) ELSE [p EXCEPT !.failed = TRUE]
    [] OTHER ->
         CASE a.shape = "word" -> [p EXCEPT !.command = Append(@, a.text)]
           [] a.shape = "short" /\ a.text = "-h" -> [p EXCEPT !.command = Append(@, a.text)]
           [] a.shape = "long" /\ a.name = "help" -> [p EXCEPT !.command = Append(@, "--help")]
           [] a.shape = "long" /\ a.name \in FlagOptions -> [p EXCEPT !.flags = @ \cup {a.name}]
           [] a.shape = "long" /\ a.name \in ValuedOptions -> [p EXCEPT !.awaits = a.name]
           [] a.shape = "inline" /\ a.name \in ValuedOptions /\ (a.value = "" => a.name \notin StrictInline) ->
                Store(p, a.name, a.value)
           [] OTHER -> [p EXCEPT !.failed = TRUE]

ParseArgs(argv) ==
  FoldLeft(ReadArgument,
           [command |-> <<>>, flags |-> {}, values |-> <<>>, lists |-> [n \in ListOptions \cup KeptAndListed |-> <<>>],
            awaits |-> Absent, failed |-> FALSE],
           argv)

(* An option that is given, and not as an empty text. *)
Gives(p, name) == IF name \in ListOptions THEN p.lists[name] # <<>> ELSE name \in DOMAIN p.values /\ p.values[name] # ""
FormatIn(p, formats) == Gives(p, "format") => p.values["format"] \in formats

(* checkOutputFormat *)
OutputFormat(p) == ~("json" \in p.flags /\ Gives(p, "format")) /\ FormatIn(p, {"markdown", "sarif"})

(* How a handler ends.  What the engine makes of its input, r, is "fine",    *)
(* "findings", "broken" (an input that cannot be used), "exists" (a baseline *)
(* that is there already), or "throws".                                      *)
Refused == [ran |-> FALSE, exit |-> 2]
Ran(code) == [ran |-> TRUE, exit |-> code]
Judged(r) == Ran(IF r = "fine" THEN 0 ELSE 1)
Coded(r) == Ran(CASE r = "fine" -> 0 [] r = "findings" -> 1 [] OTHER -> 2)
Provided(needs, outcome) == IF needs THEN outcome ELSE Refused

CommandManifestVerify(p, r) == Judged(r)
CommandBaselineAudit(p, r) == Judged(r)
CommandEvidenceCommit(p, r) == Judged(r)
CommandTaskCheck(p, r) == Provided(Gives(p, "task"), Judged(r))
CommandDocsCheck(p, r) == Judged(r)
CommandDocsStamp(p, r) == Provided(Gives(p, "cell") /\ Gives(p, "file"), Judged(r))
CommandMutationCheck(p, r) == Provided(Gives(p, "report"), Judged(r))
CommandContext(p, r) == Provided(FormatIn(p, {"agents-md"}) /\ ("auto-allocate" \in p.flags \/ Gives(p, "cell")), Ran(0))
CommandGraph(p, r) == Provided(FormatIn(p, {"mermaid"}), Ran(0))
CommandPrune(p, r) == Judged(r)
CommandClaimCreate(p, r) == Provided(Gives(p, "agent"), Coded(r))
CommandClaimCheck(p, r) == Coded(r)
CommandClaimList(p, r) == Coded(r)
CommandBaselineCreate(p, r) == Provided(r # "exists", Ran(0))
CommandBaselineCheck(p, r) == Provided(OutputFormat(p), Coded(r))
CommandBaselineUpdate(p, r) == Judged(r)
CommandBaselineSign(p, r) == Ran(0)
CommandBaselineVerify(p, r) == Coded(r)
CommandEvidenceCheck(p, r) == Provided(Gives(p, "evidence"), CommandBaselineCheck(p, r))
CommandWaiversList(p, r) == Judged(r)
WaiverAsked(p, r) ==
  Provided((\A n \in {"rule", "file", "expires", "reason"} : Gives(p, n)) /\ Gives(p, "line") /\ p.values["line"] \notin {"0", NotANumber},
       Coded(r))
GateAsked(p, r) ==
  Provided((Gives(p, "baseline-base") \/ Gives(p, "base-ref")) /\ (Gives(p, "baseline-head") \/ Gives(p, "head-ref")), Judged(r))
CommandLab(p, r) == Judged(r)

Commands ==
  {<<c>> : c \in {"init", "check", "context", "coverage", "install", "serve", "graph", "prune", "doctor", "lab"}}
  \cup {<<"manifest", "verify">>, <<"task", "check">>, <<"mutation", "check">>}
  \cup {<<"claim", c>> : c \in {"create", "check", "list"}}
  \cup {<<"baseline", c>> : c \in {"create", "check", "update", "sign", "verify", "gate", "audit"}}
  \cup {<<"evidence", c>> : c \in {"check", "commit"}} \cup {<<"docs", c>> : c \in {"check", "stamp"}}
  \cup {<<"waivers", c>> : c \in {"list", "request", "sign"}}

(* The handlers that are modelled below or in modules of their own end with *)
(* a code for what they found.                                              *)
Handle(h, p, r) ==
  CASE h = <<"manifest", "verify">> -> CommandManifestVerify(p, r)
    [] h = <<"baseline", "audit">> -> CommandBaselineAudit(p, r)
    [] h = <<"evidence", "commit">> -> CommandEvidenceCommit(p, r)
    [] h = <<"task", "check">> -> CommandTaskCheck(p, r)
    [] h = <<"docs", "check">> -> CommandDocsCheck(p, r)
    [] h = <<"docs", "stamp">> -> CommandDocsStamp(p, r)
    [] h = <<"mutation", "check">> -> CommandMutationCheck(p, r)
    [] h = <<"context">> -> CommandContext(p, r)
    [] h = <<"graph">> -> CommandGraph(p, r)
    [] h = <<"prune">> -> CommandPrune(p, r)
    [] h = <<"claim", "create">> -> CommandClaimCreate(p, r)
    [] h = <<"claim", "check">> -> CommandClaimCheck(p, r)
    [] h = <<"claim", "list">> -> CommandClaimList(p, r)
    [] h = <<"baseline", "create">> -> CommandBaselineCreate(p, r)
    [] h \in {<<"baseline", "check">>, <<"check">>} -> CommandBaselineCheck(p, r)
    [] h = <<"baseline", "update">> -> CommandBaselineUpdate(p, r)
    [] h = <<"baseline", "sign">> -> CommandBaselineSign(p, r)
    [] h = <<"baseline", "verify">> -> CommandBaselineVerify(p, r)
    [] h = <<"evidence", "check">> -> CommandEvidenceCheck(p, r)
    [] h = <<"waivers", "list">> -> CommandWaiversList(p, r)
    [] h = <<"waivers", "request">> -> WaiverAsked(p, r)
    [] h = <<"baseline", "gate">> -> GateAsked(p, r)
    [] h = <<"doctor">> -> Judged(r)
    [] h = <<"lab">> -> CommandLab(p, r)
    [] h = <<"install">> -> Provided(~({"check", "uninstall"} \subseteq p.flags), Judged(r))
    [] h = <<"serve">> -> Provided("mcp" \in p.flags, Ran(0))
    [] OTHER -> Coded(r)

(* main, dispatchParsedArgs: the handler that ran, and the exit code. *)
Ends(code) == [runs |-> <<>>, exit |-> code]
Dispatch(p, r) ==
  LET named == {h \in Commands : Len(h) <= Len(p.command) /\ SubSeq(p.command, 1, Len(h)) = h} IN
  CASE p.failed \/ p.awaits # Absent -> Ends(2)
    [] ~p.failed /\ p.awaits = Absent /\ (p.command = <<>> \/ {"--help", "-h"} \cap Range(p.command) # {}) -> Ends(0)
    [] OTHER -> IF named = {} THEN Ends(2)
                ELSE LET h == CHOOSE h \in named : TRUE
                         ends == Handle(h, p, r)
                     IN IF ~ends.ran THEN Ends(ends.exit) ELSE [runs |-> h, exit |-> IF r = "throws" THEN 3 ELSE ends.exit]

ReadArguments ==
  /\ Asked("arguments")
  /\ \E c \in ArgumentCases :
       LET p == ParseArgs(c.argv) IN
       Take(c, IF p.failed THEN [does |-> Dispatch(p, c.result)]
               ELSE [does |-> Dispatch(p, c.result), values |-> p.values, lists |-> p.lists, flags |-> p.flags])

(* A line means the same however the values of its options are spelled, as  *)
(* long as they are not empty; nothing runs when one of them was not        *)
(* understood; and a command that judges or changes something succeeds only *)
(* if the engine did.                                                       *)
Spaced(argv) ==
  FoldLeft(LAMBDA acc, a : acc \o IF a.shape = "inline" /\ a.name \in ValuedOptions THEN <<Long(a.name), Word(a.value)>> ELSE <<a>>,
           <<>>, argv)
Unusual(argv) == {i \in DOMAIN argv : argv[i].shape = "inline" /\ (argv[i].value = "" \/ argv[i].name \notin ValuedOptions)}
SpellingDoesNotMatter ==
  Is("arguments") =>
    LET p == ParseArgs(Spaced(input.argv))
        does == answer.does
    IN
    /\ Unusual(input.argv) = {} =>
         /\ does = Dispatch(p, input.result)
         /\ does.runs # <<>> => answer.values = p.values /\ answer.lists = p.lists /\ answer.flags = p.flags
    /\ does.runs # <<>> => \A i \in DOMAIN input.argv : input.argv[i].shape = "inline" => input.argv[i].name \in ValuedOptions
    /\ does.exit = 0 /\ does.runs # <<>> =>
         input.result = "fine" \/ (input.result \in {"findings", "broken", "exists"}
                                    /\ does.runs \in {<<"context">>, <<"graph">>, <<"serve">>, <<"baseline", "sign">>, <<"baseline", "create">>})
    /\ does.runs # <<>> /\ input.result = "throws" => does.exit = 3

-----------------------------------------------------------------------------
(* "check": a case has the profile ("none", "unknown", or what it asks      *)
(* for), the options, the findings that the engine decided on, and whether  *)
(* the inputs were too broken for it to get as far as a decision.           *)
Broken == [rule |-> "MANIFEST_INVALID", severity |-> "error", cell |-> Absent]
NoProfile == [reportOnly |-> FALSE, changedOnly |-> FALSE]
ProfileOf(c) == IF c.profile \in {"none", "unknown"} THEN NoProfile ELSE c.asks

OfSeverity(found, s) == SelectSeq(found, LAMBDA f : f.severity = s)
EngineResult(c) ==
  IF c.broken THEN [findings |-> <<Broken>>, warnings |-> <<>>, ok |-> FALSE, exit |-> 2]
  ELSE LET errors == OfSeverity(c.found, "error") IN
       [findings |-> errors, warnings |-> OfSeverity(c.found, "warning"), ok |-> errors = <<>>, exit |-> IF errors = <<>> THEN 0 ELSE 1]

(* effectiveResult of commandCheck *)
EffectiveResult(c) ==
  LET r == EngineResult(c) IN
  IF ~ProfileOf(c).reportOnly THEN r
  ELSE [findings |-> <<>>, ok |-> TRUE, exit |-> 0,
        warnings |-> r.warnings \o [i \in DOMAIN r.findings |-> [r.findings[i] EXCEPT !.severity = "warning"]]]

ChangedRun(c) == c.changed \/ ProfileOf(c).changedOnly
Reported(r) == r.findings \o r.warnings

(* auditEventsForCheck *)
Event(name, outcome) == [event |-> name, outcome |-> outcome]
AuditEvents(c, r) ==
  <<Event("check.started", Absent)>>
  \o (IF ChangedRun(c) /\ ~c.broken THEN <<Event("changed_files.computed", Absent)>> ELSE <<>>)
  \o (IF c.baseline THEN <<Event("baseline.compared", Absent)>> ELSE <<>>)
  \o [i \in DOMAIN Reported(r) |->
        Event("finding.detected", IF Reported(r)[i].severity = "error" THEN "rejected" ELSE "reported")]
  \o <<Event("check.completed", IF r.ok THEN "ok" ELSE "failed")>>

(* checkSummary *)
RulesOf(found) == {found[i].rule : i \in DOMAIN found}
CountByRule(found) == [q \in RulesOf(found) |-> Cardinality({i \in DOMAIN found : found[i].rule = q})]
CellsOf(found) == {found[i].cell : i \in DOMAIN found} \ {Absent}
CheckSummary(r) ==
  [ok |-> r.ok, exit |-> r.exit, findings |-> Len(r.findings), warnings |-> Len(r.warnings), cells |-> Cardinality(CellsOf(Reported(r))),
   failedRules |-> RulesOf(r.findings), warningRules |-> RulesOf(r.warnings), byRule |-> CountByRule(r.findings)]

(* formatCheckResultSarif, formatCheckResultMarkdown: a row per finding *)
SarifRows(r) == [i \in DOMAIN Reported(r) |-> <<Reported(r)[i].rule, IF Reported(r)[i].severity = "error" THEN "error" ELSE "warning">>]
MarkdownRows(r) == [i \in DOMAIN Reported(r) |-> <<Reported(r)[i].rule, Reported(r)[i].severity>>]

(* writeCheckArtifacts; a graph or a record is there when the check came to a decision *)
ArtifactsOf(c) == {a \in c.wants : a \in {"audit-log", "summary-json"} \/ ~c.broken}

CommandCheck(c) ==
  CASE c.profile # "none" /\ c.broken -> [exit |-> 3, written |-> {}]
    [] c.profile = "unknown" /\ ~c.broken -> [exit |-> 2, written |-> {}]
    [] ChangedRun(c) /\ {"evidence-graph", "acceptance-record"} \cap c.wants # {} -> [exit |-> 2, written |-> {}]
    [] OTHER ->
         LET r == EffectiveResult(c) IN
         [exit |-> r.exit, written |-> ArtifactsOf(c), events |-> AuditEvents(c, r), summary |-> CheckSummary(r),
          sarif |-> SarifRows(r), rows |-> MarkdownRows(r), accepted |-> EngineResult(c).ok]

ReportCheck ==
  /\ Asked("report")
  /\ \E c \in RunCases : Take(c, CommandCheck(c))

(* The exit code, the audit log, the summary and the SARIF of one check say *)
(* the same: a finding of the engine is in each of them once, it is an      *)
(* error there exactly when it fails the check, and a profile that only     *)
(* reports loses none.  The record of a check says what its exit code says, *)
(* unless such a profile turned it into success.                            *)
How(seq, holds(_)) == Cardinality({i \in DOMAIN seq : holds(seq[i])})
ReportsAgree ==
  Is("report") /\ "events" \in DOMAIN answer =>
    LET errors == How(answer.sarif, LAMBDA row : row[2] = "error") IN
    /\ (answer.exit = 0) = (errors = 0)
    /\ errors = answer.summary.findings
    /\ errors = How(answer.events, LAMBDA e : e.outcome = "rejected")
    /\ Len(answer.sarif) = answer.summary.findings + answer.summary.warnings
    /\ Len(answer.sarif) = How(answer.events, LAMBDA e : e.event = "finding.detected")
    /\ ~input.broken => \A q \in RulesOf(input.found) : How(answer.rows, LAMBDA row : row[1] = q)
                                                         = How(input.found, LAMBDA f : f.rule = q)
    /\ {answer.sarif[i][1] : i \in DOMAIN answer.sarif} = answer.summary.failedRules \cup answer.summary.warningRules
    /\ "acceptance-record" \in answer.written /\ ~ProfileOf(input).reportOnly => (answer.exit = 0) = answer.accepted
    /\ answer.events[Len(answer.events)].outcome = (IF answer.exit = 0 THEN "ok" ELSE "failed")

-----------------------------------------------------------------------------
(* "init": what stands at the path of the manifest, how a manifest came     *)
(* about ("import", "preset", "infer"), whether that fails, whether it is   *)
(* the example because there are no sources, and whether its entry exists.  *)
Example(c) == c.from = "infer" /\ c.example /\ ~c.entry

(* commandInit, ensureNewFileTargetAvailable, writeNewFileEnsuringDirectory *)
CommandInit(c) ==
  CASE c.target # "absent" -> [exit |-> 2, creates |-> {}]
    [] c.target = "absent" /\ c.from = "both" -> [exit |-> 2, creates |-> {}]
    [] c.target = "absent" /\ c.from # "both" /\ c.fails -> [exit |-> IF c.from = "import" THEN 3 ELSE 2, creates |-> {}]
    [] OTHER -> IF Example(c) /\ c.noScaffold THEN [exit |-> 2, creates |-> {}]
                ELSE [exit |-> 0, creates |-> {"manifest"} \cup IF Example(c) THEN {"entry"} ELSE {}]

Initialise ==
  /\ Asked("initialise")
  /\ \E c \in InitCases : Take(c, CommandInit(c))

(* Nothing that is there is written over, be it a link that leads nowhere,  *)
(* a refused init has written nothing, and the manifest that an accepted    *)
(* one wrote has an entry to check.                                         *)
InitKeepsFiles ==
  Is("initialise") =>
    /\ "manifest" \in answer.creates => input.target = "absent"
    /\ "entry" \in answer.creates => ~input.entry
    /\ answer.exit # 0 => answer.creates = {}
    /\ answer.exit = 0 => /\ "manifest" \in answer.creates
                          /\ input.from = "infer" /\ input.example => input.entry \/ "entry" \in answer.creates

-----------------------------------------------------------------------------
(* "install": a text is a sequence of lines.  The lines of a block are its  *)
(* start with the target and the body it was signed for, the body in one    *)
(* line, and its end; a line "fence" is an instruction of CellFence outside *)
(* of any block.                                                            *)
Blank == [line |-> "blank"]
Start(target, body) == [line |-> "start", target |-> target, sum |-> body]
Body(version) == [line |-> "body", version |-> version]
End == [line |-> "end"]
GeneratedBlock(target) == <<Start(target, <<Body(target)>>), Body(target), End>>

(* installBlockPattern: the first start behind which, after at least one    *)
(* line, there is an end; [0, 0] when there is none.                        *)
EndsAfter(text, i) == {j \in (i + 2)..Len(text) : text[j] = End}
BlockIn(text) ==
  LET starts == {i \in DOMAIN text : text[i].line = "start" /\ EndsAfter(text, i) # {}} IN
  IF starts = {} THEN <<0, 0>>
  ELSE LET i == CHOOSE i \in starts : \A k \in starts : i <= k
       IN <<i, CHOOSE j \in EndsAfter(text, i) : \A k \in EndsAfter(text, i) : j <= k>>
HasBlock(text) == BlockIn(text)[1] # 0
Spliced(text, new) == SubSeq(text, 1, BlockIn(text)[1] - 1) \o new \o SubSeq(text, BlockIn(text)[2] + 1, Len(text))
Block(text) == SubSeq(text, BlockIn(text)[1], BlockIn(text)[2])
Unsound(text) == Head(Block(text)).sum # Tail(Front(Block(text)))
(* oldFenceTextOutsideBlock *)
UnmanagedText(text) ==
  LET rest == IF HasBlock(text) THEN Spliced(text, <<>>) ELSE text
  IN \E i \in DOMAIN rest : rest[i].line \in {"fence", "body"}

TrimmedEnd(text) ==
  LET kept == {i \in DOMAIN text : text[i] # Blank}
  IN IF kept = {} THEN <<>> ELSE SubSeq(text, 1, CHOOSE i \in kept : \A k \in kept : k <= i)
SingleBlanks(text) ==
  FoldLeft(LAMBDA acc, l : IF l = Blank /\ acc # <<>> /\ Last(acc) = Blank THEN acc ELSE Append(acc, l), <<>>, text)

InstallBlock(text, target) ==
  IF HasBlock(text) THEN Spliced(text, GeneratedBlock(target))
  ELSE LET kept == TrimmedEnd(text) IN kept \o (IF kept = <<>> THEN <<>> ELSE <<Blank>>) \o GeneratedBlock(target)

UninstallBlock(text) == IF HasBlock(text) THEN TrimmedEnd(SingleBlanks(Spliced(text, <<Blank>>))) ELSE text

InstallFindings(text, target) ==
  (IF ~HasBlock(text) THEN {"missing"}
   ELSE (IF Unsound(text) THEN {"checksum"} ELSE {}) \cup (IF Block(text) # GeneratedBlock(target) THEN {"differs"} ELSE {}))
  \cup (IF UnmanagedText(text) THEN {"unmanaged"} ELSE {})

(* commandInstall *)
CommandInstall(c) ==
  LET next == CASE c.does = "install" -> InstallBlock(c.text, c.target)
                [] c.does = "uninstall" -> UninstallBlock(c.text)
                [] OTHER -> c.text
      findings == IF c.does = "check" THEN InstallFindings(c.text, c.target) ELSE {}
  IN [text |-> next, findings |-> findings, changed |-> next # c.text, exit |-> IF findings = {} THEN 0 ELSE 1]

Install ==
  /\ Asked("install")
  /\ \E c \in InstallCases : Take(c, CommandInstall(c))

(* Once installed, the block passes its own check, another install changes  *)
(* nothing, and whatever the command does, the other lines of the file stay *)
(* in their order: of texts whose markers come in pairs.  A check that      *)
(* passes leaves nothing for an install to do.                              *)
Paired(text) ==
  \A i \in DOMAIN text :
    /\ text[i].line = "start" => \E j \in EndsAfter(text, i) : \A k \in (i + 1)..(j - 1) : text[k].line \notin {"start", "end", "plain"}
    /\ text[i].line = "end" => \E k \in 1..(i - 2) : text[k].line = "start" /\ i \in EndsAfter(text, k)
Own(text) == SelectSeq(text, LAMBDA l : l.line = "plain")
InstallSettles ==
  Is("install") =>
    /\ Paired(input.text) => Own(answer.text) = Own(input.text)
    /\ input.does = "install" /\ Paired(input.text) =>
         /\ InstallFindings(answer.text, input.target) \subseteq {"unmanaged"}
         /\ ("unmanaged" \in InstallFindings(answer.text, input.target)) = UnmanagedText(input.text)
         /\ InstallBlock(answer.text, input.target) = answer.text
         /\ Own(UninstallBlock(answer.text)) = Own(input.text)
    /\ input.does = "check" /\ answer.exit = 0 =>
         InstallBlock(input.text, input.target) = input.text /\ ~Unsound(input.text)

-----------------------------------------------------------------------------
(* "doctor": a case has whether there is a manifest, the texts of the two   *)
(* instruction files (<<>> for one that is not there), the repository, the  *)
(* client for it, what it answers (the checks that the branch requires, or  *)
(* that it fails), and the check that is asked for.                         *)
InstructionsStatus(texts) ==
  LET managed == {t \in texts : HasBlock(t)} IN
  IF managed = {} THEN "warning" ELSE IF \E t \in managed : Unsound(t) THEN "fail" ELSE "pass"

(* requiredCheckNames and the rest of commandDoctor *)
ProtectionStatuses(c) ==
  CASE ~c.repository \/ ~c.client -> <<"warning">>
    [] c.repository /\ c.client /\ c.protection.fails -> <<"fail">>
    [] OTHER -> <<"pass">> \o IF c.requires = Absent THEN <<>>
                              ELSE <<IF c.requires \in c.protection.contexts \cup c.protection.checks THEN "pass" ELSE "fail">>
CommandDoctor(c) ==
  LET statuses == <<IF c.manifest THEN "pass" ELSE "fail", InstructionsStatus(c.texts)>> \o ProtectionStatuses(c)
  IN [statuses |-> statuses, exit |-> IF "fail" \in Range(statuses) THEN 1 ELSE 0]

Doctor ==
  /\ Asked("doctor")
  /\ \E c \in DoctorCases : Take(c, CommandDoctor(c))

(* The doctor is content only with instructions that the check of the       *)
(* installation does not find altered, and with a required check that the   *)
(* branch has, by whichever of the two lists; without a warning it has      *)
(* looked at both.                                                          *)
DoctorSeesDrift ==
  Is("doctor") /\ answer.exit = 0 =>
    /\ input.manifest
    /\ \A t \in input.texts : "checksum" \notin InstallFindings(t, "claude")
    /\ "warning" \notin Range(answer.statuses) =>
         /\ \E t \in input.texts : "missing" \notin InstallFindings(t, "claude")
         /\ input.requires # Absent => input.requires \in input.protection.contexts \cup input.protection.checks

-----------------------------------------------------------------------------
(* "waivers request" and "waivers sign": c.asked is what the request names, *)
(* with a reason [long, telling]: of twelve characters, of twelve letters;  *)
(* c.check is the check that meets the waiver, its directive with the id of *)
(* the attestation; c.env is where the waiver is signed.  Days are counted  *)
(* from the midnight before; half of the day is over.                       *)
(* validateWaiverExpiry: whole days that are left, rounded down.            *)
ExpiryAllowed(day) == (2 * day - 1) \div 2 \in 0..MAX_WAIVER_DAYS

(* commandWaiversRequest, createWaiverRequest *)
RequestGranted(c) ==
  /\ c.asked.line # 0 /\ ExpiryAllowed(c.asked.day) /\ c.asked.reason.long
  /\ c.asked.rule \notin RequiredRules(c.check)

(* commandWaiversSign, with the template of the request or an edited one *)
SignGranted(c) ==
  /\ c.env.key # Absent /\ c.env.head # Absent
  /\ c.asked.file \in c.check.sources
  /\ ExpiryAllowed(c.asked.day)
  /\ c.asked.rule \in ConcreteRules /\ c.asked.line > 0 /\ c.asked.reason.long
  /\ c.approver \notin {Absent, "PENDING"}

Signed(c) ==
  [id |-> c.id, shaped |-> TRUE, rule |-> c.asked.rule, file |-> c.asked.file, sha |-> c.check.text.sha, line |-> c.asked.line,
   head |-> c.env.head, repository |-> c.env.repository, expires |-> c.asked.day, approver |-> c.approver,
   signedBy |-> c.env.key, keyId |-> c.env.keyId, reason |-> c.asked.reason.telling, print |-> c.print]

SignWaiver ==
  /\ Asked("sign")
  /\ \E c \in SignCases :
       Take(c, [requested |-> RequestGranted(c), signed |-> IF SignGranted(c) THEN <<Signed(c)>> ELSE <<>>])

(* The way from a request to a waiver that counts: a request that is        *)
(* granted can be signed where the key and the file are, and what was       *)
(* signed in the environment of the check, by an approver it trusts, for    *)
(* the line after its directive, makes the directive valid.  Left out is    *)
(* what the two sides count differently: the last day of the limit, and     *)
(* reasons whose characters are not letters.                                *)
RequestsLeadToWaivers ==
  Is("sign") =>
    LET w == [input.check EXCEPT !.attested = answer.signed]
        at == DirectiveLine(w, [rule |-> input.asked.rule, id |-> input.id])
    IN
    /\ answer.requested /\ input.asked.file \in input.check.sources /\ input.env.key # Absent /\ input.env.head # Absent
       /\ input.approver \notin {Absent, "PENDING"} /\ input.asked.rule \in ConcreteRules /\ input.asked.line > 0
       => answer.signed # <<>>
    /\ answer.signed # <<>> /\ at # 0 /\ input.asked.line = at + 1 /\ input.asked.file = w.text.file
       /\ input.env = [x \in DOMAIN input.env |-> w.env[x]] /\ input.approver \in w.env.approvers \cap SafeIdentities
       /\ input.asked.reason.telling /\ input.asked.day <= MAX_WAIVER_DAYS /\ w.text.lines[at].requested = Absent
       => (ValidWaiver(w, w.text.lines[at]) = (input.asked.rule \notin RequiredRules(w)))

-----------------------------------------------------------------------------
(* "serve --mcp": a line of the input is empty, no JSON, or a request with  *)
(* its id ("none" when it has none), its method, the tool it names, and     *)
(* whether the tool succeeds with its arguments.  A bare null is a request  *)
(* whose id cannot be read.                                                 *)
Response(id, what) == [id |-> id, what |-> what]
McpTools == {"get_cell_context", "check_change", "create_claim", "explain_finding"}

(* mcpToolCall: the paths of the arguments are looked at for every tool. *)
ToolSucceeds(q) == q.confined /\ q.tool \in McpTools /\ q.complete /\ q.engine

(* handleMcpRequest *)
HandleMcp(q) ==
  CASE q.id = "none" -> <<>>
    [] q.id # "none" /\ q.method \in {"initialize", "tools/list"} -> <<Response(q.id, "result")>>
    [] q.id # "none" /\ q.method = "tools/call" /\ q.tool = Absent -> <<Response(q.id, "-32602")>>
    [] q.id # "none" /\ q.method = "tools/call" /\ q.tool # Absent ->
         <<Response(q.id, IF ToolSucceeds(q) THEN "result" ELSE "tool error")>>
    [] OTHER -> <<Response(q.id, "-32601")>>

(* commandServe *)
ServeLine(l) ==
  CASE l.line = "blank" -> <<>>
    [] l.line \in {"garbage", "bare null"} -> <<Response("null", "-32700")>>
    [] OTHER -> HandleMcp(l.request)
Serve ==
  /\ Asked("serve")
  /\ \E lines \in ServeCases : Take(lines, [i \in DOMAIN lines |-> ServeLine(lines[i])])

(* Every request with an id gets one response, with its id, in the order of *)
(* the requests, whatever the lines before it were and whether its tool     *)
(* failed; a notification gets none, and a claim is made only by a request  *)
(* that can be told about it.                                               *)
ServeAnswersEach ==
  Is("serve") =>
    /\ Len(answer) = Len(input)
    /\ \A i \in DOMAIN input :
         LET l == input[i] IN
         /\ Len(answer[i]) = (IF l.line \in {"garbage", "bare null"} \/ (l.line = "request" /\ l.request.id # "none") THEN 1 ELSE 0)
         /\ l.line = "request" /\ answer[i] # <<>> =>
              /\ Head(answer[i]).id = l.request.id
              /\ Head(answer[i]).what = "result" /\ l.request.method = "tools/call" => l.request.tool \in McpTools /\ l.request.confined
=============================================================================
