------------------------------- MODULE ProxyArgs -------------------------------
(***************************************************************************)
(* The command line of the MCP proxy (parseProxyArgs).  A token is         *)
(* [kind, option, value]: an "option" --o, an "assigned" option --o=v, a   *)
(* "word" v, a "flag" that takes no value (--allow-cwd-mismatch), or the    *)
(* "end" of the options, "--".  Texts are strings;                         *)
(* DeclarationOf gives the write tool declared by a text NAME=KEYS and     *)
(* ConfigOf the contents of the tool configuration file of that name.  The *)
(* options that no decision depends on (--root, --claims, ...) are called  *)
(* "plain".                                                                *)
(***************************************************************************)
EXTENDS Cases, ToolPolicy

CONSTANTS
  DeclarationOf, ConfigOf,
  CallCases,      \* [options, tool, args, verdict]
  LineCases       \* [tokens, env, defaults, tool, args]

Declaration == [name : Name, keys : SUBSET Key]
TokenSet == [kind : {"option", "assigned", "word", "flag", "end"}, option : STRING, value : STRING]

Empty == ""
None == "none"       \* no value at all

(* No text is the missing one, and an option has a name. *)
ASSUME LineAssumption ==
  /\ None \notin DOMAIN DeclarationOf \cup DOMAIN ConfigOf
  /\ \A text \in DOMAIN DeclarationOf : DeclarationOf[text] \in Declaration
  /\ \A text \in DOMAIN ConfigOf : ConfigOf[text].writeTools \in Seq(Declaration)
  /\ \A c \in CallCases : c.options \in Options
  /\ \A c \in LineCases :
       /\ c.tokens \in Seq(TokenSet) /\ c.defaults \in Seq(Declaration) /\ c.tool \in Name
       /\ \A i \in DOMAIN c.tokens : c.tokens[i].kind = "option" => c.tokens[i].option # None

Token(kind, option, value) == [kind |-> kind, option |-> option, value |-> value]

(* The options before the arguments are read, from the environment.         *)
StartOptions(env, defaults) ==
  [mode |-> env.mode, failMode |-> env.failMode, unknown |-> env.unknown,
   feature |-> env.feature, writeTools |-> defaults, readTools |-> env.readTools,
   agent |-> env.agent, command |-> env.command, awaiting |-> None, status |-> "reading"]

Failed(s) == [s EXCEPT !.status = "error"]

Guards == {"mode", "failMode", "unknown", "feature"}
Allowed == [mode |-> {"enforce", "dry-run", "off"}, failMode |-> {"closed", "open"},
            unknown |-> {"allow", "deny"}, feature |-> {"allow", "deny"}]
Default == [mode |-> "enforce", failMode |-> "closed", unknown |-> None, feature |-> None]

(* parseMode, parseFailMode, parseUnknownToolPolicy and                     *)
(* parseDownstreamFeaturePolicy: the parsed value, or none for an error.    *)
ParseGuard(option, value) ==
  IF value \in Allowed[option] THEN {value}
  ELSE IF value \in {Empty, None} /\ Default[option] # None THEN {Default[option]}
  ELSE {}

(* readToolConfig: something is configured and every write tool has a key.  *)
ConfigOk(c) ==
  /\ c.writeTools # <<>> \/ c.readTools # {} \/ c.unknown # None
  /\ \A i \in DOMAIN c.writeTools : c.writeTools[i].keys # {}
  /\ c.unknown \in {None} \cup Allowed.unknown

(* One option with the text of its value. *)
SetOption(s, option, value) ==
  CASE option \in Guards ->
         IF ParseGuard(option, value) = {} THEN Failed(s)
         ELSE [s EXCEPT ![option] = CHOOSE v \in ParseGuard(option, value) : TRUE]
    [] option \in {"agent", "command"} ->
         [s EXCEPT ![option] = IF value = None THEN Empty ELSE value]
    [] option = "writeTool" ->
         IF value \notin DOMAIN DeclarationOf \/ DeclarationOf[value].keys = {} THEN Failed(s)
         ELSE [s EXCEPT !.writeTools = MergeWriteTools(@, <<DeclarationOf[value]>>)]
    [] option = "readTool" ->
         IF value \in {None, Empty} THEN Failed(s) ELSE [s EXCEPT !.readTools = @ \cup {value}]
    [] option = "argument" ->
         IF value = None THEN Failed(s) ELSE s
    [] option = "toolConfig" ->
         IF value \notin DOMAIN ConfigOf \/ ~ConfigOk(ConfigOf[value]) THEN Failed(s)
         ELSE LET c == ConfigOf[value]
              IN [s EXCEPT !.writeTools = MergeWriteTools(@, c.writeTools),
                           !.readTools = @ \cup c.readTools,
                           !.unknown = IF c.unknown = None THEN @ ELSE c.unknown]
    [] OTHER -> s

(* The text of a token that is taken as the value of the option before it.  *)
TextOf(token) ==
  CASE token.kind = "word" -> token.value
    [] token.kind = "assigned" -> "--" \o token.option \o "=" \o token.value
    [] token.kind = "end" -> "--"
    [] OTHER -> "--" \o token.option

(* One token; after "--" the next one is the command, if there is one.      *)
ReadToken(s, token) ==
  IF s.status = "command"
    THEN [s EXCEPT !.command = IF TextOf(token) = Empty THEN @ ELSE TextOf(token), !.status = "done"]
  ELSE IF s.status # "reading" THEN s
  ELSE IF s.awaiting # None
    THEN SetOption([s EXCEPT !.awaiting = None], s.awaiting, TextOf(token))
  ELSE CASE token.kind = "end" -> [s EXCEPT !.status = "command"]
         [] token.kind = "option" -> [s EXCEPT !.awaiting = token.option]
         [] token.kind = "assigned" -> SetOption(s, token.option, token.value)
         [] token.kind = "flag" -> s
         [] OTHER -> Failed(s)

ReadTokens(tokens, start) ==
  LET read[i \in 0..Len(tokens)] == IF i = 0 THEN start ELSE ReadToken(read[i - 1], tokens[i])
  IN read[Len(tokens)]

(* parseProxyArgs: the tokens, then the option that argv left without value,*)
(* then the check that there are an agent and a command.                    *)
ParseProxyArgs(tokens, env, defaults) ==
  LET read == ReadTokens(tokens, StartOptions(env, defaults))
      done == IF read.status = "reading" /\ read.awaiting # None
                THEN SetOption(read, read.awaiting, None) ELSE read
  IN IF done.agent = Empty \/ done.command = Empty THEN Failed(done) ELSE done

-----------------------------------------------------------------------------
DecideCall ==
  Asked("call") /\ \E c \in CallCases : Take(c, Decide(c.options, c.tool, c.args, c.verdict))
ReadLine ==
  Asked("line") /\ \E c \in LineCases : Take(c, ParseProxyArgs(c.tokens, c.env, c.defaults))

(* A tool that tools/list hides is refused when it is called, whatever the  *)
(* claims say: the filter and the decision know the same tools.             *)
HiddenIsDenied ==
  Is("call") => Exposed(input.options, input.tool) \/ ~answer.forward

(* A dry run forwards every call and its audit line is the one that the     *)
(* fail-closed enforcement of the same options would have acted on.         *)
DryRunForetells ==
  LET enforced == Decide([input.options EXCEPT !.mode = "enforce", !.failMode = "closed"],
                         input.tool, input.args, input.verdict)
  IN Is("call") /\ input.options.mode = "dry-run" =>
       /\ answer.forward
       /\ answer.audit = IF enforced.forward THEN "allow" ELSE "dry-run-deny"

(* What may stand behind the tokens read so far: an option, the value of an *)
(* option, or, once "--" was read, what is meant for the server.            *)
ExpectedAfter(expected, token) ==
  IF expected = "value" THEN "option"
  ELSE IF expected = "option" /\ token.kind = "option" THEN "value"
  ELSE IF token.kind = "end" THEN "nothing"
  ELSE expected
Expected(tokens) ==
  LET next[i \in 0..Len(tokens)] == IF i = 0 THEN "option" ELSE ExpectedAfter(next[i - 1], tokens[i])
  IN next

(* The option that token i sets, and its text.                              *)
NoSetting == <<None, None>>
SettingAt(tokens, i) ==
  IF Expected(tokens)[i - 1] = "value" THEN <<tokens[i - 1].option, TextOf(tokens[i])>>
  ELSE IF Expected(tokens)[i - 1] = "option" /\ tokens[i].kind = "assigned"
    THEN <<tokens[i].option, tokens[i].value>>
  ELSE NoSetting

DeclaredBy(setting) ==
  IF setting[1] = "writeTool" /\ setting[2] \in DOMAIN DeclarationOf THEN <<DeclarationOf[setting[2]]>>
  ELSE IF setting[1] = "toolConfig" /\ setting[2] \in DOMAIN ConfigOf THEN ConfigOf[setting[2]].writeTools
  ELSE <<>>

(* The write tools declared by the tokens, oldest first. *)
DeclaredAfter(before, tokens, i) == before \o DeclaredBy(SettingAt(tokens, i))
Declarations(tokens) ==
  LET declared[i \in 0..Len(tokens)] == IF i = 0 THEN <<>> ELSE DeclaredAfter(declared[i - 1], tokens, i)
  IN declared[Len(tokens)]

(* The paths of a call come from the keys of the last declaration of its    *)
(* tool on the command line, in whatever case, from the built-in ones only  *)
(* if there is none, and what was never declared is not a write tool.       *)
LatestDeclarationRules ==
  LET given == input.defaults \o Declarations(input.tokens)
      meant == {i \in DOMAIN given : SameName(given[i].name, input.tool)}
      paths == PathsFor(answer, input.tool, input.args)
  IN Is("line") /\ answer.status # "error" =>
       /\ \A i \in meant : (\A j \in meant : j <= i) => paths = UNION {input.args[k] : k \in given[i].keys}
       /\ meant = {} => paths = Undefined

(* The setting names a word of an option, by itself or in a file.           *)
NamedBy(setting, guard, word) ==
  \/ setting[1] = guard /\ setting[2] = word
  \/ guard = "unknown" /\ setting[1] = "toolConfig"
       /\ setting[2] \in DOMAIN ConfigOf /\ ConfigOf[setting[2]].unknown = word

(* A proxy that starts is more lenient than its defaults only if the lenient*)
(* word was given for that very option, in the environment, on the command  *)
(* line or in a tool configuration file.                                    *)
Lenient == {"dry-run", "off", "open", "allow"}
LenientOnlyByName ==
  Is("line") /\ answer.status # "error" =>
    \A g \in Guards : answer[g] \in Lenient =>
      \/ answer[g] = input.env[g]
      \/ \E i \in DOMAIN input.tokens : NamedBy(SettingAt(input.tokens, i), g, answer[g])
=============================================================================
