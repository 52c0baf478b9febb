------------------------------ MODULE ToolPolicy ------------------------------
(***************************************************************************)
(* What the MCP proxy makes of one tool call (mcp-proxy/src/index.ts):     *)
(* which tools are write tools, which files a call names, whether the call *)
(* goes to the downstream server and what the audit log says of it.        *)
(*                                                                         *)
(* A tool name is matched whatever its case: LowerOf[n] is n.toLowerCase().*)
(* The arguments of a call give, for each key, the set of paths found under*)
(* it, in a plain string, an array or the text of a patch.                 *)
(***************************************************************************)
EXTENDS Naturals, Sequences, SequencesExt

CONSTANTS Name, LowerOf, Key

ASSUME LowerAssumption == LowerOf \in [Name -> Name]

Undefined == {"undefined"}     \* of pathsForToolCall: not a write tool

Options == [mode : {"enforce", "dry-run", "off"}, failMode : {"closed", "open"},
            unknown : {"allow", "deny"},
            writeTools : Seq([name : Name, keys : SUBSET Key]),
            readTools : SUBSET Name]

SameName(m, n) == LowerOf[m] = LowerOf[n]

(* Mutant: a redeclared tool keeps the place of the key it replaces, and    *)
(* only the key of the same case is replaced.                               *)
MergeInPlace(tools, patch) ==
  FoldLeft(LAMBDA merged, d :
             IF \E i \in DOMAIN merged : merged[i].name = d.name
               THEN [i \in DOMAIN merged |-> IF merged[i].name = d.name THEN d ELSE merged[i]]
               ELSE Append(merged, d),
           tools, patch)

(* The tools left when those called n, in whatever case, are deleted.       *)
Unless(tools, d, n) == IF SameName(d.name, n) THEN tools ELSE Append(tools, d)
WithoutTool(tools, n) ==
  LET kept[i \in 0..Len(tools)] == IF i = 0 THEN <<>> ELSE Unless(kept[i - 1], tools[i], n)
  IN kept[Len(tools)]

(* mergeWriteToolConfig: the declared tools, oldest first. *)
Redeclared(tools, d) == Append(WithoutTool(tools, d.name), d)
MergeWriteTools(tools, patch) ==
  LET merged[i \in 0..Len(patch)] ==
        IF i = 0 THEN tools ELSE Redeclared(merged[i - 1], patch[i])
  IN merged[Len(patch)]

IsWriteTool(o, n) == \E i \in DOMAIN o.writeTools : SameName(o.writeTools[i].name, n)
IsReadTool(o, n) == \E r \in o.readTools : SameName(r, n)

(* getNestedValues, stringsFromValue, pathsFromPatchText: the paths under    *)
(* the keys, however each of them is written down.                          *)
Found(args, keys) == UNION {args[k] : k \in keys}

(* pathsForToolCall: the last declaration that matches names the keys. *)
PathsFor(o, n, args) ==
  IF ~IsWriteTool(o, n) THEN Undefined
  ELSE LET d == o.writeTools[SelectLastInSeq(o.writeTools,
                               LAMBDA e : SameName(e.name, n))]
       IN Found(args, d.keys)

(* The call needs a decision of checkWriteAccess. *)
NeedsAccess(o, n, args) ==
  o.mode # "off" /\ PathsFor(o, n, args) \notin {Undefined, {}}

Outcome(forward, audit) == [forward |-> forward, audit |-> audit]

(* A write that is refused, cannot be judged, or names no path. *)
RefusedWrite(o) ==
  IF o.mode = "dry-run" THEN Outcome(TRUE, "dry-run-deny")
  ELSE IF o.failMode = "open" THEN Outcome(TRUE, "allow")
  ELSE Outcome(FALSE, "deny")

(* A tool in neither list under the policy "deny": the fail mode is no help.*)
RefusedUnknown(o) ==
  IF o.mode = "dry-run" THEN Outcome(TRUE, "dry-run-deny")
  ELSE Outcome(FALSE, "deny")

(* decideToolCall and decideToolCallAsync, "verdict" being what              *)
(* checkWriteAccess says when it is asked: "ok", "denied" or "error".        *)
Decide(o, n, args, verdict) ==
  LET paths == PathsFor(o, n, args) IN
  IF o.mode = "off" THEN Outcome(TRUE, "off")
  ELSE IF paths = Undefined
    THEN IF o.unknown = "deny" /\ ~IsReadTool(o, n)
           THEN RefusedUnknown(o)
           ELSE Outcome(TRUE, "allow")
  ELSE IF paths # {} /\ verdict = "ok" THEN Outcome(TRUE, "allow")
  ELSE RefusedWrite(o)

(* shouldExposeTool: the filter of tools/list. *)
Exposed(o, n) ==
  \/ o.mode # "enforce"
  \/ o.unknown = "allow"
  \/ IsWriteTool(o, n)
  \/ IsReadTool(o, n)
=============================================================================
