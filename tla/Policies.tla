-------------------------------- MODULE Policies --------------------------------
(***************************************************************************)
(* The decisions of CellFence that are functions of their input, one topic *)
(* each: a case is put together from the sets of the constants, the        *)
(* decision is taken once, and the properties say how it must relate to    *)
(* other decisions about the same case.                                    *)
(***************************************************************************)
EXTENDS Cases, SourceScans, ResourceCalls, PythonAnalysis, ModuleResolution

CONSTANTS
  ExportCases,    \* [exports, specifier, mode, files]
  AliasCases,     \* [aliases, specifier, files]
  SurfaceCases,   \* [tree, entry]
  ProgramCases    \* programs in the sense of SourceScans

Topics ==
  {"exports", "alias", "surface", "program", "guard", "string", "fs", "sql",
   "calls", "python batch", "python loads", "python surface",
   "python routes", "python models", "python import", "python sql",
   "signature"}

Init == topic \in Topics /\ Undecided

ResolveExport ==
  Asked("exports") /\ \E c \in ExportCases :
  Take(c, ExportTarget(c.exports, c.specifier, c.mode, c.files))
ResolveAlias ==
  Asked("alias") /\ \E c \in AliasCases :
  Take(c, AliasTarget(c.aliases, c.specifier, c.files))
ListSurface ==
  Asked("surface") /\ \E c \in SurfaceCases :
  Take(c, [symbols |-> PublicSymbols(c.tree, c.entry),
           roots |-> DeclarationRoots(c.tree, c.entry)])
ScanProgram ==
  Asked("program") /\ \E c \in ProgramCases :
  Take(c, Scan(c))

Next ==
  \/ ResolveExport \/ ResolveAlias \/ ListSurface \/ ScanProgram
  \/ ScanGuards \/ ResolveString \/ FindFsCall \/ ReadSql
  \/ CollectAccesses \/ InspectBatch \/ ScanPython \/ ReadSurface
  \/ ReadRoutes \/ ReadModels \/ ResolvePythonCase \/ ReadPySql
  \/ SignSurface
Spec == Init /\ [][Next]_vars
-----------------------------------------------------------------------------
(* A subpath that Node resolves through the exports map is public here, with*)
(* the same target, and what Node refuses, because the map excludes it or   *)
(* does not mention it, is private: the order of conditions, of lists and   *)
(* of patterns is Node's, wherever the two are meant to read a map alike.   *)
ExportsLikeNode ==
  LET map == input.exports.map
      node == NodeTarget(map, input.specifier, input.mode)
  IN Is("exports") /\ ReadAlike(map, input.specifier, input.mode) =>
       /\ node \in {Null, NoTarget} => answer.state = "NOT_EXPORTED_PRIVATE"
       /\ node = Broken => answer.state # "PUBLIC_RESOLVED"
       /\ node.kind = "path" =>
            /\ answer.exported
            /\ node.path \in input.files => answer.detail = node.path
       /\ answer.state = "PUBLIC_RESOLVED" => answer.detail \in input.files

-----------------------------------------------------------------------------
(* The targets of an alias for a specifier, without extension.              *)
AliasBases(alias, specifier) ==
  LET value == IF HasStar(alias.pattern) THEN Captured(alias.pattern, specifier) ELSE <<>>
  IN {Fill(alias.targets[t], value) : t \in DOMAIN alias.targets}

(* An alias leads to a declaration file only where no source file stands    *)
(* beside it, and an alias without wildcard that leads to a file is never   *)
(* overruled by one with a wildcard.                                        *)
AliasPrefersSource ==
  LET exact == {a \in Range(input.aliases) : a.pattern = input.specifier}
      found == {f \in input.files : \E a \in exact : f.stem \in AliasBases(a, input.specifier)}
  IN Is("alias") /\ answer # NoFile =>
       /\ answer.ext \in Range(DeclarationExts) =>
            \A f \in input.files : f.stem = answer.stem /\ f.index = answer.index =>
              f.ext \notin Range(SourceExts)
       /\ found # {} => answer \in found

-----------------------------------------------------------------------------
(* The files a name exported by file f may come from, and the names that    *)
(* pass through the edges of f: the default export passes through none.     *)
NamesOf[n \in Nat] ==
  [f \in DOMAIN input.tree |->
     IF n = 0 THEN input.tree[f].exports
     ELSE NamesOf[n - 1][f] \cup
          UNION {NamesOf[n - 1][g] \ {"default"} : g \in Range(input.tree[f].stars)}]

(* The public symbols of an entry file are those that "export *" passes on, *)
(* however the files re-export each other in cycles, and the declarations   *)
(* that are hashed include those of every file that adds a symbol, each once.*)
SurfaceComplete ==
  Is("surface") =>
    /\ answer.symbols = NamesOf[Cardinality(DOMAIN input.tree)][input.entry]
    /\ \A s \in answer.symbols : \E f \in Range(answer.roots) : s \in input.tree[f].exports
    /\ Cardinality(Range(answer.roots)) = Len(answer.roots)

-----------------------------------------------------------------------------
(* Every module that a program requires when it is run from top to bottom is*)
(* among the references of the scan, or the scan warns that the file        *)
(* requires something it cannot know, whatever names, shadowings and        *)
(* assignments lead there.                                                  *)
RequiresAreSeen ==
  Is("program") => Required(input) \subseteq answer.references \/ answer.warned
-----------------------------------------------------------------------------
(* What the run checks: the promises of the topics, one property per       *)
(* component.                                                              *)

(* Module resolution: exports maps as in Node, aliases to sources, every   *)
(* symbol that "export *" passes on is public, and the signature of a      *)
(* surface tells every change of what its users get and none of what is    *)
(* private.                                                                *)
ResolutionIsFaithful ==
  /\ ExportsLikeNode
  /\ AliasPrefersSource
  /\ SurfaceComplete
  /\ SignatureTellsChanges
  /\ PrivateChangesAreQuiet

(* The scans of a source file: whatever scopes and assignments lead there, *)
(* what a program requires, the SQL it sends and the files it opens are    *)
(* seen or said to be unknown; a text that a name is resolved to is what it*)
(* holds where nothing binds the name again inside, and a set that guards a*)
(* computed require holds what it says; of resource calls, the tables of an*)
(* SQL text are named whatever comments and literals surround them, a touch*)
(* of a file, table, queue or route is reported, and switching an adapter  *)
(* off reports nothing new.                                                *)
ScansMissNothing ==
  /\ RequiresAreSeen
  /\ TextsAreSound
  /\ SqlIsNoticed
  /\ FsCallsAreSeen
  /\ GuardsAreSound
  /\ SqlTablesAreNamed
  /\ AdaptersOnlyRemove
  /\ TouchesAreReported

(* Python: a file that hangs the inspector costs no other file its         *)
(* inspection, and what a file loads, publishes, serves and accesses is    *)
(* seen as Python itself would do it.                                      *)
PythonIsRead ==
  /\ BatchIsolates
  /\ PythonLoadsAreSeen
  /\ SurfaceTellsChanges
  /\ RoutesAreReported
  /\ ModelsAreReported
  /\ SqlScannersAgree
  /\ PythonFindsTheSame
================================================================================
