----------------------------- MODULE ImportBoundary -----------------------------
(***************************************************************************)
(* What the engine makes of one import (index.ts: resolveImport,           *)
(* validateImports), of all imports together (graph.ts), and what it tells *)
(* an agent beforehand (context.ts).                                       *)
(*                                                                         *)
(* A world is the manifest together with the tree:                         *)
(*   owner     the cell each file inside the root belongs to, or Nowhere      *)
(*   governed, source   the governed files, those with a source extension  *)
(*   entry, open        per cell: its publicEntry and its public files     *)
(*   lane      per cell and file: the artifact lane it belongs to, or Nowhere *)
(*   consumes  per cell and producer: the lanes declared, or Undeclared    *)
(*   packages  per package name: [cell, root (found), exports: per         *)
(*             specifier [state, target]]                                  *)
(* A reference is [python, form, name, found]; "found" gives the file, or  *)
(* Nowhere, that each way of looking it up leads to.                          *)
(***************************************************************************)
EXTENDS Cases, Naturals, FiniteSets, Sequences

CONSTANTS
  ImportCases,   \* [world, importer, ref]
  GraphCases     \* [world, refs (of each cell), selected]

Nowhere == "nowhere"

(* Nowhere is no file and no cell; files and packages belong to cells of    *)
(* the manifest, which a selection takes its cells from; and a package is   *)
(* imported by its name or by a subpath of it.                              *)
ASSUME WorldsAssumption ==
  /\ \A c \in ImportCases \cup GraphCases : LET w == c.world IN
       /\ Nowhere \notin DOMAIN w.owner \cup w.governed \cup DOMAIN w.entry
       /\ \A f \in DOMAIN w.owner : w.owner[f] \in DOMAIN w.entry \cup {Nowhere}
       /\ \A p \in DOMAIN w.packages : w.packages[p].cell \in DOMAIN w.entry
  /\ \A c \in ImportCases :
       c.ref.name \in DOMAIN c.world.packages => c.ref.form \in {"relative", "url", "package", "subpath"}
  /\ \A c \in GraphCases : c.selected \subseteq DOMAIN c.world.entry

Undeclared == {"undeclared"}
Only(condition, x) == IF condition THEN {x} ELSE {}

OwnerOf(w, file) == IF file \in DOMAIN w.owner THEN w.owner[file] ELSE Nowhere
LaneOf(w, cell, file) == IF cell # Nowhere /\ file \in DOMAIN w.lane[cell] THEN w.lane[cell][file] ELSE Nowhere
Declares(w, cell, producer) == w.consumes[cell][producer] # Undeclared

-----------------------------------------------------------------------------
(* Resolution *)

Import(target, cell, lane, outside, external, public, excluded) ==
  [target |-> target, cell |-> cell, lane |-> lane, outside |-> outside,
   external |-> external, public |-> public, excluded |-> excluded]

External == Import(Nowhere, Nowhere, Nowhere, FALSE, TRUE, FALSE, FALSE)
Unresolved == Import(Nowhere, Nowhere, Nowhere, FALSE, FALSE, FALSE, FALSE)

(* resolvedRepositoryImport: a package speaks for its cell, any other route *)
(* for the owner of the file; a file outside the root has neither.          *)
Repository(w, file, cell, public, excluded) ==
  LET target == IF cell # Nowhere THEN cell ELSE OwnerOf(w, file)
      outside == file \notin DOMAIN w.owner
  IN IF outside THEN Import(file, Nowhere, Nowhere, TRUE, FALSE, public, excluded)
     ELSE Import(file, target, LaneOf(w, target, file), FALSE, FALSE, public, excluded)

Plain(w, file) == Repository(w, file, Nowhere, FALSE, FALSE)
Known(cell, public, excluded) == Import(Nowhere, cell, Nowhere, FALSE, FALSE, public, excluded)

(* resolveWorkspacePackageImport: the name of a package, or a subpath of it.*)
Workspace(w, r) ==
  LET p == w.packages[r.name]
      e == IF p.root THEN p.exports[r.form] ELSE [state |-> "rootless", target |-> Nowhere]
      excluded == e.state = "excluded"
  IN CASE e.state = "exported" /\ e.target # Nowhere -> Repository(w, e.target, p.cell, TRUE, FALSE)
       [] e.state = "exported" /\ e.target = Nowhere -> Known(p.cell, TRUE, FALSE)
       [] r.form = "package" /\ e.state \in {"excluded", "not declared"} -> Known(p.cell, FALSE, excluded)
       [] r.form = "package" /\ e.state \in {"no map", "rootless"} -> Repository(w, w.entry[p.cell], p.cell, TRUE, FALSE)
       [] r.form = "subpath" /\ p.root /\ e.state # "exported" -> Repository(w, r.found.subpath, p.cell, FALSE, excluded)
       [] OTHER -> Known(p.cell, FALSE, excluded)

(* resolveImport: the routes in the order in which they are tried. *)
ResolveImport(w, r) ==
  LET found(way) == r.found[way] # Nowhere
  IN IF r.python /\ found("python") THEN Plain(w, r.found.python)
     ELSE IF r.python /\ r.form = "relative" THEN Unresolved
     ELSE IF r.form \in {"relative", "url"} THEN IF found("path") THEN Plain(w, r.found.path) ELSE Unresolved
     ELSE IF found("imports") THEN Plain(w, r.found.imports)
     ELSE IF r.name \in DOMAIN w.packages THEN Workspace(w, r)
     ELSE IF found("alias") THEN Plain(w, r.found.alias)
     ELSE External

-----------------------------------------------------------------------------
(* Judgement *)

(* importTargetsPrivateImplementation *)
TargetsPrivate(w, i) ==
  i.excluded \/ (~i.public /\ i.target \notin {w.entry[i.cell]} \cup w.open[i.cell])

Crosses(importer, i) == ~i.external /\ i.cell \notin {Nowhere, importer}

(* evaluateImportPolicyFact and the rest of validateImports, on an import   *)
(* that crosses a boundary: artifacts other than source are judged by their *)
(* lane only.                                                               *)
Judge(w, importer, i) ==
  LET lanes == w.consumes[importer][i.cell]
  IN Only(~Declares(w, importer, i.cell), "UNDECLARED_CONSUMER") \cup
     Only(TargetsPrivate(w, i) /\ (i.lane = Nowhere \/ i.target \in w.source), "PRIVATE_IMPORT") \cup
     Only(i.lane \notin {Nowhere} \cup lanes, "UNDECLARED_ARTIFACT")

(* Mutant: only a path is asked whether it leads out of the root. *)
ImportFindingsOfPaths(w, importer, r) ==
  LET i == ResolveImport(w, r) IN
  IF i.outside THEN Only(r.form = "relative", "IMPORT_TARGET_OUTSIDE_ROOT")
  ELSE Only(i.target = Nowhere /\ ~i.external /\ r.form = "relative", "UNRESOLVED_IMPORT") \cup
       Only(i.target \in w.governed /\ i.cell = Nowhere, "UNOWNED_IMPORT_TARGET") \cup
       (IF Crosses(importer, i) THEN Judge(w, importer, i) ELSE {})

(* validateImports, the findings on one reference *)
ImportFindings(w, importer, r) ==
  LET i == ResolveImport(w, r) IN
  IF i.outside THEN {"IMPORT_TARGET_OUTSIDE_ROOT"}
  ELSE Only(i.target = Nowhere /\ ~i.external /\ r.form = "relative", "UNRESOLVED_IMPORT") \cup
       Only(i.target \in w.governed /\ i.cell = Nowhere, "UNOWNED_IMPORT_TARGET") \cup
       (IF Crosses(importer, i) THEN Judge(w, importer, i) ELSE {})

DecideImport ==
  Asked("import") /\ \E c \in ImportCases :
  Take(c, [import |-> ResolveImport(c.world, c.ref),
           findings |-> ImportFindings(c.world, c.importer, c.ref)])

-----------------------------------------------------------------------------
(* Graph, allocation and context *)

CellsOfWorld(w) == DOMAIN w.entry

(* createCouplingGraph: the edges between cells. *)
DeclaredEdges(w) == {e \in CellsOfWorld(w) \X CellsOfWorld(w) : Declares(w, e[1], e[2])}
GoesIntoGraph(w, cell, i) ==
  Crosses(cell, i) /\ ~(i.outside \/ (i.target \in w.governed /\ i.cell = Nowhere))
ObservedEdges(w, refs) ==
  UNION {{<<c, ResolveImport(w, r).cell>> : r \in {s \in refs[c] : GoesIntoGraph(w, c, ResolveImport(w, s))}} :
           c \in CellsOfWorld(w)}

(* createAutoAllocation: the cells whose public entries the agent is given. *)
ContextCells(w, refs, selected) ==
  selected \cup {d \in CellsOfWorld(w) :
                   \E c \in selected : <<c, d>> \in DeclaredEdges(w) \cup ObservedEdges(w, refs)}

(* createCellContext, allowedImports: the producers and lanes. *)
AllowedImports(w, cell) ==
  {[cell |-> d, file |-> w.entry[d], lanes |-> w.consumes[cell][d]] :
     d \in {e \in CellsOfWorld(w) : Declares(w, cell, e)}}

AllocateContext ==
  Asked("graph") /\ \E c \in GraphCases :
  Take(c, [observed |-> ObservedEdges(c.world, c.refs),
           context |-> ContextCells(c.world, c.refs, c.selected),
           allowed |-> [cell \in c.selected |-> AllowedImports(c.world, cell)]])

-----------------------------------------------------------------------------
(* The findings on a plain relative import of that file. *)
Lookups == {"python", "path", "imports", "alias", "subpath"}
RelativeTo(file) ==
  [python |-> FALSE, form |-> "relative", name |-> Nowhere,
   found |-> [way \in Lookups |-> IF way = "path" THEN file ELSE Nowhere]]
ByPath(file) == ImportFindings(input.world, input.importer, RelativeTo(file))

(* It makes no difference by which route a file is imported: a path, an     *)
(* alias, an imports map, a Python module or a package name draw the same   *)
(* findings, save that a package may export a file, and make it public, or  *)
(* exclude it, and make it private.  Said of packages whose files belong to *)
(* the cell of the package.                                                 *)
RouteDoesNotMatter ==
  LET i == answer.import
      differ == (answer.findings \ ByPath(i.target)) \cup (ByPath(i.target) \ answer.findings)
  IN Is("import") /\ i.target # Nowhere /\ (i.cell \in {Nowhere, OwnerOf(input.world, i.target)}) =>
       differ \subseteq Only(i.public \/ i.excluded, "PRIVATE_IMPORT")

(* A file of another cell is imported without a finding only if its owner   *)
(* is a declared producer of the importer and the file is open, exported by *)
(* the owner's package, or, if it is no source, in a declared lane.         *)
QuietMeansAllowed ==
  LET w == input.world
      file == answer.import.target
      owner == OwnerOf(w, file)
      exported == \E p \in DOMAIN w.packages, f \in {"package", "subpath"} :
        w.packages[p].cell = owner /\ w.packages[p].exports[f].state = "exported" /\ w.packages[p].exports[f].target = file
  IN Is("import") /\ answer.findings = {} /\ file \in w.governed /\ owner # input.importer
       /\ answer.import.cell \in {Nowhere, owner} =>
       /\ owner # Nowhere
       /\ Declares(w, input.importer, owner)
       /\ \/ file \in {w.entry[owner]} \cup w.open[owner] \/ exported
          \/ file \notin w.source /\ LaneOf(w, owner, file) \in w.consumes[input.importer][owner]

(* An agent is told of every cell its code may import from: in a repository *)
(* without findings on imports the observed edges are declared ones, and    *)
(* the allocation for a cell holds every producer that it may start to use. *)
AllocationIsEnough ==
  LET w == input.world
      clean == \A c \in CellsOfWorld(w) : \A r \in input.refs[c] : ImportFindings(w, c, r) = {}
  IN Is("graph") =>
       /\ clean => answer.observed \subseteq DeclaredEdges(w)
       /\ \A c \in input.selected : \A a \in answer.allowed[c] : a.cell \in answer.context

(* What the context of a cell lists as an allowed import draws no finding,  *)
(* unless the public entry itself lies outside its cell, or in a lane that  *)
(* is not declared.                                                         *)
ContextIsHonest ==
  Is("graph") =>
    \A c \in input.selected : \A a \in answer.allowed[c] :
      OwnerOf(input.world, a.file) = a.cell /\ LaneOf(input.world, a.cell, a.file) \in {Nowhere} \cup a.lanes =>
        ImportFindings(input.world, c, RelativeTo(a.file)) = {}
=============================================================================
