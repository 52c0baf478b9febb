------------------------------- MODULE BundledPlugins -------------------------------
(***************************************************************************)
(* The plugins that come with the program: a budget for a change           *)
(* (plugin-agent-budget), the reach of a change (plugin-blast-radius), new *)
(* dependencies on legacy and on protected cells (plugin-legacy-strangler, *)
(* plugin-dependency-sovereignty), growth against its own past             *)
(* (plugin-quants-trend) and documented entries (plugin-geo-purity), over  *)
(* the repository model that the engine hands them.                        *)
(*                                                                         *)
(* A tree is [cells, files]: a sequence of cells [id, owned] and, for each *)
(* file that is present, [source, imports], the files it imports.          *)
(***************************************************************************)
EXTENDS Cases, PathGlobs

CONSTANTS
  ChangeCases,    \* [before, after, options]
  TrendCases,     \* [history, current, multiplier, minimum]
  EntryCases      \* [items, symbols, required, limit]

-----------------------------------------------------------------------------
(* The repository model *)

(* The manifest check lets no two cells own one source file. *)
CellIdsOwning(tree, file) ==
  {tree.cells[i].id : i \in {j \in DOMAIN tree.cells : OwnedBy(file, tree.cells[j].owned)}}

(* allSourceFilesByCell *)
SourceFilesOf(tree, id) ==
  {f \in DOMAIN tree.files : tree.files[f].source /\ id \in CellIdsOwning(tree, f)}

(* What the engine observed: the cells that import from each other; an      *)
(* import of a file that does not exist leads nowhere.                      *)
CellEdges(tree) ==
  UNION {{<<k, l>> : k \in CellIdsOwning(tree, f), l \in UNION {CellIdsOwning(tree, g) :
                            g \in tree.files[f].imports \cap DOMAIN tree.files}} :
           f \in {f \in DOMAIN tree.files : tree.files[f].source}}

CrossEdges(edges) == {e \in edges : e[1] # e[2]}

ChangedBetween(before, after) ==
  {f \in DOMAIN before.files \cup DOMAIN after.files :
     \/ f \notin DOMAIN before.files \cap DOMAIN after.files
     \/ before.files[f] # after.files[f]}

(* createRepositoryModel; the baseline is that of the tree before.          *)
RepositoryModel(before, after) ==
  [tree |-> after, changed |-> ChangedBetween(before, after),
   edges |-> CrossEdges(CellEdges(after)), accepted |-> CrossEdges(CellEdges(before))]

-----------------------------------------------------------------------------
(* The plugins.  Both carry a copy of the engine's matcher. *)

BudgetMatches(file, pattern) == Matches(file, pattern)
RadiusMatches(file, pattern) == Matches(file, pattern)

Blame(rule, about) == [rule |-> rule, about |-> about]

(* cellForFile: an owned directory without a wildcard matches itself only.  *)
CellsForFile(model, file) ==
  LET indexed == {id \in {model.tree.cells[i].id : i \in DOMAIN model.tree.cells} :
                    file \in SourceFilesOf(model.tree, id)}
      matched == {i \in DOMAIN model.tree.cells :
                    \E p \in model.tree.cells[i].owned : BudgetMatches(file, p)}
  IN IF indexed # {} THEN indexed
     ELSE {model.tree.cells[i].id : i \in {i \in matched : \A j \in matched : i <= j}}

(* agent-budget/change-budget *)
ChangeBudget(model, o) ==
  {Blame("change-budget", <<>>) : x \in {y \in {o.maxFiles} : Cardinality(model.changed) > y}}
  \cup {Blame("forbidden-path", f) :
          f \in {f \in model.changed : \E p \in o.forbidden : BudgetMatches(f, p)}}
  \cup {Blame("unowned-file", f) : f \in {f \in model.changed : o.scoped /\ CellsForFile(model, f) = {}}}
  \cup {Blame("disallowed-cell", f) :
          f \in {f \in model.changed : o.scoped /\ ~(CellsForFile(model, f) \subseteq o.allowed)}}
  \cup {Blame("dependency-budget", k) :
          k \in {k \in {e[1] : e \in model.edges} :
                  Cardinality({e \in model.edges \ model.accepted : e[1] = k}) > o.maxEdges}}

(* changedCells *)
RadiusStart(model) ==
  {model.tree.cells[i].id :
     i \in {i \in DOMAIN model.tree.cells : \E f \in model.changed, p \in model.tree.cells[i].owned :
              \/ RadiusMatches(f, p)
              \/ ~HasWildcard(p) /\ RadiusMatches(f, Append(p, Globstar))}}

(* collectAffectedCells over reverseImportGraph: level by level, each cell  *)
(* once.                                                                    *)
AffectedCells(model) ==
  LET reached[n \in Nat] ==
        IF n = 0 THEN RadiusStart(model)
        ELSE reached[n - 1] \cup {e[1] : e \in {e \in model.edges : e[2] \in reached[n - 1]}}
  IN reached[Len(model.tree.cells)] \ RadiusStart(model)

(* blast-radius/affected-cells *)
BlastRadius(model, o) ==
  IF Cardinality(AffectedCells(model)) > o.maxAffected THEN AffectedCells(model) ELSE {}

(* legacy-strangler: new dependencies, and cells over their target.         *)
LegacyFindings(model, o) ==
  LET into(cells) == {e \in model.edges : e[2] \in cells}
  IN {Blame("no-new-legacy-dependency", e) : e \in into(o.legacy) \ model.accepted}
     \cup {Blame("incoming-target", k) :
             k \in {k \in o.legacy : Cardinality(into({k})) > o.maxIncoming}}

(* dependency-sovereignty/approval-required *)
SovereigntyFindings(model, o) ==
  {e \in model.edges \ model.accepted :
     /\ e[2] \in o.protected /\ e[2] \notin o.approved
     /\ o.actor \notin (IF e[2] \in DOMAIN o.owners THEN o.owners[e[2]] ELSE {})
     /\ o.changedOnly => model.changed \cap SourceFilesOf(model.tree, e[1]) # {}}

JudgeModel(model, o) ==
  [budget |-> ChangeBudget(model, o), radius |-> BlastRadius(model, o),
   legacy |-> LegacyFindings(model, o), sovereign |-> SovereigntyFindings(model, o)]

JudgeChange ==
  Asked("plugin rules") /\ \E c \in ChangeCases :
  Take(c, JudgeModel(RepositoryModel(c.before, c.after), c.options))

-----------------------------------------------------------------------------
(* quants-trend: a metric of one cell over the baselines, [date, value]; a   *)
(* baseline without the cell has value 0, one without a date comes last.    *)

Undated == 99

(* chronologicalHistory *)
Chronological(history) ==
  SetToSortSeq(DOMAIN history, LAMBDA i, j :
                 \/ history[i].date < history[j].date
                 \/ history[i].date = history[j].date /\ i < j)

Grown(from, to) == IF to > from THEN to - from ELSE 0

(* The mean is kept as a sum over the number of steps. *)
Momentum(c, order) ==
  LET value(i) == c.history[order[i]].value
      steps == Len(order) - 1
      sum == FoldLeft(LAMBDA s, i : s + Grown(value(i), value(i + 1)), 0, [i \in 1..steps |-> i])
      delta == Grown(value(Len(order)), c.current)
  IN /\ Len(order) >= 2
     /\ delta > c.minimum /\ delta * steps > sum * c.multiplier

FindMomentum == Asked("plugin trend") /\ \E c \in TrendCases : Take(c, Momentum(c, Chronological(c.history)))

-----------------------------------------------------------------------------
(* geo-purity: an entry file as the items that matter to it: comments,      *)
(* documentation comments, other code, declarations that are exported, and  *)
(* lists of exported names.  An item has [kind, form, names, lines].        *)

ReadForms == {"const", "function", "async function", "declare", "class", "interface", "type"}

(* hasImmediateJsdoc *)
Documented(items, i) == i > 1 /\ items[i - 1].kind = "doc"

(* hasJsdocForExport: of a declaration of several names it sees the first,  *)
(* and no default export, abstract class or export of another file.         *)
HasDocFor(items, symbol) ==
  \E i \in DOMAIN items :
    /\ Documented(items, i)
    /\ \/ items[i].kind = "decl" /\ items[i].form \in ReadForms /\ items[i].names[1] = symbol
       \/ items[i].kind = "list" /\ Contains(items[i].names, symbol)

EntryLines(items) == FoldLeft(LAMBDA n, item : n + item.lines, 0, items)

(* geo-purity/context-shape *)
PurityFindings(c) ==
  [undocumented |-> IF c.required THEN {s \in c.symbols : ~HasDocFor(c.items, s)} ELSE {},
   large |-> EntryLines(c.items) > c.limit]

JudgeEntry == Asked("plugin entry") /\ \E c \in EntryCases : Take(c, PurityFindings(c))

-----------------------------------------------------------------------------
(* A change that stays within its budget touches allowed cells only, by the *)
(* engine's own reading of ownership, deleted files included; and a file    *)
(* blamed as unowned is owned at most by way of a plain directory name.     *)
BudgetHolds ==
  Is("plugin rules") =>
    LET o == input.options
        changed == ChangedBetween(input.before, input.after)
    IN /\ o.scoped /\ answer.budget = {} =>
            \A f \in changed :
              LET owners == CellIdsOwning(input.after, f)
              IN owners # {} /\ (Cardinality(owners) = 1 => owners \subseteq o.allowed)
       /\ \A b \in answer.budget : b.rule = "unowned-file" =>
            \A i \in DOMAIN input.after.cells : \A p \in input.after.cells[i].owned :
              HasWildcard(p) => ~OwnedBy(b.about, {p})

(* The cells that a change is said to affect are those from which imports   *)
(* lead, over any number of cells and around cycles, to a cell that owns a  *)
(* changed file, and no other.                                              *)
RadiusIsClosure ==
  Is("plugin rules") /\ input.options.maxAffected = 0 =>
    LET start == UNION {CellIdsOwning(input.after, f) : f \in ChangedBetween(input.before, input.after)}
        all == {input.after.cells[i].id : i \in DOMAIN input.after.cells}
        edges == CellEdges(input.after)
        closed(cells) == start \subseteq cells /\ \A e \in edges : e[2] \in cells => e[1] \in cells
    IN /\ closed(start \cup answer.radius) /\ answer.radius \cap start = {}
       /\ \A cells \in SUBSET all : closed(cells) => answer.radius \subseteq cells

(* A dependency on a protected cell that the change adds without the leave  *)
(* of its owner is reported; where only changed importers count, it may go  *)
(* unseen if no importer changed, but a file came or changed hands.         *)
NewDependenciesAreAsked ==
  Is("plugin rules") =>
    LET o == input.options
        sameGround == /\ input.before.cells = input.after.cells
                      /\ DOMAIN input.after.files \subseteq DOMAIN input.before.files
        added == CrossEdges(CellEdges(input.after)) \ CrossEdges(CellEdges(input.before))
    IN /\ ~o.changedOnly \/ sameGround =>
            \A e \in added : \/ e \in answer.sovereign
                             \/ e[2] \notin o.protected \/ e[2] \in o.approved
                             \/ e[2] \in DOMAIN o.owners /\ o.actor \in o.owners[e[2]]
       /\ \A e \in added : e[2] \in o.legacy => Blame("no-new-legacy-dependency", e) \in answer.legacy

(* The order in which past baselines are given does not matter where their  *)
(* dates differ, and growth that is no more than that of every past step is *)
(* never called momentum.                                                   *)
TrendIsFair ==
  Is("plugin trend") =>
    LET h == input.history
        order == Chronological(h)
        delta == Grown(h[Last(order)].value, input.current)
    IN /\ (\A i, j \in DOMAIN h : i # j => h[i].date # h[j].date) =>
            answer = Momentum([input EXCEPT !.history = Reverse(h)], Chronological(Reverse(h)))
       /\ input.multiplier >= 1 /\ (\A i \in 1..(Len(order) - 1) :
            Grown(h[order[i]].value, h[order[i + 1]].value) >= delta) => ~answer

(* A symbol counts as documented only if a documentation comment stands     *)
(* directly in front of an export of it.                                    *)
DocsSpeakForTheirExport ==
  Is("plugin entry") /\ input.required =>
    \A s \in input.symbols \ answer.undocumented :
      \E i \in 2..Len(input.items) :
        /\ input.items[i - 1].kind = "doc" /\ input.items[i].kind \in {"decl", "list"}
        /\ Contains(input.items[i].names, s)
=============================================================================
