------------------------------- MODULE PathGlobs -------------------------------
(***************************************************************************)
(* Path patterns (glob.ts, glob-overlap.ts, file-index.ts).  The engine    *)
(* has two readings of a pattern: the matcher, which says whether a file is*)
(* matched, and the automaton, which says whether two patterns share a path*)
(* and whether one contains the other.  Ownership, claims and the ratchet  *)
(* trust that the two readings agree.                                      *)
(*                                                                         *)
(* A path is a sequence of segments, a segment a sequence of characters;   *)
(* "/" is no character of a segment.  "*" stands for any part of a segment *)
(* and the segment "**" for any number of segments.                        *)
(***************************************************************************)
EXTENDS Naturals, FiniteSets, Sequences, SequencesExt

Globstar == <<"*", "*">>
Dot == <<".">>
DotDot == <<".", ".">>

(* posix.normalize, on a relative path; what it would leave of the root of  *)
(* the repository is no segment at all.                                     *)
Normalize(segments) ==
  LET done[k \in 0..Len(segments)] ==
        IF k = 0 THEN <<>>
        ELSE LET before == done[k - 1]
                 s == segments[k]
             IN IF s \in {<<>>, Dot} THEN before
                ELSE IF s = DotDot /\ before # <<>> /\ Last(before) # DotDot THEN Front(before)
                ELSE Append(before, s)
  IN done[Len(segments)]

HasWildcard(pattern) == \E i \in DOMAIN pattern : Contains(pattern[i], "*")

(* collapseAdjacentGlobstars *)
Collapse(pattern) ==
  LET done[k \in 0..Len(pattern)] ==
        IF k = 0 THEN <<>>
        ELSE IF k > 1 /\ pattern[k] = Globstar /\ pattern[k - 1] = Globstar THEN done[k - 1]
        ELSE Append(done[k - 1], pattern[k])
  IN done[Len(pattern)]

(* What can be reached from a set by the moves of a graph, a function from  *)
(* its nodes to sets of them.  A table that is filled from its first cell   *)
(* on and a search with a queue are both this.                              *)
Reachable(moves, seed) ==
  LET grow[s \in SUBSET DOMAIN moves] ==
        LET more == UNION {moves[x] : x \in s}
        IN IF more \subseteq s THEN s ELSE grow[s \cup more]
  IN grow[seed]

-----------------------------------------------------------------------------
(* The matcher.  Both of its tables have a row for every beginning of the   *)
(* pattern and a column for every beginning of what is matched.             *)

Neighbours(c) == {<<c[1] + 1, c[2]>>, <<c[1], c[2] + 1>>, <<c[1] + 1, c[2] + 1>>}
Cells(left, right) == (0..Len(left)) \X (0..Len(right))
TableAccepts(moves, left, right) == <<Len(left), Len(right)>> \in Reachable(moves, {<<0, 0>>})

SegmentMoves(segment, name) ==
  [c \in Cells(segment, name) |->
     {d \in Neighbours(c) \cap ((1..Len(segment)) \X (0..Len(name))) :
        IF segment[d[1]] = "*" THEN d # <<c[1] + 1, c[2] + 1>>
        ELSE d = <<c[1] + 1, c[2] + 1>> /\ segment[d[1]] = name[d[2]]}]

(* compileSegmentMatcher *)
SegmentMatches(segment, name) ==
  IF Contains(segment, "*") THEN TableAccepts(SegmentMoves(segment, name), segment, name)
  ELSE segment = name

(* A last "**" consumes at least one segment; any other may consume none.   *)
PathMoves(p, n) ==
  [c \in Cells(p, n) |->
     {d \in Neighbours(c) \cap ((1..Len(p)) \X (0..Len(n))) :
        IF p[d[1]] # Globstar THEN d = <<c[1] + 1, c[2] + 1>> /\ SegmentMatches(p[d[1]], n[d[2]])
        ELSE IF d[1] = Len(p) THEN d[2] = c[2] + 1
        ELSE d # <<c[1] + 1, c[2] + 1>>}]

(* The text of the root splits into one empty segment.                      *)
Split(segments) == IF segments = <<>> THEN <<<<>>>> ELSE segments

(* buildMatcher, matchesGlobPattern *)
Matches(path, pattern) ==
  LET p == Collapse(Split(Normalize(pattern)))
      n == Split(Normalize(path))
  IN p = <<Globstar>> \/ TableAccepts(PathMoves(p, n), p, n)

(* expandOwnedPath: a plain path owns itself and everything below it. *)
Expand(owned) == IF HasWildcard(owned) THEN {owned} ELSE {owned, Append(owned, Globstar)}

(* pathOwnedByCell *)
OwnedBy(path, ownedPaths) ==
  \E o \in ownedPaths : \E e \in Expand(o) : Matches(path, e)

-----------------------------------------------------------------------------
(* The automaton of a pattern, which reads a path character by character.   *)
(* A state is named by the segment it is in and the characters of it that   *)
(* are passed; a "**" has the states 0 and 1.  The exit of a "**" that is   *)
(* not the last segment is the first state of the segment after it.         *)

(* normalizedPatternSegments: the root is written "." here. *)
PatternSegments(pattern) ==
  IF Normalize(pattern) = <<>> THEN <<Dot>> ELSE Collapse(Normalize(pattern))

Edge(from, kind, to) == [from |-> from, kind |-> kind, value |-> "", to |-> to]
Literal(from, value, to) == [from |-> from, kind |-> "literal", value |-> value, to |-> to]

SegmentSize(segment) == IF segment = Globstar THEN 1 ELSE Len(segment)

SlashInto(p, i) ==
  IF i = 1 \/ p[i - 1] = Globstar THEN {} ELSE {Literal(<<i - 1, Len(p[i - 1])>>, "/", <<i, 0>>)}

SegmentEdges(i, segment) ==
  {Literal(<<i, k - 1>>, segment[k], <<i, k>>) : k \in {l \in DOMAIN segment : segment[l] # "*"}}
  \cup UNION {{Edge(<<i, k - 1>>, "epsilon", <<i, k>>), Edge(<<i, k - 1>>, "non-slash", <<i, k - 1>>)} :
                k \in {l \in DOMAIN segment : segment[l] = "*"}}

GlobstarEdges(i, size) ==
  CASE size = 1 -> {Edge(<<i, 0>>, "epsilon", <<i, 1>>), Edge(<<i, 0>>, "any", <<i, 0>>)}
    [] size > 1 /\ i = size -> {Edge(<<i, 0>>, "any", <<i, 1>>), Edge(<<i, 1>>, "any", <<i, 1>>)}
    [] size > 1 /\ i # size -> {Edge(<<i, 0>>, "epsilon", <<i + 1, 0>>), Edge(<<i, 0>>, "non-slash", <<i, 1>>),
                   Edge(<<i, 1>>, "non-slash", <<i, 1>>), Literal(<<i, 1>>, "/", <<i, 0>>)}

(* buildPatternAutomaton *)
AutomatonOf(p) ==
  [states |-> UNION {{i} \X (0..SegmentSize(p[i])) : i \in DOMAIN p},
   accept |-> <<Len(p), SegmentSize(p[Len(p)])>>,
   edges |-> UNION {SlashInto(p, i) \cup (IF p[i] = Globstar THEN GlobstarEdges(i, Len(p)) ELSE SegmentEdges(i, p[i])) :
                      i \in DOMAIN p}]
Automaton(pattern) == AutomatonOf(PatternSegments(pattern))
InitialState == <<1, 0>>

Silent(a, state) == {e.to : e \in {x \in a.edges : x.kind = "epsilon" /\ x.from = state}}
Consuming(a, state) == {x \in a.edges : x.kind # "epsilon" /\ x.from = state}

(* transitionAccepts, transitionAcceptsSymbol *)
Reads(edge, symbol) ==
  \/ edge.kind = "any"
  \/ edge.kind = "non-slash" /\ symbol # "/"
  \/ edge.kind = "literal" /\ edge.value = symbol

(* transitionLabelsIntersect *)
EdgesMeet(left, right) ==
  IF left.kind = "literal" THEN Reads(right, left.value)
  ELSE right.kind = "literal" => Reads(left, right.value)

(* patternAutomataIntersect: some pair of states reached by one text is     *)
(* accepting on both sides.                                                 *)
PairMoves(a, b) ==
  [s \in a.states \X b.states |->
     {<<t, s[2]>> : t \in Silent(a, s[1])} \cup {<<s[1], t>> : t \in Silent(b, s[2])}
     \cup {<<e[1].to, e[2].to>> : e \in {x \in Consuming(a, s[1]) \X Consuming(b, s[2]) : EdgesMeet(x[1], x[2])}}]
AutomataMeet(a, b) == <<a.accept, b.accept>> \in Reachable(PairMoves(a, b), {<<InitialState, InitialState>>})
Intersect(p, q) == AutomataMeet(Automaton(p), Automaton(q))

(* epsilonClosure, of a set of states *)
Closure(a, states) == Reachable([s \in a.states |-> Silent(a, s)], states)

(* automataAlphabet; Other stands for every character that is not "/" and   *)
(* not in the patterns.                                                     *)
Other == "other"
Alphabet(a, b) ==
  {"/", Other} \cup {e.value : e \in {x \in a.edges \cup b.edges : x.kind = "literal"}}

(* moveOnSymbol *)
Move(a, states, symbol) ==
  Closure(a, UNION {{e.to : e \in {x \in Consuming(a, s) : Reads(x, symbol)}} : s \in states})

(* pathPatternSubset: no text leads the one automaton to acceptance and not *)
(* the other.  The third part of a node tells whether a "/" was just read.  *)
Symbols(a, b, node) == IF node[3] THEN Alphabet(a, b) \ {"/"} ELSE Alphabet(a, b)
AfterSymbol(a, b, node, c) == <<Move(a, node[1], c), Move(b, node[2], c), c = "/">>
SubsetMoves(a, b) ==
  [node \in (SUBSET a.states) \X (SUBSET b.states) \X BOOLEAN |->
     {n \in {AfterSymbol(a, b, node, c) : c \in Symbols(a, b, node)} : n[1] # {}}]
LanguageWithin(a, b) ==
  \A n \in Reachable(SubsetMoves(a, b), {<<Closure(a, {InitialState}), Closure(b, {InitialState}), TRUE>>}) :
    a.accept \in n[1] => b.accept \in n[2]
Subset(inner, outer) == LanguageWithin(Automaton(inner), Automaton(outer))

(* Mutant: two plain paths overlap only when they are the same. *)
OverlapExact(p, q) == Intersect(p, q)

(* pathPatternsOverlap: of two plain paths, one may be a directory above the*)
(* other.                                                                   *)
Overlaps(p, q) ==
  LET m == PatternSegments(p)
      n == PatternSegments(q)
  IN \/ Intersect(p, q)
     \/ /\ ~HasWildcard(m) /\ ~HasWildcard(n)
        /\ m # n /\ (IsPrefix(m, n) \/ IsPrefix(n, m))

(* expandOwnedPathPattern, ownedPathPatternsOverlap: whether a path is      *)
(* plain is asked of what normalizing leaves of it.                         *)
ExpandPattern(owned) == IF HasWildcard(Normalize(owned)) THEN {owned} ELSE {owned, Append(owned, Globstar)}
OwnedOverlap(p, q) == \E d \in ExpandPattern(p), e \in ExpandPattern(q) : Intersect(d, e)

(* patternCoveredByOwnedPaths *)
CoveredByOwned(pattern, ownedPaths) ==
  \E o \in ownedPaths : \E e \in Expand(o) : Subset(pattern, e)

(* What paths and patterns are put together from, besides the separator and *)
(* the symbol that stands for what is not mentioned; a path that is more    *)
(* than the root.                                                           *)
Letter == (STRING \cup {".", "*"}) \ {"/", Other}
IsPathText(segments) == segments \in Seq(Seq(Letter))
NamesFile(path) == IsPathText(path) /\ Normalize(path) # <<>>

(* A path as listFiles gives it: it goes down only, and names in which a "*"*)
(* stands for itself are left out.                                          *)
IsListedPath(path) ==
  /\ IsPathText(path) /\ path # <<>>
  /\ \A i \in DOMAIN path : path[i] \notin {<<>>, Dot, DotDot} /\ ~Contains(path[i], "*")

-----------------------------------------------------------------------------
(* The directories listFiles goes into *)

AlwaysIgnored == {<<"g">>}   \* .git, node_modules and the like
Generated == {<<"d">>}       \* dist, coverage, .turbo

(* shouldIgnoreDirectory, negated; "governed" are the patterns of the       *)
(* governance include set and the owned paths of all cells.                 *)
Visits(directory, governed) ==
  /\ Last(directory) \notin AlwaysIgnored
  /\ Last(directory) \in Generated =>
       \E p \in governed : \E e \in Expand(p) : Overlaps(e, Append(directory, Globstar))

(* listFiles *)
Listed(file, governed) ==
  \A k \in 1..(Len(file) - 1) : Visits(SubSeq(file, 1, k), governed)
=============================================================================
