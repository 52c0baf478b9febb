----------------------------- MODULE ChecksLemmas ------------------------------
(***************************************************************************)
(* What the proofs about the checks (ChecksProofs) rest on, said of the    *)
(* operators alone: counting and recursion, path patterns and the automata *)
(* made of them, the walk over the tree, the tools and the command line of *)
(* the proxy, accepted manifests and the baselines made of them, the       *)
(* module that records accesses, spans, severities and observations, and   *)
(* labels with the claim made of them.                                     *)
(***************************************************************************)
EXTENDS PathGlobs, ClaimCommands, ProxyArgs, TraceEvidence, EvidenceRecords, PrecisionClaims,
        FiniteSetTheorems, SequenceTheorems, WellFoundedInduction, TLAPS

-----------------------------------------------------------------------------
(* Counting                                                                *)

(* A nonempty set of naturals has a least member.                          *)
LEMMA LeastNumber ==
  ASSUME NEW S \in SUBSET Nat, S # {}
  PROVE  \E i \in S : \A j \in S : i <= j
<1>1. PICK i \in S : \A j \in S : ~(<<j, i>> \in OpToRel(<, Nat))
  BY NatLessThanWellFounded, WFMin
<1>2. ASSUME NEW j \in S PROVE i <= j
  <2>1. ASSUME ~(i <= j) PROVE FALSE
    <3>1. j < i /\ <<j, i>> \in Nat \X Nat
      BY <2>1
    <3>2. <<j, i>> \in OpToRel(<, Nat)
      BY <3>1 DEF OpToRel
    <3> QED BY <1>1, <3>2
  <2> QED BY <2>1
<1> QED BY <1>2

(* Whoever stands on step a and can always take the next one up to b gets  *)
(* to b, and through every step on the way.                                *)
LEMMA Climb ==
  ASSUME NEW a \in Nat, NEW b \in Nat, NEW S, a \in S,
         \A k \in a..b : k \in S /\ k < b => k + 1 \in S
  PROVE  \A k \in a..b : k \in S
<1> DEFINE missed == {k \in a..b : k \notin S}
<1> SUFFICES ASSUME missed # {} PROVE FALSE
  OBVIOUS
<1>1. PICK k \in missed : \A j \in missed : k <= j
  <2>1. missed \in SUBSET Nat
    OBVIOUS
  <2> QED BY <2>1, LeastNumber
<1>2. k > a /\ k - 1 \in a..b /\ k - 1 < b
  BY <1>1
<1>3. k - 1 \in S
  BY <1>1, <1>2
<1>4. (k - 1) + 1 \in S
  BY <1>2, <1>3
<1>5. (k - 1) + 1 = k
  BY <1>2
<1> QED BY <1>1, <1>4, <1>5

(* An image that tells the members of a finite set apart has as many.      *)
LEMMA ImageCount ==
  ASSUME NEW S, IsFiniteSet(S), NEW f, \A x, y \in S : f[x] = f[y] => x = y
  PROVE  IsFiniteSet({f[x] : x \in S}) /\ Cardinality({f[x] : x \in S}) = Cardinality(S)
<1> DEFINE T == {f[x] : x \in S}
           g == [x \in S |-> f[x]]
<1>1. g \in [S -> T]
  OBVIOUS
<1>2. \A x, y \in S : g[x] = g[y] => x = y
  OBVIOUS
<1>3. \A t \in T : \E x \in S : g[x] = t
  OBVIOUS
<1> HIDE DEF g, T
<1>4. g \in Bijection(S, T)
  BY <1>1, <1>2, <1>3 DEF Bijection, Injection, IsInjective, Surjection
<1>5. IsFiniteSet(T) /\ Cardinality(T) = Cardinality(S)
  BY <1>4, FS_Bijection DEF ExistsBijection
<1> QED BY <1>5 DEF T

-----------------------------------------------------------------------------
(* Reachability: what Reachable computes is the least set that holds the   *)
(* seed and is closed under the moves.                                     *)

MovedFrom(moves, s) == UNION {moves[x] : x \in s}
IsClosed(moves, c) == c \in SUBSET DOMAIN moves /\ MovedFrom(moves, c) \subseteq c
HullOf(moves, s) == {x \in DOMAIN moves : \A c : IsClosed(moves, c) /\ s \subseteq c => x \in c}
IsGraph(moves) ==
  /\ IsFiniteSet(DOMAIN moves)
  /\ \A x \in DOMAIN moves : moves[x] \subseteq DOMAIN moves

GrownFrom(moves) ==
  CHOOSE grow : grow = [s \in SUBSET DOMAIN moves |->
    LET more == UNION {moves[x] : x \in s}
    IN IF more \subseteq s THEN s ELSE grow[s \cup more]]

LEMMA HullFacts ==
  ASSUME NEW moves, IsGraph(moves), NEW s \in SUBSET DOMAIN moves
  PROVE  /\ IsClosed(moves, HullOf(moves, s))
         /\ s \subseteq HullOf(moves, s)
         /\ \A c : IsClosed(moves, c) /\ s \subseteq c => HullOf(moves, s) \subseteq c
         /\ IsClosed(moves, s) => HullOf(moves, s) = s
         /\ s \cup MovedFrom(moves, s) \in SUBSET DOMAIN moves
         /\ HullOf(moves, s \cup MovedFrom(moves, s)) = HullOf(moves, s)
<1>1. s \cup MovedFrom(moves, s) \in SUBSET DOMAIN moves
  BY DEF IsGraph, MovedFrom
<1>2. s \subseteq HullOf(moves, s)
  BY DEF HullOf
<1>3. \A c : IsClosed(moves, c) /\ s \subseteq c => HullOf(moves, s) \subseteq c
  BY DEF HullOf
<1>4. IsClosed(moves, HullOf(moves, s))
  <2>1. ASSUME NEW x \in HullOf(moves, s), NEW y \in moves[x] PROVE y \in HullOf(moves, s)
    <3>1. x \in DOMAIN moves /\ y \in DOMAIN moves
      BY <2>1 DEF HullOf, IsGraph
    <3>2. ASSUME NEW c, IsClosed(moves, c), s \subseteq c PROVE y \in c
      BY <1>3, <2>1, <3>2 DEF IsClosed, MovedFrom
    <3> QED BY <3>1, <3>2 DEF HullOf
  <2>2. MovedFrom(moves, HullOf(moves, s)) \subseteq HullOf(moves, s)
    BY <2>1 DEF MovedFrom
  <2> QED BY <2>2 DEF IsClosed, HullOf
<1>5. IsClosed(moves, s) => HullOf(moves, s) = s
  BY <1>2, <1>3
<1>6. ASSUME NEW c, IsClosed(moves, c) PROVE s \subseteq c <=> s \cup MovedFrom(moves, s) \subseteq c
  BY <1>6 DEF IsClosed, MovedFrom
<1>7. HullOf(moves, s \cup MovedFrom(moves, s)) = HullOf(moves, s)
  BY <1>6 DEF HullOf
<1> QED BY <1>1, <1>2, <1>3, <1>4, <1>5, <1>7

(* The equation that defines the growth has a solution: the hull.          *)
LEMMA GrowthIsDefined ==
  ASSUME NEW moves, IsGraph(moves)
  PROVE  GrownFrom(moves) = [s \in SUBSET DOMAIN moves |->
           IF MovedFrom(moves, s) \subseteq s THEN s ELSE GrownFrom(moves)[s \cup MovedFrom(moves, s)]]
<1> DEFINE h == [s \in SUBSET DOMAIN moves |-> HullOf(moves, s)]
           Solves(g) == g = [s \in SUBSET DOMAIN moves |->
                               IF MovedFrom(moves, s) \subseteq s THEN s ELSE g[s \cup MovedFrom(moves, s)]]
<1>1. ASSUME NEW s \in SUBSET DOMAIN moves
      PROVE  h[s] = IF MovedFrom(moves, s) \subseteq s THEN s ELSE h[s \cup MovedFrom(moves, s)]
  BY HullFacts DEF IsClosed
<1>2. Solves(h)
  BY <1>1
<1>3. GrownFrom(moves) = CHOOSE g : Solves(g)
  BY DEF GrownFrom, MovedFrom
<1> HIDE DEF h
<1>4. Solves(CHOOSE g : Solves(g))
  BY <1>2
<1> HIDE DEF Solves
<1>5. Solves(GrownFrom(moves))
  BY <1>3, <1>4
<1> QED BY <1>5 DEF Solves

LEMMA GrowthIsHull ==
  ASSUME NEW moves, IsGraph(moves), NEW seed \in SUBSET DOMAIN moves
  PROVE  GrownFrom(moves)[seed] = HullOf(moves, seed)
<1> DEFINE U == DOMAIN moves
           odd == {s \in SUBSET U : GrownFrom(moves)[s] # HullOf(moves, s)}
           left(s) == Cardinality(U \ s)
           sizes == {left(s) : s \in odd}
<1>0. IsFiniteSet(U)
  BY DEF IsGraph
<1>1. ASSUME NEW s \in SUBSET U PROVE IsFiniteSet(U \ s) /\ left(s) \in Nat
  BY <1>0, FS_Subset, FS_CardinalityType
<1>2. sizes \in SUBSET Nat
  BY <1>1
<1>3. ASSUME odd # {} PROVE FALSE
  <2>1. PICK s \in odd : \A t \in odd : left(s) <= left(t)
    <3>1. sizes # {}
      BY <1>3
    <3>2. PICK i \in sizes : \A j \in sizes : i <= j
      <4> HIDE DEF sizes
      <4> QED BY <1>2, <3>1, LeastNumber
    <3> QED BY <3>2
  <2> DEFINE t == s \cup MovedFrom(moves, s)
  <2>2. t \in SUBSET U /\ HullOf(moves, t) = HullOf(moves, s)
    BY HullFacts
  <2>3. GrownFrom(moves)[s] = IF MovedFrom(moves, s) \subseteq s THEN s ELSE GrownFrom(moves)[t]
    <3> DEFINE grown == GrownFrom(moves)
               step(x) == IF MovedFrom(moves, x) \subseteq x THEN x ELSE grown[x \cup MovedFrom(moves, x)]
    <3>1. grown = [x \in SUBSET DOMAIN moves |-> step(x)]
      BY GrowthIsDefined
    <3> HIDE DEF grown, step
    <3>2. grown[s] = step(s)
      BY <3>1
    <3> QED BY <3>2 DEF grown, step
  <2>4. ~(MovedFrom(moves, s) \subseteq s)
    BY <2>1, <2>3, HullFacts DEF IsClosed
  <2>5. t \in odd
    BY <2>1, <2>2, <2>3, <2>4
  <2>6. U \ t \in SUBSET (U \ s) /\ U \ t # U \ s
    BY <2>2, <2>4
  <2>7. left(t) <= left(s) /\ left(t) # left(s)
    BY <1>1, <2>6, FS_Subset
  <2>8. left(s) \in Nat /\ left(t) \in Nat /\ left(s) <= left(t)
    BY <1>1, <2>1, <2>2, <2>5
  <2> HIDE DEF left
  <2> QED BY <2>7, <2>8
<1> QED BY <1>3

LEMMA ReachableIsHull ==
  ASSUME NEW moves, IsGraph(moves), NEW seed \in SUBSET DOMAIN moves
  PROVE  Reachable(moves, seed) = HullOf(moves, seed)
<1>1. Reachable(moves, seed) = GrownFrom(moves)[seed]
  BY DEF Reachable, GrownFrom
<1> QED BY <1>1, GrowthIsHull

LEMMA ReachableFacts ==
  ASSUME NEW moves, IsGraph(moves), NEW seed \in SUBSET DOMAIN moves
  PROVE  /\ Reachable(moves, seed) \subseteq DOMAIN moves
         /\ seed \subseteq Reachable(moves, seed)
         /\ \A x \in Reachable(moves, seed) : moves[x] \subseteq Reachable(moves, seed)
         /\ \A c \in SUBSET DOMAIN moves :
              seed \subseteq c /\ (\A x \in c : moves[x] \subseteq c) => Reachable(moves, seed) \subseteq c
<1>1. Reachable(moves, seed) = HullOf(moves, seed)
  BY ReachableIsHull
<1>2. \A c \in SUBSET DOMAIN moves : IsClosed(moves, c) <=> \A x \in c : moves[x] \subseteq c
  BY DEF IsClosed, MovedFrom
<1>3. \A x \in HullOf(moves, seed) : moves[x] \subseteq HullOf(moves, seed)
  <2>1. IsClosed(moves, HullOf(moves, seed))
    BY HullFacts
  <2>2. MovedFrom(moves, HullOf(moves, seed)) \subseteq HullOf(moves, seed)
    BY <2>1 DEF IsClosed
  <2> QED BY <2>2 DEF MovedFrom
<1>4. HullOf(moves, seed) \subseteq DOMAIN moves /\ seed \subseteq HullOf(moves, seed)
  BY HullFacts DEF HullOf
<1>5. ASSUME NEW c \in SUBSET DOMAIN moves, seed \subseteq c, \A x \in c : moves[x] \subseteq c
      PROVE  HullOf(moves, seed) \subseteq c
  BY <1>2, <1>5, HullFacts
<1> QED BY <1>1, <1>3, <1>4, <1>5

-----------------------------------------------------------------------------
(* Recursion over the segments of a pattern                                *)

(* A function on 0..n that starts with base and goes on by step.           *)
GoesOn(g, n, V, base, step) ==
  g \in [0..n -> V] /\ g[0] = base /\ \A k \in 1..n : g[k] = step[<<k, g[k - 1]>>]

LEMMA Recursion ==
  ASSUME NEW n \in Nat, NEW V, NEW base \in V, NEW step, \A k \in 1..n : \A v \in V : step[<<k, v>>] \in V
  PROVE  \E g : GoesOn(g, n, V, base, step)
<1> DEFINE Upto(m, g) == g \in [0..m -> V] /\ g[0] = base /\ \A k \in 1..m : g[k] = step[<<k, g[k - 1]>>]
           S == {m \in 0..n : \E g : Upto(m, g)}
<1>1. 0 \in S
  <2>1. Upto(0, [k \in 0..0 |-> base])
    OBVIOUS
  <2>2. 0 \in 0..n
    OBVIOUS
  <2> HIDE DEF Upto
  <2> QED BY <2>1, <2>2
<1>2. ASSUME NEW m \in 0..n, m \in S, m < n PROVE m + 1 \in S
  <2>1. PICK g : Upto(m, g)
    BY <1>2
  <2> DEFINE h == [k \in 0..(m + 1) |-> IF k <= m THEN g[k] ELSE step[<<m + 1, g[m]>>]]
  <2>2. g[m] \in V /\ m + 1 \in 1..n
    BY <1>2, <2>1
  <2>3. step[<<m + 1, g[m]>>] \in V
    BY <2>2
  <2>4. h \in [0..(m + 1) -> V] /\ h[0] = base
    BY <2>1, <2>3
  <2>5. ASSUME NEW k \in 1..(m + 1) PROVE h[k] = step[<<k, h[k - 1]>>]
    <3>1. CASE k <= m
      BY <2>1, <3>1
    <3>2. CASE ~(k <= m)
      <4>1. k = m + 1 /\ k - 1 = m /\ m \in 0..(m + 1) /\ m <= m
        BY <3>2
      <4> QED BY <4>1
    <3> QED BY <3>1, <3>2
  <2>6. Upto(m + 1, h)
    BY <2>4, <2>5
  <2>7. m + 1 \in 0..n
    BY <2>2
  <2> HIDE DEF Upto, h
  <2> QED BY <2>6, <2>7
<1>3. n \in S
  <2> HIDE DEF S
  <2> QED BY <1>1, <1>2, Climb
<1> QED BY <1>3 DEF GoesOn

(* A sequence grows and shrinks at its end.                                *)
LEMMA EndFacts ==
  ASSUME NEW A, NEW s \in Seq(A)
  PROVE  /\ \A x \in A : /\ Append(s, x) \in Seq(A) /\ Len(Append(s, x)) = Len(s) + 1
                         /\ Append(s, x)[Len(s) + 1] = x
                         /\ \A i \in 1..Len(s) : Append(s, x)[i] = s[i]
         /\ s # <<>> => /\ Front(s) \in Seq(A) /\ Len(s) \in Nat \ {0} /\ s[Len(s)] \in A /\ Last(s) = s[Len(s)]
<1>1. ASSUME s # <<>> PROVE Front(s) \in Seq(A) /\ Len(s) \in Nat \ {0}
  <2>1. Len(s) \in Nat \ {0}
    BY <1>1, EmptySeq, LenProperties
  <2> QED BY <2>1, SubSeqProperties DEF Front
<1>2. s # <<>> => s[Len(s)] \in A
  BY <1>1, ElementOfSeq
<1> QED BY <1>1, <1>2, AppendProperties DEF Last

NormalizeStep(s, k, before) ==
  IF s[k] \in {<<>>, Dot} THEN before
  ELSE IF s[k] = DotDot /\ before # <<>> /\ Last(before) # DotDot THEN Front(before)
  ELSE Append(before, s[k])
Normalizing(s, done) ==
  /\ Normalize(s) = done[Len(s)] /\ done[0] = <<>>
  /\ \A k \in 1..Len(s) : done[k] = NormalizeStep(s, k, done[k - 1])
(* What the segments of a path leave: themselves, but for the empty ones and*)
(* the ".".                                                                 *)
Left(s) == {s[i] : i \in 1..Len(s)} \ {<<>>, Dot}

LEMMA NormalizeSteps ==
  ASSUME NEW A, NEW s \in Seq(A)
  PROVE  \E done : Normalizing(s, done) /\ \A k \in 0..Len(s) : done[k] \in Seq(Left(s))
<1> DEFINE V == Seq(Left(s))
           step == [x \in (1..Len(s)) \X V |-> NormalizeStep(s, x[1], x[2])]
           Solves(g) == g = [k \in 0..Len(s) |-> IF k = 0 THEN <<>> ELSE NormalizeStep(s, k, g[k - 1])]
           done == CHOOSE g : Solves(g)
<1>1. Len(s) \in Nat /\ <<>> \in V
  BY EmptySeq
<1>2. ASSUME NEW k \in 1..Len(s), NEW before \in V PROVE NormalizeStep(s, k, before) \in V
  <2>1. before # <<>> => Front(before) \in V
    BY EndFacts
  <2>2. s[k] \notin {<<>>, Dot} => s[k] \in Left(s)
    BY DEF Left
  <2>3. s[k] \notin {<<>>, Dot} => Append(before, s[k]) \in V
    BY <2>2, EndFacts
  <2> HIDE DEF V
  <2> QED BY <2>1, <2>3 DEF NormalizeStep
<1>3. \A k \in 1..Len(s) : \A v \in V : step[<<k, v>>] \in V
  <2> HIDE DEF V
  <2> QED BY <1>2
<1>4. PICK g : GoesOn(g, Len(s), V, <<>>, step)
  <2> HIDE DEF V, step
  <2> QED BY <1>1, <1>3, Recursion
<1>5. g \in [0..Len(s) -> V]
  BY <1>4 DEF GoesOn
<1>6. Solves(g)
  <2>1. ASSUME NEW k \in 1..Len(s) PROVE g[k] = NormalizeStep(s, k, g[k - 1])
    <3>1. g[k - 1] \in V
      BY <1>1, <1>4 DEF GoesOn
    <3> HIDE DEF V
    <3> QED BY <1>4, <3>1 DEF GoesOn
  <2> HIDE DEF V
  <2> QED BY <1>1, <1>4, <2>1 DEF GoesOn
<1>7. Solves(done)
  <2> HIDE DEF Solves
  <2> QED BY <1>6
<1>8. Normalize(s) = done[Len(s)]
  BY DEF Normalize, NormalizeStep
<1> HIDE DEF done
<1>9. done[0] = <<>> /\ \A k \in 1..Len(s) : done[k] = NormalizeStep(s, k, done[k - 1])
  BY <1>1, <1>7
<1>10. \A k \in 0..Len(s) : done[k] \in V
  <2> DEFINE S == {k \in 0..Len(s) : done[k] \in V}
  <2>1. 0 \in S
    <3>1. 0 \in 0..Len(s) /\ done[0] \in V
      BY <1>1, <1>9
    <3> HIDE DEF V
    <3> QED BY <3>1
  <2>2. ASSUME NEW k \in 0..Len(s), k \in S, k < Len(s) PROVE k + 1 \in S
    <3>1. k + 1 \in 1..Len(s) /\ (k + 1) - 1 = k /\ k + 1 \in 0..Len(s)
      BY <1>1, <2>2
    <3>2. done[k + 1] = NormalizeStep(s, k + 1, done[k])
      BY <1>9, <3>1
    <3> HIDE DEF V
    <3> QED BY <1>2, <2>2, <3>1, <3>2
  <2>3. \A k \in 0..Len(s) : k \in S
    <3> HIDE DEF S
    <3> QED BY <1>1, <2>1, <2>2, Climb
  <2> QED BY <2>3
<1> QED BY <1>8, <1>9, <1>10 DEF Normalizing

(* What is left of a path is made of its own segments, none of them empty  *)
(* or ".".                                                                 *)
LEMMA NormalizeType ==
  ASSUME NEW A, NEW s \in Seq(A)
  PROVE  Normalize(s) \in Seq({s[i] : i \in 1..Len(s)} \ {<<>>, Dot})
<1>1. PICK done : Normalizing(s, done) /\ \A k \in 0..Len(s) : done[k] \in Seq(Left(s))
  BY NormalizeSteps
<1>2. Len(s) \in 0..Len(s)
  OBVIOUS
<1> QED BY <1>1, <1>2 DEF Normalizing, Left

(* A path is put together again from its beginnings.                       *)
LEMMA Beginnings ==
  ASSUME NEW A, NEW s \in Seq(A), NEW done, done[0] = <<>>,
         \A k \in 1..Len(s) : done[k] = Append(done[k - 1], s[k])
  PROVE  done[Len(s)] = s
<1> DEFINE fits(k) == done[k] \in Seq(A) /\ Len(done[k]) = k /\ \A i \in 1..k : done[k][i] = s[i]
           S == {k \in 0..Len(s) : fits(k)}
<1>1. Len(s) \in Nat
  OBVIOUS
<1>2. 0 \in S
  <2>1. <<>> \in Seq(A) /\ Len(<<>>) = 0
    OBVIOUS
  <2>2. done[0] \in Seq(A) /\ Len(done[0]) = 0
    BY <2>1
  <2>3. fits(0)
    BY <2>2
  <2>4. 0 \in 0..Len(s)
    BY <1>1
  <2> HIDE DEF fits
  <2> QED BY <2>3, <2>4
<1>3. ASSUME NEW k \in 0..Len(s), k \in S, k < Len(s) PROVE k + 1 \in S
  <2>1. k + 1 \in 1..Len(s) /\ (k + 1) - 1 = k /\ k + 1 \in 0..Len(s)
    BY <1>1, <1>3
  <2>2. done[k + 1] = Append(done[k], s[k + 1]) /\ s[k + 1] \in A /\ fits(k)
    BY <1>3, <2>1, ElementOfSeq
  <2>3. /\ Append(done[k], s[k + 1]) \in Seq(A) /\ Len(Append(done[k], s[k + 1])) = k + 1
        /\ Append(done[k], s[k + 1])[k + 1] = s[k + 1]
        /\ \A i \in 1..k : Append(done[k], s[k + 1])[i] = done[k][i]
    BY <2>2, EndFacts
  <2>4. ASSUME NEW i \in 1..(k + 1) PROVE done[k + 1][i] = s[i]
    <3>1. CASE i \in 1..k
      BY <2>2, <2>3, <3>1
    <3>2. CASE i = k + 1
      BY <2>2, <2>3, <3>2
    <3> QED BY <2>1, <3>1, <3>2
  <2> QED BY <2>1, <2>2, <2>3, <2>4
<1>4. \A k \in 0..Len(s) : k \in S
  <2> HIDE DEF S
  <2> QED BY <1>1, <1>2, <1>3, Climb
<1>5. fits(Len(s))
  <2>1. Len(s) \in 0..Len(s)
    BY <1>1
  <2> HIDE DEF fits
  <2> QED BY <1>4, <2>1
<1> QED BY <1>5, SeqEqual

(* A path that goes nowhere but down is left as it is.                     *)
LEMMA NormalizeKeeps ==
  ASSUME NEW A, NEW s \in Seq(A), \A i \in 1..Len(s) : s[i] \notin {<<>>, Dot, DotDot}
  PROVE  Normalize(s) = s
<1>1. PICK done : Normalizing(s, done)
  BY NormalizeSteps
<1>2. \A k \in 1..Len(s) : done[k] = Append(done[k - 1], s[k])
  BY <1>1 DEF Normalizing, NormalizeStep
<1> QED BY <1>1, <1>2, Beginnings DEF Normalizing

NoTwoGlobstars(p) == \A i \in 1..Len(p) : i > 1 => ~(p[i] = Globstar /\ p[i - 1] = Globstar)

CollapseStep(s, k, before) ==
  IF k > 1 /\ s[k] = Globstar /\ s[k - 1] = Globstar THEN before ELSE Append(before, s[k])
Collapsing(s, done) ==
  /\ Collapse(s) = done[Len(s)] /\ done[0] = <<>>
  /\ \A k \in 1..Len(s) : done[k] = CollapseStep(s, k, done[k - 1])

LEMMA CollapseSteps ==
  ASSUME NEW A, NEW s \in Seq(A)
  PROVE  \E done : Collapsing(s, done)
<1> DEFINE V == Seq(A)
           step == [x \in (1..Len(s)) \X V |-> CollapseStep(s, x[1], x[2])]
           Solves(g) == g = [k \in 0..Len(s) |-> IF k = 0 THEN <<>> ELSE CollapseStep(s, k, g[k - 1])]
           done == CHOOSE g : Solves(g)
<1>1. Len(s) \in Nat /\ <<>> \in V
  BY EmptySeq
<1>2. ASSUME NEW k \in 1..Len(s), NEW before \in V PROVE CollapseStep(s, k, before) \in V
  BY EndFacts, ElementOfSeq DEF CollapseStep
<1>3. \A k \in 1..Len(s) : \A v \in V : step[<<k, v>>] \in V
  <2> HIDE DEF V
  <2> QED BY <1>2
<1>4. PICK g : GoesOn(g, Len(s), V, <<>>, step)
  <2> HIDE DEF V, step
  <2> QED BY <1>1, <1>3, Recursion
<1>5. Solves(g)
  <2>1. ASSUME NEW k \in 1..Len(s) PROVE g[k] = CollapseStep(s, k, g[k - 1])
    <3>1. g[k - 1] \in V
      BY <1>1, <1>4 DEF GoesOn
    <3> HIDE DEF V
    <3> QED BY <1>4, <3>1 DEF GoesOn
  <2> HIDE DEF V
  <2> QED BY <1>1, <1>4, <2>1 DEF GoesOn
<1>6. Solves(done)
  <2> HIDE DEF Solves
  <2> QED BY <1>5
<1>7. Collapse(s) = done[Len(s)]
  BY DEF Collapse, CollapseStep
<1> HIDE DEF done
<1>8. done[0] = <<>> /\ \A k \in 1..Len(s) : done[k] = CollapseStep(s, k, done[k - 1])
  BY <1>1, <1>6
<1> QED BY <1>7, <1>8 DEF Collapsing

(* A pattern without two "**" side by side is left as it is.               *)
LEMMA CollapseKeeps ==
  ASSUME NEW A, NEW s \in Seq(A), NoTwoGlobstars(s)
  PROVE  Collapse(s) = s
<1>1. PICK done : Collapsing(s, done)
  BY CollapseSteps
<1>2. \A k \in 1..Len(s) : done[k] = Append(done[k - 1], s[k])
  BY <1>1 DEF Collapsing, CollapseStep, NoTwoGlobstars
<1> QED BY <1>1, <1>2, Beginnings DEF Collapsing

(* Collapsing a path leaves at least one of its segments, and no two "**"  *)
(* side by side.                                                           *)
LEMMA CollapseType ==
  ASSUME NEW A, NEW s \in Seq(A), s # <<>>
  PROVE  Collapse(s) \in Seq(A) /\ Collapse(s) # <<>> /\ NoTwoGlobstars(Collapse(s))
<1> DEFINE V == Seq(A)
           drops(k) == k > 1 /\ s[k] = Globstar /\ s[k - 1] = Globstar
           rule(k, before) == IF drops(k) THEN before ELSE Append(before, s[k])
<1>1. Len(s) \in Nat /\ Len(s) > 0 /\ <<>> \in V
  BY EmptySeq, LenProperties
<1>2. PICK done : Collapsing(s, done)
  BY CollapseSteps
<1>3. done[0] = <<>> /\ \A k \in 1..Len(s) : done[k] = rule(k, done[k - 1])
  BY <1>2 DEF Collapsing, CollapseStep
<1> DEFINE fits(k, q) == q \in V /\ q # <<>> /\ Last(q) = s[k] /\ NoTwoGlobstars(q)
           S == {k \in 1..Len(s) : fits(k, done[k])}
<1>4. \A q \in V : q # <<>> => Len(q) \in Nat \ {0}
  BY EndFacts
<1>5. 1 \in S
  <2>1. done[1] = Append(<<>>, s[1])
    <3>1. 1 \in 1..Len(s) /\ 1 - 1 = 0 /\ ~drops(1)
      BY <1>1
    <3>2. done[1] = rule(1, done[0])
      <4> HIDE DEF rule
      <4> QED BY <1>3, <3>1
    <3> QED BY <1>3, <3>1, <3>2
  <2>2. s[1] \in A
    BY <1>1, ElementOfSeq
  <2>3. Append(<<>>, s[1]) \in V /\ Len(Append(<<>>, s[1])) = 1 /\ Append(<<>>, s[1])[1] = s[1]
    BY <1>1, <2>2, EndFacts
  <2> DEFINE q == Append(<<>>, s[1])
  <2> HIDE DEF q
  <2>4. q \in V /\ Len(q) = 1 /\ q[1] = s[1]
    BY <2>3 DEF q
  <2>5. q # <<>> /\ Last(q) = s[1]
    <3>1. q # <<>>
      <4>1. Len(<<>>) # 1
        OBVIOUS
      <4> QED BY <2>4, <4>1, Zenon
    <3> QED BY <2>4, <3>1 DEF Last
  <2>6. NoTwoGlobstars(q)
    BY <2>4 DEF NoTwoGlobstars
  <2>7. done[1] = q
    BY <2>1 DEF q
  <2> QED BY <1>1, <2>4, <2>5, <2>6, <2>7
<1>6. ASSUME NEW k \in 1..Len(s), k \in S, k < Len(s) PROVE k + 1 \in S
  <2>1. k + 1 \in 1..Len(s) /\ (k + 1) - 1 = k /\ k + 1 > 1
    BY <1>6
  <2>2. done[k + 1] = rule(k + 1, done[k]) /\ fits(k, done[k])
    BY <1>3, <1>6, <2>1
  <2>3. CASE drops(k + 1)
    BY <2>1, <2>2, <2>3
  <2>4. CASE ~drops(k + 1)
    <3> DEFINE b == done[k]
               q == Append(b, s[k + 1])
    <3>1. b \in V /\ b # <<>> /\ b[Len(b)] = s[k] /\ NoTwoGlobstars(b) /\ Len(b) \in Nat \ {0}
      BY <1>4, <2>2 DEF Last
    <3>2. s[k + 1] \in A
      BY <2>1, ElementOfSeq
    <3> HIDE DEF b
    <3>3. q \in V /\ Len(q) = Len(b) + 1 /\ q[Len(b) + 1] = s[k + 1] /\ \A i \in 1..Len(b) : q[i] = b[i]
      BY <3>1, <3>2, EndFacts
    <3> HIDE DEF q
    <3>4. ~(s[k + 1] = Globstar /\ s[k] = Globstar)
      BY <2>1, <2>4
    <3>5. NoTwoGlobstars(q)
      <4>1. ASSUME NEW i \in 1..Len(q), i > 1 PROVE ~(q[i] = Globstar /\ q[i - 1] = Globstar)
        <5>1. CASE i \in 1..Len(b)
          <6>1. i - 1 \in 1..Len(b)
            BY <3>1, <4>1, <5>1
          <6> QED BY <3>1, <3>3, <4>1, <5>1, <6>1 DEF NoTwoGlobstars
        <5>2. CASE i = Len(b) + 1
          BY <3>1, <3>3, <3>4, <5>2
        <5> QED BY <3>1, <3>3, <5>1, <5>2
      <4> QED BY <4>1 DEF NoTwoGlobstars
    <3>6. q # <<>> /\ Last(q) = s[k + 1]
      BY <3>1, <3>3 DEF Last
    <3>7. done[k + 1] = q
      BY <2>2, <2>4 DEF q, b
    <3> QED BY <2>1, <3>3, <3>5, <3>6, <3>7
  <2> QED BY <2>3, <2>4
<1>7. Len(s) \in S
  <2>1. Len(s) \in 1..Len(s)
    BY <1>1
  <2>2. \A k \in 1..Len(s) : k \in S
    <3> HIDE DEF S
    <3> QED BY <1>1, <1>5, <1>6, Climb
  <2> QED BY <2>1, <2>2
<1>8. Collapse(s) = done[Len(s)]
  BY <1>2 DEF Collapsing
<1> QED BY <1>7, <1>8

-----------------------------------------------------------------------------
(* The tables of the matcher                                               *)

(* The names of files and directories.                                     *)
SegmentName == Seq(Letter) \ {<<>>}

SegmentTable(s, name) == Reachable(SegmentMoves(s, name), {<<0, 0>>})
PathTable(p, n) == Reachable(PathMoves(p, n), {<<0, 0>>})

SegmentClosed(s, name, R) ==
  \A k \in 0..Len(s), l \in 0..Len(name) : <<k, l>> \in R =>
    /\ k < Len(s) /\ s[k + 1] = "*" => <<k + 1, l>> \in R
    /\ k > 0 /\ s[k] = "*" /\ l < Len(name) => <<k, l + 1>> \in R
    /\ k < Len(s) /\ l < Len(name) /\ s[k + 1] # "*" /\ s[k + 1] = name[l + 1] => <<k + 1, l + 1>> \in R

PathClosed(p, n, R) ==
  \A i \in 0..Len(p), j \in 0..Len(n) : <<i, j>> \in R =>
    /\ i < Len(p) /\ j < Len(n) /\ p[i + 1] # Globstar /\ SegmentMatches(p[i + 1], n[j + 1]) => <<i + 1, j + 1>> \in R
    /\ i + 1 < Len(p) /\ p[i + 1] = Globstar => <<i + 1, j>> \in R
    /\ i > 0 /\ p[i] = Globstar /\ j < Len(n) => <<i, j + 1>> \in R
    /\ i + 1 = Len(p) /\ p[i + 1] = Globstar /\ j < Len(n) => <<i + 1, j + 1>> \in R

LEMMA CellFacts ==
  ASSUME NEW A, NEW B, NEW left \in Seq(A), NEW right \in Seq(B)
  PROVE  /\ IsFiniteSet(Cells(left, right)) /\ {<<0, 0>>} \in SUBSET Cells(left, right)
         /\ Len(left) \in Nat /\ Len(right) \in Nat
<1>1. Len(left) \in Nat /\ Len(right) \in Nat
  OBVIOUS
<1>2. IsFiniteSet(0..Len(left)) /\ IsFiniteSet(0..Len(right))
  BY <1>1, FS_Interval
<1>3. IsFiniteSet(Cells(left, right))
  BY <1>2, FS_Product DEF Cells
<1> QED BY <1>1, <1>3 DEF Cells

LEMMA SegmentMovesAre ==
  ASSUME NEW s \in Seq(Letter), NEW name \in Seq(Letter), NEW R \in SUBSET Cells(s, name)
  PROVE  /\ IsGraph(SegmentMoves(s, name)) /\ DOMAIN SegmentMoves(s, name) = Cells(s, name)
         /\ SegmentClosed(s, name, R) <=> \A c \in R : SegmentMoves(s, name)[c] \subseteq R
<1> DEFINE M == Len(s)
           N == Len(name)
<1>1. M \in Nat /\ N \in Nat
  OBVIOUS
<1>2. DOMAIN SegmentMoves(s, name) = Cells(s, name)
  BY DEF SegmentMoves
<1>3. ASSUME NEW k \in 0..M, NEW l \in 0..N, NEW d
      PROVE  d \in SegmentMoves(s, name)[<<k, l>>] <=>
               \/ d = <<k + 1, l>> /\ k < M /\ s[k + 1] = "*"
               \/ d = <<k, l + 1>> /\ k > 0 /\ s[k] = "*" /\ l < N
               \/ d = <<k + 1, l + 1>> /\ k < M /\ l < N /\ s[k + 1] # "*" /\ s[k + 1] = name[l + 1]
  <2>1. <<k, l>> \in Cells(s, name)
    BY DEF Cells
  <2>2. d \in SegmentMoves(s, name)[<<k, l>>] <=>
          /\ d \in {<<k + 1, l>>, <<k, l + 1>>, <<k + 1, l + 1>>}
          /\ d \in (1..M) \X (0..N)
          /\ IF s[d[1]] = "*" THEN d # <<k + 1, l + 1>> ELSE d = <<k + 1, l + 1>> /\ s[d[1]] = name[d[2]]
    BY <2>1 DEF SegmentMoves, Neighbours
  <2>3. CASE d = <<k + 1, l>>
    BY <1>1, <2>2, <2>3
  <2>4. CASE d = <<k, l + 1>>
    BY <1>1, <2>2, <2>4
  <2>5. CASE d = <<k + 1, l + 1>>
    BY <1>1, <2>2, <2>5
  <2>6. CASE d \notin {<<k + 1, l>>, <<k, l + 1>>, <<k + 1, l + 1>>}
    BY <2>2, <2>6
  <2> QED BY <2>3, <2>4, <2>5, <2>6
<1>4. ASSUME NEW c \in Cells(s, name) PROVE SegmentMoves(s, name)[c] \subseteq Cells(s, name)
  BY <1>1, <1>4 DEF SegmentMoves, Cells
<1>5. IsGraph(SegmentMoves(s, name))
  BY <1>2, <1>4, CellFacts DEF IsGraph
<1>6. SegmentClosed(s, name, R) => \A c \in R : SegmentMoves(s, name)[c] \subseteq R
  <2> SUFFICES ASSUME SegmentClosed(s, name, R), NEW c \in R, NEW d \in SegmentMoves(s, name)[c]
               PROVE  d \in R
    OBVIOUS
  <2>1. PICK k \in 0..M : \E l \in 0..N : c = <<k, l>>
    BY DEF Cells
  <2>2. PICK l \in 0..N : c = <<k, l>>
    BY <2>1
  <2>3. \/ d = <<k + 1, l>> /\ k < M /\ s[k + 1] = "*"
        \/ d = <<k, l + 1>> /\ k > 0 /\ s[k] = "*" /\ l < N
        \/ d = <<k + 1, l + 1>> /\ k < M /\ l < N /\ s[k + 1] # "*" /\ s[k + 1] = name[l + 1]
    BY <1>3, <2>2
  <2>4. <<k, l>> \in R
    BY <2>2
  <2> QED BY <2>3, <2>4 DEF SegmentClosed
<1>7. (\A c \in R : SegmentMoves(s, name)[c] \subseteq R) => SegmentClosed(s, name, R)
  <2> SUFFICES ASSUME \A c \in R : SegmentMoves(s, name)[c] \subseteq R,
                      NEW k \in 0..M, NEW l \in 0..N, <<k, l>> \in R
               PROVE  \A d : d \in SegmentMoves(s, name)[<<k, l>>] => d \in R
    <3>1. ASSUME \A c \in R : SegmentMoves(s, name)[c] \subseteq R,
                 \A k \in 0..M, l \in 0..N : <<k, l>> \in R =>
                   \A d : d \in SegmentMoves(s, name)[<<k, l>>] => d \in R
          PROVE  SegmentClosed(s, name, R)
      BY <1>3, <3>1 DEF SegmentClosed
    <3> QED BY <3>1
  <2> QED OBVIOUS
<1> QED BY <1>2, <1>5, <1>6, <1>7

(* The table of a segment is the least closed set of cells.                *)
LEMMA SegmentTableFacts ==
  ASSUME NEW s \in Seq(Letter), NEW name \in Seq(Letter)
  PROVE  /\ SegmentTable(s, name) \subseteq Cells(s, name) /\ <<0, 0>> \in SegmentTable(s, name)
         /\ SegmentClosed(s, name, SegmentTable(s, name))
         /\ \A R \in SUBSET Cells(s, name) :
              <<0, 0>> \in R /\ SegmentClosed(s, name, R) => SegmentTable(s, name) \subseteq R
<1> DEFINE moves == SegmentMoves(s, name)
           seed == {<<0, 0>>}
<1>1. IsGraph(moves) /\ DOMAIN moves = Cells(s, name) /\ seed \in SUBSET DOMAIN moves
  BY SegmentMovesAre, CellFacts
<1>2. /\ Reachable(moves, seed) \subseteq DOMAIN moves
      /\ seed \subseteq Reachable(moves, seed)
      /\ \A x \in Reachable(moves, seed) : moves[x] \subseteq Reachable(moves, seed)
      /\ \A c \in SUBSET DOMAIN moves :
           seed \subseteq c /\ (\A x \in c : moves[x] \subseteq c) => Reachable(moves, seed) \subseteq c
  <2> HIDE DEF moves, seed
  <2> QED BY <1>1, ReachableFacts
<1>3. SegmentTable(s, name) = Reachable(moves, seed)
  BY DEF SegmentTable
<1> HIDE DEF moves
<1>4. SegmentClosed(s, name, SegmentTable(s, name))
  BY <1>1, <1>2, <1>3, SegmentMovesAre DEF moves
<1>5. ASSUME NEW R \in SUBSET Cells(s, name), <<0, 0>> \in R, SegmentClosed(s, name, R)
      PROVE  SegmentTable(s, name) \subseteq R
  <2>1. \A x \in R : moves[x] \subseteq R
    BY <1>5, SegmentMovesAre DEF moves
  <2> QED BY <1>1, <1>2, <1>3, <1>5, <2>1
<1> QED BY <1>1, <1>2, <1>3, <1>4, <1>5

(* A segment without "*" fills the table like the comparison that the code *)
(* makes instead: the shortcut changes nothing.                            *)
LEMMA SegmentMatchesByTable ==
  ASSUME NEW s \in Seq(Letter), NEW name \in Seq(Letter)
  PROVE  SegmentMatches(s, name) <=> <<Len(s), Len(name)>> \in SegmentTable(s, name)
<1> DEFINE M == Len(s)
           N == Len(name)
           F == SegmentTable(s, name)
<1>1. M \in Nat /\ N \in Nat /\ DOMAIN s = 1..M /\ DOMAIN name = 1..N
  OBVIOUS
<1>2. CASE Contains(s, "*")
  BY <1>2 DEF SegmentMatches, TableAccepts, SegmentTable
<1>3. CASE ~Contains(s, "*")
  <2>1. \A k \in 1..M : s[k] # "*"
    BY <1>1, <1>3 DEF Contains
  <2>2. SegmentMatches(s, name) <=> s = name
    BY <1>3 DEF SegmentMatches
  <2>3. ASSUME s = name PROVE <<M, N>> \in F
    <3> DEFINE S == {k \in 0..M : <<k, k>> \in F}
    <3>1. 0 \in S
      BY <1>1, SegmentTableFacts
    <3>2. ASSUME NEW k \in 0..M, k \in S, k < M PROVE k + 1 \in S
      <4>1. SegmentClosed(s, name, F) /\ k + 1 \in 1..M
        BY <1>1, <3>2, SegmentTableFacts
      <4>2. s[k + 1] # "*" /\ s[k + 1] = name[k + 1] /\ k \in 0..N /\ k < N /\ <<k, k>> \in F
        BY <2>1, <2>3, <3>2, <4>1
      <4>3. <<k + 1, k + 1>> \in F
        <5> HIDE DEF F
        <5> QED BY <3>2, <4>1, <4>2 DEF SegmentClosed
      <4> QED BY <4>1, <4>3
    <3>3. M \in S
      <4>1. \A k \in 0..M : k \in S
        <5> HIDE DEF S
        <5> QED BY <1>1, <3>1, <3>2, Climb
      <4> QED BY <1>1, <4>1
    <3> QED BY <2>3, <3>3
  <2>4. ASSUME <<M, N>> \in F PROVE s = name
    <3> DEFINE R == {c \in Cells(s, name) : c[1] = c[2] /\ \A i \in 1..c[1] : s[i] = name[i]}
    <3>1. <<0, 0>> \in R
      BY <1>1 DEF Cells
    <3>2. ASSUME NEW k \in 0..M, NEW l \in 0..N, <<k, l>> \in R,
                 k < M, l < N, s[k + 1] = name[l + 1]
          PROVE  <<k + 1, l + 1>> \in R
      <4>1. k = l /\ \A i \in 1..k : s[i] = name[i]
        BY <3>2
      <4>2. <<k + 1, l + 1>> \in Cells(s, name)
        BY <1>1, <3>2 DEF Cells
      <4>3. \A i \in 1..(k + 1) : s[i] = name[i]
        <5>1. ASSUME NEW i \in 1..(k + 1) PROVE i \in 1..k \/ i = k + 1
          OBVIOUS
        <5> QED BY <3>2, <4>1, <5>1
      <4> QED BY <4>1, <4>2, <4>3
    <3>3. SegmentClosed(s, name, R)
      <4>1. \A k \in 0..M : (k < M => s[k + 1] # "*") /\ (k > 0 => s[k] # "*")
        BY <1>1, <2>1
      <4> HIDE DEF R
      <4> QED BY <3>2, <4>1 DEF SegmentClosed
    <3>4. <<M, N>> \in R
      <4>1. R \in SUBSET Cells(s, name)
        OBVIOUS
      <4> HIDE DEF R
      <4> QED BY <2>4, <3>1, <3>3, <4>1, SegmentTableFacts
    <3>5. M = N /\ \A i \in 1..M : s[i] = name[i]
      BY <3>4
    <3> QED BY <1>1, <3>5, SeqEqual
  <2> QED BY <2>2, <2>3, <2>4
<1> QED BY <1>2, <1>3

LEMMA PathMovesAre ==
  ASSUME NEW A, NEW B, NEW p \in Seq(A), NEW n \in Seq(B)
  PROVE  /\ IsGraph(PathMoves(p, n)) /\ DOMAIN PathMoves(p, n) = Cells(p, n)
         /\ \A R \in SUBSET Cells(p, n) : PathClosed(p, n, R) <=> \A c \in R : PathMoves(p, n)[c] \subseteq R
<1> DEFINE M == Len(p)
           N == Len(n)
<1>1. M \in Nat /\ N \in Nat
  OBVIOUS
<1>2. DOMAIN PathMoves(p, n) = Cells(p, n)
  BY DEF PathMoves
<1>3. ASSUME NEW i \in 0..M, NEW j \in 0..N, NEW d
      PROVE  d \in PathMoves(p, n)[<<i, j>>] <=>
               \/ d = <<i + 1, j + 1>> /\ i < M /\ j < N /\ p[i + 1] # Globstar /\ SegmentMatches(p[i + 1], n[j + 1])
               \/ d = <<i + 1, j>> /\ i + 1 < M /\ p[i + 1] = Globstar
               \/ d = <<i, j + 1>> /\ i > 0 /\ p[i] = Globstar /\ j < N
               \/ d = <<i + 1, j + 1>> /\ i + 1 = M /\ p[i + 1] = Globstar /\ j < N
  <2>1. <<i, j>> \in Cells(p, n)
    BY DEF Cells
  <2>2. d \in PathMoves(p, n)[<<i, j>>] <=>
          /\ d \in {<<i + 1, j>>, <<i, j + 1>>, <<i + 1, j + 1>>}
          /\ d \in (1..M) \X (0..N)
          /\ IF p[d[1]] # Globstar THEN d = <<i + 1, j + 1>> /\ SegmentMatches(p[d[1]], n[d[2]])
             ELSE IF d[1] = M THEN d[2] = j + 1
             ELSE d # <<i + 1, j + 1>>
    BY <2>1 DEF PathMoves, Neighbours
  <2>3. CASE d = <<i + 1, j>>
    BY <1>1, <2>2, <2>3
  <2>4. CASE d = <<i, j + 1>>
    BY <1>1, <2>2, <2>4
  <2>5. CASE d = <<i + 1, j + 1>>
    BY <1>1, <2>2, <2>5
  <2>6. CASE d \notin {<<i + 1, j>>, <<i, j + 1>>, <<i + 1, j + 1>>}
    BY <2>2, <2>6
  <2> QED BY <2>3, <2>4, <2>5, <2>6
<1>4. ASSUME NEW c \in Cells(p, n) PROVE PathMoves(p, n)[c] \subseteq Cells(p, n)
  BY <1>1, <1>4 DEF PathMoves, Cells
<1>5. IsGraph(PathMoves(p, n))
  BY <1>2, <1>4, CellFacts DEF IsGraph
<1>6. ASSUME NEW R \in SUBSET Cells(p, n)
      PROVE  PathClosed(p, n, R) => \A c \in R : PathMoves(p, n)[c] \subseteq R
  <2> SUFFICES ASSUME PathClosed(p, n, R), NEW c \in R, NEW d \in PathMoves(p, n)[c]
               PROVE  d \in R
    OBVIOUS
  <2>1. PICK i \in 0..M : \E j \in 0..N : c = <<i, j>>
    BY DEF Cells
  <2>2. PICK j \in 0..N : c = <<i, j>>
    BY <2>1
  <2>3. \/ d = <<i + 1, j + 1>> /\ i < M /\ j < N /\ p[i + 1] # Globstar /\ SegmentMatches(p[i + 1], n[j + 1])
        \/ d = <<i + 1, j>> /\ i + 1 < M /\ p[i + 1] = Globstar
        \/ d = <<i, j + 1>> /\ i > 0 /\ p[i] = Globstar /\ j < N
        \/ d = <<i + 1, j + 1>> /\ i + 1 = M /\ p[i + 1] = Globstar /\ j < N
    BY <1>3, <2>2
  <2>4. <<i, j>> \in R
    BY <2>2
  <2> QED BY <2>3, <2>4 DEF PathClosed
<1>7. ASSUME NEW R \in SUBSET Cells(p, n)
      PROVE  (\A c \in R : PathMoves(p, n)[c] \subseteq R) => PathClosed(p, n, R)
  <2> SUFFICES ASSUME \A c \in R : PathMoves(p, n)[c] \subseteq R,
                      NEW i \in 0..M, NEW j \in 0..N, <<i, j>> \in R
               PROVE  \A d : d \in PathMoves(p, n)[<<i, j>>] => d \in R
    <3>1. ASSUME \A c \in R : PathMoves(p, n)[c] \subseteq R,
                 \A i \in 0..M, j \in 0..N : <<i, j>> \in R =>
                   \A d : d \in PathMoves(p, n)[<<i, j>>] => d \in R
          PROVE  PathClosed(p, n, R)
      BY <1>3, <3>1 DEF PathClosed
    <3> QED BY <3>1
  <2> QED OBVIOUS
<1> QED BY <1>2, <1>5, <1>6, <1>7

LEMMA PathTableFacts ==
  ASSUME NEW A, NEW B, NEW p \in Seq(A), NEW n \in Seq(B)
  PROVE  /\ PathTable(p, n) \subseteq Cells(p, n) /\ <<0, 0>> \in PathTable(p, n)
         /\ PathClosed(p, n, PathTable(p, n))
         /\ \A R \in SUBSET Cells(p, n) :
              <<0, 0>> \in R /\ PathClosed(p, n, R) => PathTable(p, n) \subseteq R
<1> DEFINE moves == PathMoves(p, n)
           seed == {<<0, 0>>}
<1>0. seed \in SUBSET Cells(p, n)
  BY CellFacts
<1>1. IsGraph(moves) /\ DOMAIN moves = Cells(p, n) /\ seed \in SUBSET DOMAIN moves
  <2>1. IsGraph(moves) /\ DOMAIN moves = Cells(p, n)
    BY PathMovesAre DEF moves
  <2> QED BY <1>0, <2>1
<1>2. /\ Reachable(moves, seed) \subseteq DOMAIN moves
      /\ seed \subseteq Reachable(moves, seed)
      /\ \A x \in Reachable(moves, seed) : moves[x] \subseteq Reachable(moves, seed)
      /\ \A c \in SUBSET DOMAIN moves :
           seed \subseteq c /\ (\A x \in c : moves[x] \subseteq c) => Reachable(moves, seed) \subseteq c
  <2> HIDE DEF moves, seed
  <2> QED BY <1>1, ReachableFacts
<1>3. PathTable(p, n) = Reachable(moves, seed)
  BY DEF PathTable
<1> HIDE DEF moves
<1>4. PathClosed(p, n, PathTable(p, n))
  BY <1>1, <1>2, <1>3, PathMovesAre DEF moves
<1>5. ASSUME NEW R \in SUBSET Cells(p, n), <<0, 0>> \in R, PathClosed(p, n, R)
      PROVE  PathTable(p, n) \subseteq R
  <2>1. \A x \in R : moves[x] \subseteq R
    BY <1>5, PathMovesAre DEF moves
  <2> QED BY <1>1, <1>2, <1>3, <1>5, <2>1
<1> QED BY <1>1, <1>2, <1>3, <1>4, <1>5

-----------------------------------------------------------------------------
(* Reading a path character by character                                   *)

(* <<j, l>>: the first j - 1 segments and l characters of the next one are *)
(* read.                                                                   *)
Positions(n) == {x \in (1..Len(n)) \X Nat : x[2] <= Len(n[x[1]])}
AtStart == <<1, 0>>
AtEnd(n) == <<Len(n), Len(n[Len(n)])>>
NextPosition(n, x) == IF x[2] < Len(n[x[1]]) THEN <<x[1], x[2] + 1>> ELSE <<x[1] + 1, 0>>
SymbolAt(n, x) == IF x[2] < Len(n[x[1]]) THEN n[x[1]][x[2] + 1] ELSE "/"

(* A set of pairs of a position and a state that holds the first one and   *)
(* whatever the automaton makes of those in it.                            *)
RunClosed(a, n, T) ==
  \A x \in Positions(n) : \A e \in a.edges : <<x, e.from>> \in T =>
    /\ e.kind = "epsilon" => <<x, e.to>> \in T
    /\ e.kind # "epsilon" /\ x # AtEnd(n) /\ Reads(e, SymbolAt(n, x)) => <<NextPosition(n, x), e.to>> \in T
CompleteRun(a, n, T) ==
  /\ T \in SUBSET (Positions(n) \X a.states)
  /\ <<AtStart, InitialState>> \in T
  /\ RunClosed(a, n, T)

(* The pairs that the automaton gets to, and whether it accepts the path.  *)
RunOf(a, n) == {t \in Positions(n) \X a.states : \A T : CompleteRun(a, n, T) => t \in T}
AcceptsText(a, n) == <<AtEnd(n), a.accept>> \in RunOf(a, n)

IsPath(n) == n \in Seq(SegmentName) /\ n # <<>>
IsPattern(p) == IsPath(p) /\ NoTwoGlobstars(p)

LEMMA PathFacts ==
  ASSUME NEW n, IsPath(n)
  PROVE  /\ Len(n) \in Nat \ {0} /\ DOMAIN n = 1..Len(n)
         /\ \A j \in 1..Len(n) : /\ n[j] \in SegmentName /\ n[j] \in Seq(Letter) /\ Len(n[j]) \in Nat \ {0}
                                 /\ \A l \in 1..Len(n[j]) : n[j][l] \in Letter /\ n[j][l] # "/" /\ n[j][l] # Other
<1>1. Len(n) \in Nat \ {0} /\ DOMAIN n = 1..Len(n)
  BY EmptySeq, LenProperties DEF IsPath
<1>2. ASSUME NEW j \in 1..Len(n)
      PROVE  n[j] \in SegmentName /\ n[j] \in Seq(Letter) /\ Len(n[j]) \in Nat \ {0}
  <2>1. n[j] \in SegmentName
    BY ElementOfSeq DEF IsPath
  <2> QED BY <2>1, EmptySeq, LenProperties DEF SegmentName
<1>3. ASSUME NEW j \in 1..Len(n), NEW l \in 1..Len(n[j]) PROVE n[j][l] \in Letter
  BY <1>2, ElementOfSeq
<1> QED BY <1>1, <1>2, <1>3 DEF Letter

(* Where reading goes, position by position.                               *)
LEMMA PositionFacts ==
  ASSUME NEW n, IsPath(n)
  PROVE  /\ AtStart \in Positions(n) /\ AtEnd(n) \in Positions(n)
         /\ \A x \in Positions(n) : x = <<x[1], x[2]>> /\ x[1] \in 1..Len(n) /\ x[2] \in 0..Len(n[x[1]])
         /\ \A j \in 1..Len(n) : \A l \in 0..Len(n[j]) :
              /\ <<j, l>> \in Positions(n)
              /\ <<j, l>> # AtEnd(n) <=> (l < Len(n[j]) \/ j < Len(n))
              /\ l < Len(n[j]) => /\ NextPosition(n, <<j, l>>) = <<j, l + 1>> /\ l + 1 \in 0..Len(n[j])
                                  /\ SymbolAt(n, <<j, l>>) = n[j][l + 1] /\ SymbolAt(n, <<j, l>>) # "/"
                                  /\ SymbolAt(n, <<j, l>>) # Other
              /\ l = Len(n[j]) => NextPosition(n, <<j, l>>) = <<j + 1, 0>> /\ SymbolAt(n, <<j, l>>) = "/"
<1> DEFINE N == Len(n)
<1>1. N \in Nat \ {0} /\ \A j \in 1..N : Len(n[j]) \in Nat \ {0}
  BY PathFacts
<1>2. ASSUME NEW j \in 1..N, NEW l \in 0..Len(n[j]) PROVE <<j, l>> \in Positions(n)
  BY <1>1, <1>2 DEF Positions
<1>3. \A x \in Positions(n) : x = <<x[1], x[2]>> /\ x[1] \in 1..N /\ x[2] \in 0..Len(n[x[1]])
  BY <1>1 DEF Positions
<1>4. AtStart \in Positions(n) /\ AtEnd(n) \in Positions(n)
  BY <1>1, <1>2 DEF AtStart, AtEnd
<1>5. ASSUME NEW j \in 1..N, NEW l \in 0..Len(n[j])
      PROVE  <<j, l>> # AtEnd(n) <=> (l < Len(n[j]) \/ j < N)
  BY <1>1 DEF AtEnd
<1>6. ASSUME NEW j \in 1..N, NEW l \in 0..Len(n[j]), l < Len(n[j])
      PROVE  /\ NextPosition(n, <<j, l>>) = <<j, l + 1>> /\ l + 1 \in 0..Len(n[j])
             /\ SymbolAt(n, <<j, l>>) = n[j][l + 1] /\ SymbolAt(n, <<j, l>>) # "/"
             /\ SymbolAt(n, <<j, l>>) # Other
  <2>1. l + 1 \in 1..Len(n[j])
    BY <1>1, <1>6
  <2>2. n[j][l + 1] # "/" /\ n[j][l + 1] # Other
    BY <2>1, PathFacts
  <2> QED BY <1>6, <2>1, <2>2 DEF NextPosition, SymbolAt
<1>7. ASSUME NEW j \in 1..N, NEW l \in 0..Len(n[j]), l = Len(n[j])
      PROVE  NextPosition(n, <<j, l>>) = <<j + 1, 0>> /\ SymbolAt(n, <<j, l>>) = "/"
  BY <1>1, <1>7 DEF NextPosition, SymbolAt
<1> QED BY <1>2, <1>3, <1>4, <1>5, <1>6, <1>7

(* The states of a pattern's automaton, and its edges one kind after the   *)
(* other.                                                                  *)
LEMMA StatesAre ==
  ASSUME NEW p, IsPattern(p)
  PROVE  \A s : s \in AutomatonOf(p).states <=> \E i \in 1..Len(p) : \E k \in 0..SegmentSize(p[i]) : s = <<i, k>>
BY PathFacts DEF AutomatonOf, IsPattern

GlobstarEdge(i, size, e) ==
  \/ size = 1 /\ (e = Edge(<<i, 0>>, "epsilon", <<i, 1>>) \/ e = Edge(<<i, 0>>, "any", <<i, 0>>))
  \/ size > 1 /\ i = size /\ (e = Edge(<<i, 0>>, "any", <<i, 1>>) \/ e = Edge(<<i, 1>>, "any", <<i, 1>>))
  \/ /\ size > 1 /\ i # size
     /\ \/ e = Edge(<<i, 0>>, "epsilon", <<i + 1, 0>>) \/ e = Edge(<<i, 0>>, "non-slash", <<i, 1>>)
        \/ e = Edge(<<i, 1>>, "non-slash", <<i, 1>>) \/ e = Literal(<<i, 1>>, "/", <<i, 0>>)

LEMMA GlobstarEdgesAre ==
  ASSUME NEW size \in Nat \ {0}, NEW i \in 1..size, NEW e
  PROVE  e \in GlobstarEdges(i, size) <=> GlobstarEdge(i, size, e)
<1>1. CASE size = 1
  BY <1>1 DEF GlobstarEdges, GlobstarEdge
<1>2. CASE size > 1 /\ i = size
  BY <1>2 DEF GlobstarEdges, GlobstarEdge
<1>3. CASE size > 1 /\ i # size
  <2>1. size # 1 /\ ~(size > 1 /\ i = size)
    BY <1>3
  <2>2. GlobstarEdges(i, size) =
          {Edge(<<i, 0>>, "epsilon", <<i + 1, 0>>), Edge(<<i, 0>>, "non-slash", <<i, 1>>),
           Edge(<<i, 1>>, "non-slash", <<i, 1>>), Literal(<<i, 1>>, "/", <<i, 0>>)}
    BY <1>3, <2>1 DEF GlobstarEdges
  <2> QED BY <1>3, <2>1, <2>2, Zenon DEF GlobstarEdge
<1> QED BY <1>1, <1>2, <1>3

SegmentEdge(i, s, e) ==
  \E k \in 1..Len(s) :
    \/ s[k] # "*" /\ e = Literal(<<i, k - 1>>, s[k], <<i, k>>)
    \/ s[k] = "*" /\ (e = Edge(<<i, k - 1>>, "epsilon", <<i, k>>) \/ e = Edge(<<i, k - 1>>, "non-slash", <<i, k - 1>>))

LEMMA EdgesAre ==
  ASSUME NEW p, IsPattern(p), NEW e
  PROVE  e \in AutomatonOf(p).edges <=>
           \E i \in 1..Len(p) :
             \/ i > 1 /\ p[i - 1] # Globstar /\ e = Literal(<<i - 1, Len(p[i - 1])>>, "/", <<i, 0>>)
             \/ p[i] = Globstar /\ GlobstarEdge(i, Len(p), e)
             \/ p[i] # Globstar /\ SegmentEdge(i, p[i], e)
<1>1. Len(p) \in Nat \ {0} /\ DOMAIN p = 1..Len(p)
  BY PathFacts DEF IsPattern
<1>2. ASSUME NEW i \in 1..Len(p) PROVE e \in GlobstarEdges(i, Len(p)) <=> GlobstarEdge(i, Len(p), e)
  BY <1>1, GlobstarEdgesAre
<1>3. ASSUME NEW i \in 1..Len(p) PROVE e \in SegmentEdges(i, p[i]) <=> SegmentEdge(i, p[i], e)
  <2>1. DOMAIN p[i] = 1..Len(p[i])
    BY PathFacts, LenProperties DEF IsPattern
  <2>2. e \in SegmentEdges(i, p[i]) <=>
          \/ \E k \in 1..Len(p[i]) : p[i][k] # "*" /\ e = Literal(<<i, k - 1>>, p[i][k], <<i, k>>)
          \/ \E k \in 1..Len(p[i]) : p[i][k] = "*" /\ e \in {Edge(<<i, k - 1>>, "epsilon", <<i, k>>), Edge(<<i, k - 1>>, "non-slash", <<i, k - 1>>)}
    BY <2>1, Zenon DEF SegmentEdges
  <2> QED BY <2>2, Zenon DEF SegmentEdge
<1>4. ASSUME NEW i \in 1..Len(p)
      PROVE  e \in SlashInto(p, i) <=> i > 1 /\ p[i - 1] # Globstar /\ e = Literal(<<i - 1, Len(p[i - 1])>>, "/", <<i, 0>>)
  BY <1>1 DEF SlashInto
<1>5. e \in AutomatonOf(p).edges <=>
        \E i \in 1..Len(p) : \/ e \in SlashInto(p, i)
                             \/ p[i] = Globstar /\ e \in GlobstarEdges(i, Len(p))
                             \/ p[i] # Globstar /\ e \in SegmentEdges(i, p[i])
  <2> DEFINE at(i) == SlashInto(p, i) \cup (IF p[i] = Globstar THEN GlobstarEdges(i, Len(p)) ELSE SegmentEdges(i, p[i]))
  <2>1. AutomatonOf(p).edges = UNION {at(i) : i \in 1..Len(p)}
    BY <1>1 DEF AutomatonOf
  <2>2. ASSUME NEW i \in 1..Len(p)
        PROVE  e \in at(i) <=> \/ e \in SlashInto(p, i)
                               \/ p[i] = Globstar /\ e \in GlobstarEdges(i, Len(p))
                               \/ p[i] # Globstar /\ e \in SegmentEdges(i, p[i])
    BY Zenon
  <2>3. e \in AutomatonOf(p).edges <=> \E i \in 1..Len(p) : e \in at(i)
    <3> HIDE DEF at
    <3> QED BY <2>1
  <2> HIDE DEF at
  <2> QED BY <2>2, <2>3, Zenon
<1> QED BY <1>2, <1>3, <1>4, <1>5

(* What one edge does at one position.                                     *)
InRun(T, j, l, i, k) == <<<<j, l>>, <<i, k>>>> \in T
EdgeSteps(n, T, j, l, e) ==
  /\ e.kind = "epsilon" => <<<<j, l>>, e.to>> \in T
  /\ e.kind \in {"any", "non-slash"} /\ l < Len(n[j]) => <<<<j, l + 1>>, e.to>> \in T
  /\ e.kind = "any" /\ l = Len(n[j]) /\ j < Len(n) => <<<<j + 1, 0>>, e.to>> \in T
  /\ e.kind = "literal" /\ l < Len(n[j]) /\ e.value = n[j][l + 1] => <<<<j, l + 1>>, e.to>> \in T
  /\ e.kind = "literal" /\ l = Len(n[j]) /\ e.value = "/" /\ j < Len(n) => <<<<j + 1, 0>>, e.to>> \in T

LEMMA RunClosedByEdges ==
  ASSUME NEW n, IsPath(n), NEW T, NEW a
  PROVE  RunClosed(a, n, T) <=>
           \A j \in 1..Len(n) : \A l \in 0..Len(n[j]) : \A e \in a.edges :
             <<<<j, l>>, e.from>> \in T => EdgeSteps(n, T, j, l, e)
<1>1. ASSUME NEW j \in 1..Len(n), NEW l \in 0..Len(n[j]), NEW e
      PROVE  EdgeSteps(n, T, j, l, e) <=>
               /\ e.kind = "epsilon" => <<<<j, l>>, e.to>> \in T
               /\ e.kind # "epsilon" /\ <<j, l>> # AtEnd(n) /\ Reads(e, SymbolAt(n, <<j, l>>)) =>
                    <<NextPosition(n, <<j, l>>), e.to>> \in T
  <2>1. Len(n) \in Nat /\ Len(n[j]) \in Nat
    BY PathFacts
  <2>2. <<j, l>> # AtEnd(n) <=> (l < Len(n[j]) \/ j < Len(n))
    BY PositionFacts
  <2>3. CASE l < Len(n[j])
    <3>1. /\ NextPosition(n, <<j, l>>) = <<j, l + 1>>
          /\ SymbolAt(n, <<j, l>>) = n[j][l + 1] /\ SymbolAt(n, <<j, l>>) # "/"
      BY <2>3, PositionFacts
    <3> QED BY <2>1, <2>2, <2>3, <3>1 DEF EdgeSteps, Reads
  <2>4. CASE l = Len(n[j])
    <3>1. NextPosition(n, <<j, l>>) = <<j + 1, 0>> /\ SymbolAt(n, <<j, l>>) = "/"
      BY <2>4, PositionFacts
    <3> QED BY <2>1, <2>2, <2>4, <3>1 DEF EdgeSteps, Reads
  <2> QED BY <2>1, <2>3, <2>4
<1>2. ASSUME RunClosed(a, n, T), NEW j \in 1..Len(n), NEW l \in 0..Len(n[j]), NEW e \in a.edges,
             <<<<j, l>>, e.from>> \in T
      PROVE  EdgeSteps(n, T, j, l, e)
  <2>1. <<j, l>> \in Positions(n)
    BY PositionFacts
  <2> QED BY <1>1, <1>2, <2>1 DEF RunClosed
<1>3. ASSUME \A j \in 1..Len(n) : \A l \in 0..Len(n[j]) : \A e \in a.edges :
               <<<<j, l>>, e.from>> \in T => EdgeSteps(n, T, j, l, e),
             NEW x \in Positions(n), NEW e \in a.edges, <<x, e.from>> \in T
      PROVE  /\ e.kind = "epsilon" => <<x, e.to>> \in T
             /\ e.kind # "epsilon" /\ x # AtEnd(n) /\ Reads(e, SymbolAt(n, x)) => <<NextPosition(n, x), e.to>> \in T
  <2>1. x = <<x[1], x[2]>> /\ x[1] \in 1..Len(n) /\ x[2] \in 0..Len(n[x[1]])
    BY PositionFacts
  <2>2. EdgeSteps(n, T, x[1], x[2], e)
    BY <1>3, <2>1
  <2> QED BY <1>1, <2>1, <2>2
<1> QED BY <1>2, <1>3 DEF RunClosed

(* The steps of the automaton of a pattern, kind by kind.                  *)
SlashStep(p, n, T) ==
  \A j \in 1..Len(n) : \A i \in 1..Len(p) :
    i > 1 /\ p[i - 1] # Globstar /\ j < Len(n) /\ InRun(T, j, Len(n[j]), i - 1, Len(p[i - 1])) => InRun(T, j + 1, 0, i, 0)

LetterStep(p, n, T) ==
  \A j \in 1..Len(n) : \A l \in 0..Len(n[j]) : \A i \in 1..Len(p) : \A k \in 1..Len(p[i]) :
    p[i] # Globstar /\ InRun(T, j, l, i, k - 1) =>
      /\ p[i][k] # "*" /\ l < Len(n[j]) /\ p[i][k] = n[j][l + 1] => InRun(T, j, l + 1, i, k)
      /\ p[i][k] = "*" => InRun(T, j, l, i, k)
      /\ p[i][k] = "*" /\ l < Len(n[j]) => InRun(T, j, l + 1, i, k - 1)

GlobstarStep(p, n, T) ==
  \A j \in 1..Len(n) : \A l \in 0..Len(n[j]) : \A i \in 1..Len(p) : p[i] = Globstar =>
    /\ Len(p) = 1 /\ InRun(T, j, l, i, 0) =>
         /\ InRun(T, j, l, i, 1)
         /\ l < Len(n[j]) => InRun(T, j, l + 1, i, 0)
         /\ l = Len(n[j]) /\ j < Len(n) => InRun(T, j + 1, 0, i, 0)
    /\ Len(p) > 1 /\ i = Len(p) /\ (InRun(T, j, l, i, 0) \/ InRun(T, j, l, i, 1)) =>
         /\ l < Len(n[j]) => InRun(T, j, l + 1, i, 1)
         /\ l = Len(n[j]) /\ j < Len(n) => InRun(T, j + 1, 0, i, 1)
    /\ i < Len(p) =>
         /\ InRun(T, j, l, i, 0) => InRun(T, j, l, i + 1, 0)
         /\ l < Len(n[j]) /\ (InRun(T, j, l, i, 0) \/ InRun(T, j, l, i, 1)) => InRun(T, j, l + 1, i, 1)
         /\ l = Len(n[j]) /\ j < Len(n) /\ InRun(T, j, l, i, 1) => InRun(T, j + 1, 0, i, 0)

LEMMA EdgeFields ==
  \A from, kind, value, to :
    /\ Edge(from, kind, to).from = from /\ Edge(from, kind, to).kind = kind /\ Edge(from, kind, to).to = to
    /\ Literal(from, value, to).from = from /\ Literal(from, value, to).kind = "literal"
    /\ Literal(from, value, to).value = value /\ Literal(from, value, to).to = to
BY DEF Edge, Literal

(* An edge from one place to another steps as its kind says.               *)
LEMMA EdgeStepsAre ==
  ASSUME NEW n, NEW T, NEW j, NEW l, NEW from, NEW to, NEW value
  PROVE  /\ EdgeSteps(n, T, j, l, Edge(from, "epsilon", to)) <=> <<<<j, l>>, to>> \in T
         /\ EdgeSteps(n, T, j, l, Edge(from, "non-slash", to)) <=> (l < Len(n[j]) => <<<<j, l + 1>>, to>> \in T)
         /\ EdgeSteps(n, T, j, l, Edge(from, "any", to)) <=>
              /\ l < Len(n[j]) => <<<<j, l + 1>>, to>> \in T
              /\ l = Len(n[j]) /\ j < Len(n) => <<<<j + 1, 0>>, to>> \in T
         /\ EdgeSteps(n, T, j, l, Literal(from, value, to)) <=>
              /\ l < Len(n[j]) /\ value = n[j][l + 1] => <<<<j, l + 1>>, to>> \in T
              /\ l = Len(n[j]) /\ value = "/" /\ j < Len(n) => <<<<j + 1, 0>>, to>> \in T
<1>1. EdgeSteps(n, T, j, l, Edge(from, "epsilon", to)) <=> <<<<j, l>>, to>> \in T
  BY EdgeFields DEF EdgeSteps
<1>2. EdgeSteps(n, T, j, l, Edge(from, "non-slash", to)) <=> (l < Len(n[j]) => <<<<j, l + 1>>, to>> \in T)
  BY EdgeFields DEF EdgeSteps
<1>3. EdgeSteps(n, T, j, l, Edge(from, "any", to)) <=>
        /\ l < Len(n[j]) => <<<<j, l + 1>>, to>> \in T
        /\ l = Len(n[j]) /\ j < Len(n) => <<<<j + 1, 0>>, to>> \in T
  BY EdgeFields DEF EdgeSteps
<1>4. EdgeSteps(n, T, j, l, Literal(from, value, to)) <=>
        /\ l < Len(n[j]) /\ value = n[j][l + 1] => <<<<j, l + 1>>, to>> \in T
        /\ l = Len(n[j]) /\ value = "/" /\ j < Len(n) => <<<<j + 1, 0>>, to>> \in T
  BY EdgeFields DEF EdgeSteps
<1> QED BY <1>1, <1>2, <1>3, <1>4

Obeyed(n, T, e) ==
  \A j \in 1..Len(n) : \A l \in 0..Len(n[j]) : <<<<j, l>>, e.from>> \in T => EdgeSteps(n, T, j, l, e)

LEMMA ObeyedAre ==
  ASSUME NEW n, IsPath(n), NEW T, NEW i, NEW k, NEW to
  PROVE  /\ Obeyed(n, T, Edge(<<i, k>>, "epsilon", to)) <=>
              \A j \in 1..Len(n) : \A l \in 0..Len(n[j]) : InRun(T, j, l, i, k) => <<<<j, l>>, to>> \in T
         /\ Obeyed(n, T, Edge(<<i, k>>, "non-slash", to)) <=>
              \A j \in 1..Len(n) : \A l \in 0..Len(n[j]) :
                InRun(T, j, l, i, k) /\ l < Len(n[j]) => <<<<j, l + 1>>, to>> \in T
         /\ Obeyed(n, T, Edge(<<i, k>>, "any", to)) <=>
              \A j \in 1..Len(n) : \A l \in 0..Len(n[j]) : InRun(T, j, l, i, k) =>
                /\ l < Len(n[j]) => <<<<j, l + 1>>, to>> \in T
                /\ l = Len(n[j]) /\ j < Len(n) => <<<<j + 1, 0>>, to>> \in T
         /\ Obeyed(n, T, Literal(<<i, k>>, "/", to)) <=>
              \A j \in 1..Len(n) : InRun(T, j, Len(n[j]), i, k) /\ j < Len(n) => <<<<j + 1, 0>>, to>> \in T
         /\ \A c : c # "/" =>
              (Obeyed(n, T, Literal(<<i, k>>, c, to)) <=>
                 \A j \in 1..Len(n) : \A l \in 0..Len(n[j]) :
                   InRun(T, j, l, i, k) /\ l < Len(n[j]) /\ c = n[j][l + 1] => <<<<j, l + 1>>, to>> \in T)
<1>1. Obeyed(n, T, Edge(<<i, k>>, "epsilon", to)) <=>
        \A j \in 1..Len(n) : \A l \in 0..Len(n[j]) : InRun(T, j, l, i, k) => <<<<j, l>>, to>> \in T
  <2>1. ASSUME NEW j, NEW l PROVE EdgeSteps(n, T, j, l, Edge(<<i, k>>, "epsilon", to)) <=> <<<<j, l>>, to>> \in T
    BY EdgeStepsAre
  <2>2. Edge(<<i, k>>, "epsilon", to).from = <<i, k>>
    BY EdgeFields
  <2> QED BY <2>1, <2>2, Zenon DEF Obeyed, InRun
<1>2. Obeyed(n, T, Edge(<<i, k>>, "non-slash", to)) <=>
        \A j \in 1..Len(n) : \A l \in 0..Len(n[j]) :
          InRun(T, j, l, i, k) /\ l < Len(n[j]) => <<<<j, l + 1>>, to>> \in T
  <2>1. ASSUME NEW j, NEW l PROVE EdgeSteps(n, T, j, l, Edge(<<i, k>>, "non-slash", to)) <=> (l < Len(n[j]) => <<<<j, l + 1>>, to>> \in T)
    BY EdgeStepsAre
  <2>2. Edge(<<i, k>>, "non-slash", to).from = <<i, k>>
    BY EdgeFields
  <2> QED BY <2>1, <2>2, Zenon DEF Obeyed, InRun
<1>3. Obeyed(n, T, Edge(<<i, k>>, "any", to)) <=>
        \A j \in 1..Len(n) : \A l \in 0..Len(n[j]) : InRun(T, j, l, i, k) =>
          /\ l < Len(n[j]) => <<<<j, l + 1>>, to>> \in T
          /\ l = Len(n[j]) /\ j < Len(n) => <<<<j + 1, 0>>, to>> \in T
  <2>1. ASSUME NEW j, NEW l PROVE EdgeSteps(n, T, j, l, Edge(<<i, k>>, "any", to)) <=>
          /\ l < Len(n[j]) => <<<<j, l + 1>>, to>> \in T
          /\ l = Len(n[j]) /\ j < Len(n) => <<<<j + 1, 0>>, to>> \in T
    BY EdgeStepsAre
  <2>2. Edge(<<i, k>>, "any", to).from = <<i, k>>
    BY EdgeFields
  <2> QED BY <2>1, <2>2, Zenon DEF Obeyed, InRun
<1>4. ASSUME NEW c
      PROVE  Obeyed(n, T, Literal(<<i, k>>, c, to)) <=>
               \A j \in 1..Len(n) : \A l \in 0..Len(n[j]) : InRun(T, j, l, i, k) =>
                 /\ l < Len(n[j]) /\ c = n[j][l + 1] => <<<<j, l + 1>>, to>> \in T
                 /\ l = Len(n[j]) /\ c = "/" /\ j < Len(n) => <<<<j + 1, 0>>, to>> \in T
  <2>1. ASSUME NEW j, NEW l PROVE EdgeSteps(n, T, j, l, Literal(<<i, k>>, c, to)) <=>
          /\ l < Len(n[j]) /\ c = n[j][l + 1] => <<<<j, l + 1>>, to>> \in T
          /\ l = Len(n[j]) /\ c = "/" /\ j < Len(n) => <<<<j + 1, 0>>, to>> \in T
    BY EdgeStepsAre
  <2>2. Literal(<<i, k>>, c, to).from = <<i, k>>
    BY EdgeFields
  <2> QED BY <2>1, <2>2, Zenon DEF Obeyed, InRun
<1>5. \A j \in 1..Len(n) : /\ Len(n[j]) \in 0..Len(n[j])
                           /\ \A l \in 0..Len(n[j]) : l < Len(n[j]) => n[j][l + 1] # "/"
  <2>1. ASSUME NEW j \in 1..Len(n)
        PROVE  /\ Len(n[j]) \in 0..Len(n[j])
               /\ \A l \in 0..Len(n[j]) : l < Len(n[j]) => n[j][l + 1] # "/"
    <3>1. Len(n[j]) \in Nat
      BY PathFacts
    <3> QED BY <3>1, PathFacts
  <2> QED BY <2>1
<1>6. Obeyed(n, T, Literal(<<i, k>>, "/", to)) <=>
        \A j \in 1..Len(n) : InRun(T, j, Len(n[j]), i, k) /\ j < Len(n) => <<<<j + 1, 0>>, to>> \in T
  BY <1>4, <1>5
<1>7. ASSUME NEW c, c # "/"
      PROVE  Obeyed(n, T, Literal(<<i, k>>, c, to)) <=>
               \A j \in 1..Len(n) : \A l \in 0..Len(n[j]) :
                 InRun(T, j, l, i, k) /\ l < Len(n[j]) /\ c = n[j][l + 1] => <<<<j, l + 1>>, to>> \in T
  BY <1>4, <1>7
<1> QED BY <1>1, <1>2, <1>3, <1>6, <1>7

LEMMA RunClosedBySteps ==
  ASSUME NEW n, IsPath(n), NEW p, IsPattern(p), NEW T
  PROVE  RunClosed(AutomatonOf(p), n, T) <=> SlashStep(p, n, T) /\ LetterStep(p, n, T) /\ GlobstarStep(p, n, T)
<1> DEFINE M == Len(p)
           edges == AutomatonOf(p).edges
<1>0. M \in Nat \ {0} /\ \A i \in 1..M : Len(p[i]) \in Nat /\ \A k \in 1..Len(p[i]) : p[i][k] # "/"
  BY PathFacts DEF IsPattern
<1>1. RunClosed(AutomatonOf(p), n, T) <=> \A e \in edges : Obeyed(n, T, e)
  BY RunClosedByEdges, ZenonT(60) DEF Obeyed
<1> DEFINE slash(i) == Obeyed(n, T, Literal(<<i - 1, Len(p[i - 1])>>, "/", <<i, 0>>))
           letter(i, k) == Obeyed(n, T, Literal(<<i, k - 1>>, p[i][k], <<i, k>>))
           star(i, k) == /\ Obeyed(n, T, Edge(<<i, k - 1>>, "epsilon", <<i, k>>))
                         /\ Obeyed(n, T, Edge(<<i, k - 1>>, "non-slash", <<i, k - 1>>))
           sole(i) == Obeyed(n, T, Edge(<<i, 0>>, "epsilon", <<i, 1>>)) /\ Obeyed(n, T, Edge(<<i, 0>>, "any", <<i, 0>>))
           last(i) == Obeyed(n, T, Edge(<<i, 0>>, "any", <<i, 1>>)) /\ Obeyed(n, T, Edge(<<i, 1>>, "any", <<i, 1>>))
           inner(i) == /\ Obeyed(n, T, Edge(<<i, 0>>, "epsilon", <<i + 1, 0>>))
                       /\ Obeyed(n, T, Edge(<<i, 0>>, "non-slash", <<i, 1>>))
                       /\ Obeyed(n, T, Edge(<<i, 1>>, "non-slash", <<i, 1>>))
                       /\ Obeyed(n, T, Literal(<<i, 1>>, "/", <<i, 0>>))
           globstar(i) == /\ M = 1 => sole(i)
                          /\ M > 1 /\ i = M => last(i)
                          /\ M > 1 /\ i # M => inner(i)
           segment(i) == \A k \in 1..Len(p[i]) : (p[i][k] # "*" => letter(i, k)) /\ (p[i][k] = "*" => star(i, k))
<1>2. (\A e \in edges : Obeyed(n, T, e)) <=>
        \A i \in 1..M : /\ i > 1 /\ p[i - 1] # Globstar => slash(i)
                        /\ p[i] = Globstar => globstar(i)
                        /\ p[i] # Globstar => segment(i)
  <2>1. ASSUME \A e \in edges : Obeyed(n, T, e), NEW i \in 1..M
        PROVE  /\ i > 1 /\ p[i - 1] # Globstar => slash(i)
               /\ p[i] = Globstar => globstar(i)
               /\ p[i] # Globstar => segment(i)
    <3>1. \A e : (/\ i > 1 /\ p[i - 1] # Globstar /\ e = Literal(<<i - 1, Len(p[i - 1])>>, "/", <<i, 0>>))
                 \/ (p[i] = Globstar /\ GlobstarEdge(i, M, e))
                 \/ (p[i] # Globstar /\ SegmentEdge(i, p[i], e)) => Obeyed(n, T, e)
      BY <2>1, EdgesAre, ZenonT(60)
    <3>2. i > 1 /\ p[i - 1] # Globstar => slash(i)
      BY <3>1, ZenonT(60)
    <3>3. p[i] = Globstar => globstar(i)
      BY <3>1, ZenonT(60) DEF GlobstarEdge
    <3>4. p[i] # Globstar => segment(i)
      BY <3>1, ZenonT(60) DEF SegmentEdge
    <3> QED BY <3>2, <3>3, <3>4, ZenonT(60)
  <2>2. ASSUME \A i \in 1..M : /\ i > 1 /\ p[i - 1] # Globstar => slash(i)
                               /\ p[i] = Globstar => globstar(i)
                               /\ p[i] # Globstar => segment(i),
               NEW e \in edges
        PROVE  Obeyed(n, T, e)
    <3>1. PICK i \in 1..M :
             \/ i > 1 /\ p[i - 1] # Globstar /\ e = Literal(<<i - 1, Len(p[i - 1])>>, "/", <<i, 0>>)
             \/ p[i] = Globstar /\ GlobstarEdge(i, M, e)
             \/ p[i] # Globstar /\ SegmentEdge(i, p[i], e)
      BY EdgesAre, ZenonT(60)
    <3>2. /\ i > 1 /\ p[i - 1] # Globstar => slash(i)
          /\ p[i] = Globstar => globstar(i)
          /\ p[i] # Globstar => segment(i)
      BY <2>2, ZenonT(60)
    <3>3. CASE i > 1 /\ p[i - 1] # Globstar /\ e = Literal(<<i - 1, Len(p[i - 1])>>, "/", <<i, 0>>)
      BY <3>2, <3>3, ZenonT(60)
    <3>4. CASE p[i] = Globstar /\ GlobstarEdge(i, M, e)
      BY <3>2, <3>4, ZenonT(60) DEF GlobstarEdge
    <3>5. CASE p[i] # Globstar /\ SegmentEdge(i, p[i], e)
      BY <3>2, <3>5, ZenonT(60) DEF SegmentEdge
    <3> QED BY <3>1, <3>3, <3>4, <3>5, ZenonT(60)
  <2> QED BY <2>1, <2>2, ZenonT(60)
<1>3. SlashStep(p, n, T) <=> \A i \in 1..M : i > 1 /\ p[i - 1] # Globstar => slash(i)
  <2>1. ASSUME NEW i
        PROVE  slash(i) <=> \A j \in 1..Len(n) : InRun(T, j, Len(n[j]), i - 1, Len(p[i - 1])) /\ j < Len(n) => InRun(T, j + 1, 0, i, 0)
    BY ObeyedAre, ZenonT(60) DEF InRun
  <2> HIDE DEF slash
  <2> QED BY <2>1, ZenonT(60) DEF SlashStep
<1>4. LetterStep(p, n, T) <=> \A i \in 1..M : p[i] # Globstar => segment(i)
  <2>1. ASSUME NEW i \in 1..M, NEW k \in 1..Len(p[i])
        PROVE  letter(i, k) <=> \A j \in 1..Len(n) : \A l \in 0..Len(n[j]) :
                 InRun(T, j, l, i, k - 1) /\ l < Len(n[j]) /\ p[i][k] = n[j][l + 1] => InRun(T, j, l + 1, i, k)
    <3>1. p[i][k] # "/"
      BY <1>0
    <3> DEFINE c == p[i][k]
    <3> HIDE DEF c
    <3>2. Obeyed(n, T, Literal(<<i, k - 1>>, c, <<i, k>>)) <=>
            \A j \in 1..Len(n) : \A l \in 0..Len(n[j]) :
              InRun(T, j, l, i, k - 1) /\ l < Len(n[j]) /\ c = n[j][l + 1] => <<<<j, l + 1>>, <<i, k>>>> \in T
      BY <3>1, ObeyedAre DEF c
    <3> QED BY <3>2, ZenonT(60) DEF InRun, c
  <2>2. ASSUME NEW i \in 1..M, NEW k \in 1..Len(p[i])
        PROVE  star(i, k) <=> \A j \in 1..Len(n) : \A l \in 0..Len(n[j]) : InRun(T, j, l, i, k - 1) =>
                 /\ InRun(T, j, l, i, k)
                 /\ l < Len(n[j]) => InRun(T, j, l + 1, i, k - 1)
    <3>1. Obeyed(n, T, Edge(<<i, k - 1>>, "epsilon", <<i, k>>)) <=>
            \A j \in 1..Len(n) : \A l \in 0..Len(n[j]) : InRun(T, j, l, i, k - 1) => InRun(T, j, l, i, k)
      BY ObeyedAre, ZenonT(60) DEF InRun
    <3>2. Obeyed(n, T, Edge(<<i, k - 1>>, "non-slash", <<i, k - 1>>)) <=>
            \A j \in 1..Len(n) : \A l \in 0..Len(n[j]) :
              InRun(T, j, l, i, k - 1) /\ l < Len(n[j]) => <<<<j, l + 1>>, <<i, k - 1>>>> \in T
      BY ObeyedAre
    <3>3. \A j, l : InRun(T, j, l, i, k - 1) <=> <<<<j, l>>, <<i, k - 1>>>> \in T
      BY DEF InRun
    <3> QED BY <3>1, <3>2, <3>3, ZenonT(60)
  <2> HIDE DEF letter, star
  <2>3. ASSUME LetterStep(p, n, T), NEW i \in 1..M, p[i] # Globstar, NEW k \in 1..Len(p[i])
        PROVE  (p[i][k] # "*" => letter(i, k)) /\ (p[i][k] = "*" => star(i, k))
    BY <2>1, <2>2, <2>3, ZenonT(60) DEF LetterStep
  <2>4. ASSUME \A i \in 1..M : p[i] # Globstar => segment(i),
               NEW j \in 1..Len(n), NEW l \in 0..Len(n[j]), NEW i \in 1..M, NEW k \in 1..Len(p[i]),
               p[i] # Globstar, InRun(T, j, l, i, k - 1)
        PROVE  /\ p[i][k] # "*" /\ l < Len(n[j]) /\ p[i][k] = n[j][l + 1] => InRun(T, j, l + 1, i, k)
               /\ p[i][k] = "*" => InRun(T, j, l, i, k)
               /\ p[i][k] = "*" /\ l < Len(n[j]) => InRun(T, j, l + 1, i, k - 1)
    <3>1. (p[i][k] # "*" => letter(i, k)) /\ (p[i][k] = "*" => star(i, k))
      BY <2>4, ZenonT(60)
    <3> QED BY <2>1, <2>2, <2>4, <3>1, ZenonT(60)
  <2>5. ASSUME \A i \in 1..M : p[i] # Globstar => segment(i) PROVE LetterStep(p, n, T)
    <3> HIDE DEF segment
    <3> QED BY <2>4, <2>5, ZenonT(60) DEF LetterStep
  <2> QED BY <2>3, <2>5, ZenonT(60)
<1>5. GlobstarStep(p, n, T) <=> \A i \in 1..M : p[i] = Globstar => globstar(i)
  <2>1. ASSUME NEW i \in 1..M
        PROVE  sole(i) <=> \A j \in 1..Len(n) : \A l \in 0..Len(n[j]) : InRun(T, j, l, i, 0) =>
                 /\ InRun(T, j, l, i, 1)
                 /\ l < Len(n[j]) => InRun(T, j, l + 1, i, 0)
                 /\ l = Len(n[j]) /\ j < Len(n) => InRun(T, j + 1, 0, i, 0)
    <3>1. Obeyed(n, T, Edge(<<i, 0>>, "epsilon", <<i, 1>>)) <=>
            \A j \in 1..Len(n) : \A l \in 0..Len(n[j]) : InRun(T, j, l, i, 0) => InRun(T, j, l, i, 1)
      BY ObeyedAre, ZenonT(60) DEF InRun
    <3>2. Obeyed(n, T, Edge(<<i, 0>>, "any", <<i, 0>>)) <=>
            \A j \in 1..Len(n) : \A l \in 0..Len(n[j]) : InRun(T, j, l, i, 0) =>
                 /\ l < Len(n[j]) => InRun(T, j, l + 1, i, 0)
                 /\ l = Len(n[j]) /\ j < Len(n) => InRun(T, j + 1, 0, i, 0)
      BY ObeyedAre, ZenonT(60) DEF InRun
    <3> QED BY <3>1, <3>2, ZenonT(60)
  <2>2. ASSUME NEW i \in 1..M
        PROVE  last(i) <=> \A j \in 1..Len(n) : \A l \in 0..Len(n[j]) : (InRun(T, j, l, i, 0) \/ InRun(T, j, l, i, 1)) =>
                 /\ l < Len(n[j]) => InRun(T, j, l + 1, i, 1)
                 /\ l = Len(n[j]) /\ j < Len(n) => InRun(T, j + 1, 0, i, 1)
    <3>1. \A k : Obeyed(n, T, Edge(<<i, k>>, "any", <<i, 1>>)) <=>
            \A j \in 1..Len(n) : \A l \in 0..Len(n[j]) : InRun(T, j, l, i, k) =>
                 /\ l < Len(n[j]) => InRun(T, j, l + 1, i, 1)
                 /\ l = Len(n[j]) /\ j < Len(n) => InRun(T, j + 1, 0, i, 1)
      BY ObeyedAre, ZenonT(60) DEF InRun
    <3> QED BY <3>1, ZenonT(60)
  <2>3. ASSUME NEW i \in 1..M
        PROVE  inner(i) <=> \A j \in 1..Len(n) : \A l \in 0..Len(n[j]) :
                 /\ InRun(T, j, l, i, 0) => InRun(T, j, l, i + 1, 0)
                 /\ l < Len(n[j]) /\ (InRun(T, j, l, i, 0) \/ InRun(T, j, l, i, 1)) => InRun(T, j, l + 1, i, 1)
                 /\ l = Len(n[j]) /\ j < Len(n) /\ InRun(T, j, l, i, 1) => InRun(T, j + 1, 0, i, 0)
    <3>1. Obeyed(n, T, Edge(<<i, 0>>, "epsilon", <<i + 1, 0>>)) <=>
            \A j \in 1..Len(n) : \A l \in 0..Len(n[j]) : InRun(T, j, l, i, 0) => InRun(T, j, l, i + 1, 0)
      BY ObeyedAre, ZenonT(60) DEF InRun
    <3>2. \A k : Obeyed(n, T, Edge(<<i, k>>, "non-slash", <<i, 1>>)) <=>
            \A j \in 1..Len(n) : \A l \in 0..Len(n[j]) : InRun(T, j, l, i, k) /\ l < Len(n[j]) => InRun(T, j, l + 1, i, 1)
      BY ObeyedAre, ZenonT(60) DEF InRun
    <3>3. Obeyed(n, T, Literal(<<i, 1>>, "/", <<i, 0>>)) <=>
            \A j \in 1..Len(n) : InRun(T, j, Len(n[j]), i, 1) /\ j < Len(n) => InRun(T, j + 1, 0, i, 0)
      BY ObeyedAre, ZenonT(60) DEF InRun
    <3>4. \A j \in 1..Len(n) : Len(n[j]) \in 0..Len(n[j])
      BY PathFacts
    <3>5. Obeyed(n, T, Literal(<<i, 1>>, "/", <<i, 0>>)) <=>
            \A j \in 1..Len(n) : \A l \in 0..Len(n[j]) : l = Len(n[j]) /\ j < Len(n) /\ InRun(T, j, l, i, 1) => InRun(T, j + 1, 0, i, 0)
      BY <3>3, <3>4, ZenonT(60)
    <3> QED BY <3>1, <3>2, <3>5, ZenonT(60)
  <2>4. \A i \in 1..M : (M > 1 /\ i # M) <=> i < M
    BY <1>0
  <2> HIDE DEF sole, last, inner
  <2> DEFINE step(j, l, i) ==
        /\ M = 1 /\ InRun(T, j, l, i, 0) =>
             /\ InRun(T, j, l, i, 1)
             /\ l < Len(n[j]) => InRun(T, j, l + 1, i, 0)
             /\ l = Len(n[j]) /\ j < Len(n) => InRun(T, j + 1, 0, i, 0)
        /\ M > 1 /\ i = M /\ (InRun(T, j, l, i, 0) \/ InRun(T, j, l, i, 1)) =>
             /\ l < Len(n[j]) => InRun(T, j, l + 1, i, 1)
             /\ l = Len(n[j]) /\ j < Len(n) => InRun(T, j + 1, 0, i, 1)
        /\ i < M =>
             /\ InRun(T, j, l, i, 0) => InRun(T, j, l, i + 1, 0)
             /\ l < Len(n[j]) /\ (InRun(T, j, l, i, 0) \/ InRun(T, j, l, i, 1)) => InRun(T, j, l + 1, i, 1)
             /\ l = Len(n[j]) /\ j < Len(n) /\ InRun(T, j, l, i, 1) => InRun(T, j + 1, 0, i, 0)
  <2>5. GlobstarStep(p, n, T) <=>
          \A i \in 1..M : p[i] = Globstar => \A j \in 1..Len(n) : \A l \in 0..Len(n[j]) : step(j, l, i)
    <3>1. GlobstarStep(p, n, T) <=>
          \A j \in 1..Len(n) : \A l \in 0..Len(n[j]) : \A i \in 1..M : p[i] = Globstar => step(j, l, i)
      BY Zenon DEF GlobstarStep
    <3> HIDE DEF step
    <3> QED BY <3>1, ZenonT(60)
  <2>6. ASSUME NEW i \in 1..M
        PROVE  globstar(i) <=> \A j \in 1..Len(n) : \A l \in 0..Len(n[j]) : step(j, l, i)
    <3>1. CASE M = 1
      <4>1. ~(M > 1) /\ ~(i < M)
        BY <3>1
      <4> QED BY <2>1, <3>1, <4>1, ZenonT(60)
    <3>2. CASE M > 1 /\ i = M
      <4>1. ~(M = 1) /\ ~(i < M)
        BY <1>0, <3>2
      <4> QED BY <2>2, <3>2, <4>1, ZenonT(60)
    <3>3. CASE M > 1 /\ i # M
      <4>1. ~(M = 1) /\ i < M
        BY <1>0, <3>3
      <4> QED BY <2>3, <3>3, <4>1, ZenonT(60)
    <3> QED BY <1>0, <3>1, <3>2, <3>3
  <2> HIDE DEF globstar, step
  <2> QED BY <2>5, <2>6, ZenonT(60)
<1> HIDE DEF edges, slash, segment, globstar
<1> QED BY <1>1, <1>2, <1>3, <1>4, <1>5, ZenonT(60)

-----------------------------------------------------------------------------
(* What the matcher matches, the automaton accepts.                        *)

LEMMA CompleteFacts ==
  ASSUME NEW n, IsPath(n), NEW p, IsPattern(p), NEW T, CompleteRun(AutomatonOf(p), n, T)
  PROVE  InRun(T, 1, 0, 1, 0) /\ SlashStep(p, n, T) /\ LetterStep(p, n, T) /\ GlobstarStep(p, n, T)
BY RunClosedBySteps DEF CompleteRun, InRun, AtStart, InitialState

(* A run that enters a segment whose name matches leaves it at its end.    *)
LEMMA SegmentRun ==
  ASSUME NEW n, IsPath(n), NEW p, IsPattern(p), NEW T, LetterStep(p, n, T),
         NEW j \in 1..Len(n), NEW i \in 1..Len(p), p[i] # Globstar,
         InRun(T, j, 0, i, 0), SegmentMatches(p[i], n[j])
  PROVE  InRun(T, j, Len(n[j]), i, Len(p[i]))
<1> DEFINE s == p[i]
           name == n[j]
           in(k, l) == InRun(T, j, l, i, k) /\ (k > 0 /\ s[k] = "*" => InRun(T, j, l, i, k - 1))
           R == {c \in Cells(s, name) : in(c[1], c[2])}
<1>1. s \in Seq(Letter) /\ name \in Seq(Letter) /\ Len(s) \in Nat /\ Len(name) \in Nat
  BY PathFacts DEF IsPattern
<1>2. ASSUME NEW l \in 0..Len(name), NEW k \in 1..Len(s), InRun(T, j, l, i, k - 1)
      PROVE  /\ s[k] # "*" /\ l < Len(name) /\ s[k] = name[l + 1] => InRun(T, j, l + 1, i, k)
             /\ s[k] = "*" => InRun(T, j, l, i, k)
             /\ s[k] = "*" /\ l < Len(name) => InRun(T, j, l + 1, i, k - 1)
  BY <1>2 DEF LetterStep
<1>3. ASSUME NEW k, NEW l PROVE <<k, l>> \in R <=> k \in 0..Len(s) /\ l \in 0..Len(name) /\ in(k, l)
  <2> HIDE DEF in
  <2> QED BY DEF Cells
<1> HIDE DEF s, name, R
<1>4. ASSUME NEW k \in 0..Len(s), NEW l \in 0..Len(name), <<k, l>> \in R
      PROVE  /\ k < Len(s) /\ s[k + 1] = "*" => <<k + 1, l>> \in R
             /\ k > 0 /\ s[k] = "*" /\ l < Len(name) => <<k, l + 1>> \in R
             /\ k < Len(s) /\ l < Len(name) /\ s[k + 1] # "*" /\ s[k + 1] = name[l + 1] => <<k + 1, l + 1>> \in R
  <2>1. InRun(T, j, l, i, k) /\ (k > 0 /\ s[k] = "*" => InRun(T, j, l, i, k - 1))
    BY <1>3, <1>4
  <2>2. ASSUME k < Len(s) /\ s[k + 1] = "*" PROVE <<k + 1, l>> \in R
    <3>1. k + 1 \in 1..Len(s) /\ (k + 1) - 1 = k /\ k + 1 \in 0..Len(s)
      BY <1>1, <2>2
    <3>2. InRun(T, j, l, i, k + 1)
      BY <1>2, <2>1, <2>2, <3>1
    <3>3. in(k + 1, l)
      BY <2>1, <3>1, <3>2
    <3> QED BY <1>3, <2>2, <3>1, <3>3
  <2>3. ASSUME k > 0 /\ s[k] = "*" /\ l < Len(name) PROVE <<k, l + 1>> \in R
    <3>1. k \in 1..Len(s) /\ l + 1 \in 0..Len(name) /\ InRun(T, j, l, i, k - 1)
      BY <1>1, <2>1, <2>3
    <3>2. InRun(T, j, l + 1, i, k - 1)
      BY <1>2, <2>3, <3>1
    <3>3. InRun(T, j, l + 1, i, k)
      BY <1>2, <2>3, <3>1, <3>2
    <3> QED BY <1>3, <3>1, <3>2, <3>3
  <2>4. ASSUME k < Len(s) /\ l < Len(name) /\ s[k + 1] # "*" /\ s[k + 1] = name[l + 1] PROVE <<k + 1, l + 1>> \in R
    <3>1. k + 1 \in 1..Len(s) /\ (k + 1) - 1 = k /\ k + 1 \in 0..Len(s) /\ l + 1 \in 0..Len(name)
      BY <1>1, <2>4
    <3>2. InRun(T, j, l + 1, i, k + 1)
      BY <1>2, <2>1, <2>4, <3>1
    <3> QED BY <1>3, <2>4, <3>1, <3>2
  <2> HIDE DEF in
  <2> QED BY <2>2, <2>3, <2>4
<1>5. SegmentClosed(s, name, R)
  <2> HIDE DEF in
  <2> QED BY <1>4 DEF SegmentClosed
<1>6. <<0, 0>> \in R
  BY <1>1, <1>3
<1>7. R \in SUBSET Cells(s, name)
  BY DEF R
<1>8. SegmentTable(s, name) \subseteq R
  BY <1>1, <1>5, <1>6, <1>7, SegmentTableFacts
<1>9. <<Len(s), Len(name)>> \in R
  BY <1>1, <1>8, SegmentMatchesByTable DEF s, name
<1>10. InRun(T, j, Len(name), i, Len(s))
  BY <1>3, <1>9
<1> QED BY <1>10 DEF s, name

(* A "**" that is not alone passes over the rest of a segment.             *)
LEMMA GlobstarRun ==
  ASSUME NEW n, IsPath(n), NEW p, IsPattern(p), NEW T, GlobstarStep(p, n, T),
         NEW j \in 1..Len(n), NEW i \in 1..Len(p), p[i] = Globstar, Len(p) > 1,
         InRun(T, j, 0, i, 0) \/ InRun(T, j, 0, i, 1)
  PROVE  InRun(T, j, Len(n[j]), i, 1)
<1>1. Len(n[j]) \in Nat \ {0} /\ Len(p) \in Nat \ {0}
  BY PathFacts DEF IsPattern
<1>2. ASSUME NEW l \in 0..Len(n[j]), l < Len(n[j]), InRun(T, j, l, i, 0) \/ InRun(T, j, l, i, 1)
      PROVE  InRun(T, j, l + 1, i, 1)
  <2>1. i = Len(p) \/ i < Len(p)
    BY <1>1
  <2> QED BY <1>2, <2>1 DEF GlobstarStep
<1> DEFINE S == {l \in 1..Len(n[j]) : InRun(T, j, l, i, 1)}
<1>3. 1 \in S
  <2>1. 0 \in 0..Len(n[j]) /\ 0 < Len(n[j]) /\ 0 + 1 = 1 /\ 1 \in 1..Len(n[j])
    BY <1>1
  <2> QED BY <1>2, <2>1
<1>4. ASSUME NEW l \in 1..Len(n[j]), l \in S, l < Len(n[j]) PROVE l + 1 \in S
  <2>1. l \in 0..Len(n[j]) /\ l + 1 \in 1..Len(n[j]) /\ InRun(T, j, l, i, 1)
    BY <1>1, <1>4
  <2>2. InRun(T, j, l + 1, i, 1)
    BY <1>2, <1>4, <2>1
  <2> QED BY <2>1, <2>2
<1>5. \A l \in 1..Len(n[j]) : l \in S
  <2> HIDE DEF S
  <2> QED BY <1>1, <1>3, <1>4, Climb
<1> QED BY <1>1, <1>5

(* A "**" that is alone passes over everything.                            *)
LEMMA SoleGlobstarRun ==
  ASSUME NEW n, IsPath(n), NEW T, InRun(T, 1, 0, 1, 0), GlobstarStep(<<Globstar>>, n, T)
  PROVE  InRun(T, Len(n), Len(n[Len(n)]), 1, 1)
<1> DEFINE N == Len(n)
<1>1. N \in Nat \ {0} /\ \A j \in 1..N : Len(n[j]) \in Nat \ {0}
  BY PathFacts
<1>2. ASSUME NEW j \in 1..N, NEW l \in 0..Len(n[j]), InRun(T, j, l, 1, 0)
      PROVE  /\ InRun(T, j, l, 1, 1)
             /\ l < Len(n[j]) => InRun(T, j, l + 1, 1, 0)
             /\ l = Len(n[j]) /\ j < Len(n) => InRun(T, j + 1, 0, 1, 0)
  <2>1. Len(<<Globstar>>) = 1 /\ 1 \in 1..1 /\ <<Globstar>>[1] = Globstar
    OBVIOUS
  <2> QED BY <1>2, <2>1, Zenon DEF GlobstarStep
<1>3. ASSUME NEW j \in 1..N, InRun(T, j, 0, 1, 0) PROVE InRun(T, j, Len(n[j]), 1, 0)
  <2> DEFINE S == {l \in 0..Len(n[j]) : InRun(T, j, l, 1, 0)}
  <2>1. 0 \in S
    BY <1>1, <1>3
  <2>2. ASSUME NEW l \in 0..Len(n[j]), l \in S, l < Len(n[j]) PROVE l + 1 \in S
    <3>1. l + 1 \in 0..Len(n[j])
      BY <1>1, <2>2
    <3> QED BY <1>2, <2>2, <3>1
  <2>3. \A l \in 0..Len(n[j]) : l \in S
    <3> HIDE DEF S
    <3> QED BY <1>1, <2>1, <2>2, Climb
  <2> QED BY <1>1, <2>3
<1> DEFINE S == {j \in 1..N : InRun(T, j, 0, 1, 0)}
<1>4. 1 \in S
  BY <1>1
<1>5. ASSUME NEW j \in 1..N, j \in S, j < N PROVE j + 1 \in S
  <2>1. InRun(T, j, Len(n[j]), 1, 0) /\ Len(n[j]) \in 0..Len(n[j]) /\ j + 1 \in 1..N
    BY <1>1, <1>3, <1>5
  <2> QED BY <1>2, <1>5, <2>1
<1>6. \A j \in 1..N : j \in S
  <2> HIDE DEF S
  <2> QED BY <1>1, <1>4, <1>5, Climb
<1>7. N \in 1..N /\ Len(n[N]) \in 0..Len(n[N])
  BY <1>1
<1>8. InRun(T, N, Len(n[N]), 1, 0)
  BY <1>3, <1>6, <1>7
<1> QED BY <1>2, <1>7, <1>8

(* What a run has behind it where the matcher has matched the first i      *)
(* segments of the pattern with the first j of the path.                   *)
StandsAt(p, n, T, i, j) ==
  /\ i = 0 => j = 0
  /\ i > 0 /\ p[i] # Globstar => j > 0 /\ InRun(T, j, Len(n[j]), i, Len(p[i]))
  /\ i > 0 /\ p[i] = Globstar /\ i < Len(p) /\ j < Len(n) => InRun(T, j + 1, 0, i, 0)
  /\ i > 0 /\ p[i] = Globstar /\ i = Len(p) => j > 0 /\ InRun(T, j, Len(n[j]), i, 1)

(* From there a run can enter the next segments.                           *)
LEMMA Enters ==
  ASSUME NEW n, IsPath(n), NEW p, IsPattern(p), NEW T,
         InRun(T, 1, 0, 1, 0), SlashStep(p, n, T), GlobstarStep(p, n, T),
         NEW i \in 0..Len(p), NEW j \in 0..Len(n), i < Len(p), j < Len(n), StandsAt(p, n, T, i, j)
  PROVE  InRun(T, j + 1, 0, i + 1, 0)
<1>1. /\ Len(p) \in Nat \ {0} /\ Len(n) \in Nat \ {0} /\ i + 1 \in 1..Len(p) /\ (i + 1) - 1 = i
      /\ j + 1 \in 1..Len(n)
  BY PathFacts DEF IsPattern
<1>2. CASE i = 0
  <2>1. j = 0
    BY <1>2 DEF StandsAt
  <2> QED BY <1>2, <2>1
<1>3. CASE i > 0 /\ p[i] # Globstar
  <2>1. j > 0 /\ InRun(T, j, Len(n[j]), i, Len(p[i]))
    BY <1>3 DEF StandsAt
  <2>2. j \in 1..Len(n) /\ i + 1 > 1
    BY <1>1, <1>3, <2>1
  <2> QED BY <1>1, <1>3, <2>1, <2>2 DEF SlashStep
<1>4. CASE i > 0 /\ p[i] = Globstar
  <2>1. InRun(T, j + 1, 0, i, 0)
    BY <1>4 DEF StandsAt
  <2>2. i \in 1..Len(p) /\ 0 \in 0..Len(n[j + 1])
    BY <1>1, <1>4, PathFacts
  <2> QED BY <1>1, <1>4, <2>1, <2>2 DEF GlobstarStep
<1> QED BY <1>2, <1>3, <1>4

LEMMA StandsIsClosed ==
  ASSUME NEW n, IsPath(n), NEW p, IsPattern(p), p # <<Globstar>>, NEW T,
         InRun(T, 1, 0, 1, 0), SlashStep(p, n, T), LetterStep(p, n, T), GlobstarStep(p, n, T),
         NEW i \in 0..Len(p), NEW j \in 0..Len(n), StandsAt(p, n, T, i, j)
  PROVE  /\ i < Len(p) /\ j < Len(n) /\ p[i + 1] # Globstar /\ SegmentMatches(p[i + 1], n[j + 1]) =>
              StandsAt(p, n, T, i + 1, j + 1)
         /\ i + 1 < Len(p) /\ p[i + 1] = Globstar => StandsAt(p, n, T, i + 1, j)
         /\ i > 0 /\ p[i] = Globstar /\ j < Len(n) => StandsAt(p, n, T, i, j + 1)
         /\ i + 1 = Len(p) /\ p[i + 1] = Globstar /\ j < Len(n) => StandsAt(p, n, T, i + 1, j + 1)
<1>1. Len(p) \in Nat \ {0} /\ Len(n) \in Nat \ {0}
  BY PathFacts DEF IsPattern
<1>2. ASSUME NEW k \in 1..Len(p), p[k] = Globstar PROVE Len(p) > 1
  <2>1. ASSUME Len(p) = 1 PROVE FALSE
    <3>1. p = <<p[1]>> /\ k = 1
      BY <1>2, <2>1 DEF IsPattern, IsPath
    <3> QED BY <1>2, <3>1
  <2>2. \A m \in Nat \ {0} : m # 1 => m > 1
    OBVIOUS
  <2> QED BY <1>1, <2>1, <2>2, Zenon
<1>3. ASSUME i < Len(p), j < Len(n), p[i + 1] # Globstar, SegmentMatches(p[i + 1], n[j + 1])
      PROVE  StandsAt(p, n, T, i + 1, j + 1)
  <2>1. i + 1 \in 1..Len(p) /\ j + 1 \in 1..Len(n)
    BY <1>1, <1>3
  <2>2. InRun(T, j + 1, 0, i + 1, 0)
    BY <1>3, Enters
  <2>3. InRun(T, j + 1, Len(n[j + 1]), i + 1, Len(p[i + 1]))
    BY <1>3, <2>1, <2>2, SegmentRun
  <2> QED BY <1>3, <2>1, <2>3 DEF StandsAt
<1>4. ASSUME i + 1 < Len(p), p[i + 1] = Globstar PROVE StandsAt(p, n, T, i + 1, j)
  <2>1. j < Len(n) => InRun(T, j + 1, 0, i + 1, 0)
    BY <1>1, <1>4, Enters
  <2> QED BY <1>1, <1>4, <2>1 DEF StandsAt
<1>5. ASSUME i > 0, p[i] = Globstar, j < Len(n), i < Len(p) PROVE StandsAt(p, n, T, i, j + 1)
  <2>1. i \in 1..Len(p) /\ j + 1 \in 1..Len(n) /\ Len(n[j + 1]) \in 0..Len(n[j + 1])
    BY <1>1, <1>5, PathFacts
  <2>2. InRun(T, j + 1, 0, i, 0)
    BY <1>5 DEF StandsAt
  <2>3. InRun(T, j + 1, Len(n[j + 1]), i, 1)
    BY <1>2, <1>5, <2>1, <2>2, GlobstarRun
  <2>4. j + 1 < Len(n) => InRun(T, (j + 1) + 1, 0, i, 0)
    BY <1>5, <2>1, <2>3 DEF GlobstarStep
  <2> QED BY <1>1, <1>5, <2>4 DEF StandsAt
<1>6. ASSUME i > 0, p[i] = Globstar, j < Len(n), i = Len(p) PROVE StandsAt(p, n, T, i, j + 1)
  <2>1. j > 0 /\ InRun(T, j, Len(n[j]), i, 1)
    BY <1>6 DEF StandsAt
  <2>2. i \in 1..Len(p) /\ j \in 1..Len(n) /\ j + 1 \in 1..Len(n) /\ Len(n[j]) \in 0..Len(n[j])
    BY <1>1, <1>6, <2>1, PathFacts
  <2>3. InRun(T, j + 1, 0, i, 1)
    BY <1>2, <1>6, <2>1, <2>2 DEF GlobstarStep
  <2>4. InRun(T, j + 1, Len(n[j + 1]), i, 1)
    BY <1>2, <1>6, <2>2, <2>3, GlobstarRun
  <2> QED BY <1>6, <2>2, <2>4 DEF StandsAt
<1>7. ASSUME i + 1 = Len(p), p[i + 1] = Globstar, j < Len(n) PROVE StandsAt(p, n, T, i + 1, j + 1)
  <2>1. i + 1 \in 1..Len(p) /\ j + 1 \in 1..Len(n) /\ i < Len(p)
    BY <1>1, <1>7
  <2>2. InRun(T, j + 1, 0, i + 1, 0)
    BY <1>7, <2>1, Enters
  <2>3. InRun(T, j + 1, Len(n[j + 1]), i + 1, 1)
    BY <1>2, <1>7, <2>1, <2>2, GlobstarRun
  <2> QED BY <1>7, <2>1, <2>3 DEF StandsAt
<1>8. i < Len(p) \/ i = Len(p)
  BY <1>1
<1> QED BY <1>3, <1>4, <1>5, <1>6, <1>7, <1>8, Zenon

MatchesSegments(p, n) == p = <<Globstar>> \/ <<Len(p), Len(n)>> \in PathTable(p, n)

LEMMA MatchedIsAccepted ==
  ASSUME NEW n, IsPath(n), NEW p, IsPattern(p), MatchesSegments(p, n)
  PROVE  AcceptsText(AutomatonOf(p), n)
<1>1. Len(p) \in Nat \ {0} /\ Len(n) \in Nat \ {0} /\ Len(n[Len(n)]) \in Nat \ {0}
  BY PathFacts DEF IsPattern
<1>2. ASSUME NEW T, CompleteRun(AutomatonOf(p), n, T)
      PROVE  <<AtEnd(n), <<Len(p), SegmentSize(p[Len(p)])>>>> \in T
  <2>1. InRun(T, 1, 0, 1, 0) /\ SlashStep(p, n, T) /\ LetterStep(p, n, T) /\ GlobstarStep(p, n, T)
    BY <1>2, CompleteFacts
  <2>2. CASE p = <<Globstar>>
    <3>1. Len(p) = 1 /\ SegmentSize(p[Len(p)]) = 1
      BY <2>2 DEF SegmentSize
    <3>2. InRun(T, Len(n), Len(n[Len(n)]), 1, 1)
      BY <2>1, <2>2, SoleGlobstarRun
    <3> QED BY <3>1, <3>2 DEF InRun, AtEnd
  <2>3. CASE p # <<Globstar>>
    <3> DEFINE R == {c \in Cells(p, n) : StandsAt(p, n, T, c[1], c[2])}
    <3>1. ASSUME NEW i, NEW j PROVE <<i, j>> \in R <=> i \in 0..Len(p) /\ j \in 0..Len(n) /\ StandsAt(p, n, T, i, j)
      BY DEF Cells
    <3>2. R \in SUBSET Cells(p, n)
      OBVIOUS
    <3> HIDE DEF R
    <3>3. <<0, 0>> \in R
      <4>1. StandsAt(p, n, T, 0, 0)
        BY DEF StandsAt
      <4> QED BY <1>1, <3>1, <4>1
    <3>4. ASSUME NEW i \in 0..Len(p), NEW j \in 0..Len(n), <<i, j>> \in R
          PROVE  /\ i < Len(p) /\ j < Len(n) /\ p[i + 1] # Globstar /\ SegmentMatches(p[i + 1], n[j + 1]) => <<i + 1, j + 1>> \in R
                 /\ i + 1 < Len(p) /\ p[i + 1] = Globstar => <<i + 1, j>> \in R
                 /\ i > 0 /\ p[i] = Globstar /\ j < Len(n) => <<i, j + 1>> \in R
                 /\ i + 1 = Len(p) /\ p[i + 1] = Globstar /\ j < Len(n) => <<i + 1, j + 1>> \in R
      <4>1. /\ i < Len(p) /\ j < Len(n) /\ p[i + 1] # Globstar /\ SegmentMatches(p[i + 1], n[j + 1]) =>
                 StandsAt(p, n, T, i + 1, j + 1)
            /\ i + 1 < Len(p) /\ p[i + 1] = Globstar => StandsAt(p, n, T, i + 1, j)
            /\ i > 0 /\ p[i] = Globstar /\ j < Len(n) => StandsAt(p, n, T, i, j + 1)
            /\ i + 1 = Len(p) /\ p[i + 1] = Globstar /\ j < Len(n) => StandsAt(p, n, T, i + 1, j + 1)
        <5>1. StandsAt(p, n, T, i, j)
          BY <3>1, <3>4
        <5> QED BY <2>1, <2>3, <5>1, StandsIsClosed
      <4>2. /\ i < Len(p) => i + 1 \in 0..Len(p)
            /\ i + 1 < Len(p) => i + 1 \in 0..Len(p)
            /\ i + 1 = Len(p) => i + 1 \in 0..Len(p)
            /\ j < Len(n) => j + 1 \in 0..Len(n)
        BY <1>1
      <4> QED BY <3>1, <4>1, <4>2, Zenon
    <3>5. PathClosed(p, n, R)
      BY <3>4, Zenon DEF PathClosed
    <3>6. PathTable(p, n) \subseteq R
      BY <3>2, <3>3, <3>5, PathTableFacts DEF IsPattern, IsPath
    <3>7. StandsAt(p, n, T, Len(p), Len(n))
      BY <2>3, <3>1, <3>6 DEF MatchesSegments
    <3>8. InRun(T, Len(n), Len(n[Len(n)]), Len(p), SegmentSize(p[Len(p)]))
      BY <1>1, <3>7 DEF StandsAt, SegmentSize
    <3> QED BY <3>8 DEF InRun, AtEnd
  <2> QED BY <2>2, <2>3
<1>3. <<AtEnd(n), <<Len(p), SegmentSize(p[Len(p)])>>>> \in Positions(n) \X AutomatonOf(p).states
  <2>1. <<Len(p), SegmentSize(p[Len(p)])>> \in AutomatonOf(p).states
    <3>1. Len(p) \in 1..Len(p) /\ SegmentSize(p[Len(p)]) \in 0..SegmentSize(p[Len(p)])
      BY <1>1, PathFacts DEF SegmentSize, IsPattern
    <3> QED BY <3>1, StatesAre
  <2> QED BY <2>1, PositionFacts
<1>4. AutomatonOf(p).accept = <<Len(p), SegmentSize(p[Len(p)])>>
  BY DEF AutomatonOf
<1> QED BY <1>2, <1>3, <1>4 DEF AcceptsText, RunOf

-----------------------------------------------------------------------------
(* Two automata that accept one path share it                              *)

IsAutomaton(a) ==
  /\ IsFiniteSet(a.states) /\ InitialState \in a.states
  /\ \A e \in a.edges : e.from \in a.states /\ e.to \in a.states

LEMMA PatternsHaveAutomata ==
  ASSUME NEW p, IsPattern(p)
  PROVE  IsAutomaton(AutomatonOf(p))
<1> DEFINE M == Len(p)
           states == AutomatonOf(p).states
<1>1. M \in Nat \ {0} /\ DOMAIN p = 1..M /\ \A i \in 1..M : Len(p[i]) \in Nat \ {0} /\ SegmentSize(p[i]) \in Nat \ {0}
  BY PathFacts DEF IsPattern, SegmentSize
<1>2. IsFiniteSet(states)
  <2> DEFINE row == [i \in 1..M |-> {i} \X (0..SegmentSize(p[i]))]
             rows == {row[i] : i \in 1..M}
  <2>1. IsFiniteSet(rows)
    <3>1. row \in Surjection(1..M, rows)
      <4> HIDE DEF states
      <4> QED BY DEF Surjection
    <3>2. IsFiniteSet(1..M)
      BY <1>1, FS_Interval
    <3> HIDE DEF row, rows
    <3> QED BY <3>1, <3>2, FS_Surjection
  <2>2. \A r \in rows : IsFiniteSet(r)
    <3>1. ASSUME NEW i \in 1..M PROVE IsFiniteSet({i} \X (0..SegmentSize(p[i])))
      <4>1. IsFiniteSet({i})
        BY FS_Singleton
      <4>2. SegmentSize(p[i]) \in Int
        BY <1>1
      <4>3. IsFiniteSet(0..SegmentSize(p[i]))
        BY <4>2, FS_Interval
      <4> QED BY <4>1, <4>3, FS_Product
    <3> QED BY <3>1
  <2>3. states = UNION rows
    BY <1>1 DEF AutomatonOf
  <2> HIDE DEF rows
  <2> QED BY <2>1, <2>2, <2>3, FS_UNION
<1>3. ASSUME NEW i \in 1..M, NEW k \in 0..SegmentSize(p[i]) PROVE <<i, k>> \in states
  BY StatesAre
<1>4. InitialState \in states
  <2>1. 1 \in 1..M /\ 0 \in 0..SegmentSize(p[1])
    BY <1>1
  <2> QED BY <1>3, <2>1 DEF InitialState
<1>5. ASSUME NEW e \in AutomatonOf(p).edges PROVE e.from \in states /\ e.to \in states
  <2>1. PICK i \in 1..M :
             \/ i > 1 /\ p[i - 1] # Globstar /\ e = Literal(<<i - 1, Len(p[i - 1])>>, "/", <<i, 0>>)
             \/ p[i] = Globstar /\ GlobstarEdge(i, M, e)
             \/ p[i] # Globstar /\ SegmentEdge(i, p[i], e)
    BY EdgesAre
  <2>2. 0 \in 0..SegmentSize(p[i])
    BY <1>1
  <2>3. CASE i > 1 /\ p[i - 1] # Globstar /\ e = Literal(<<i - 1, Len(p[i - 1])>>, "/", <<i, 0>>)
    <3>1. i - 1 \in 1..M /\ Len(p[i - 1]) \in 0..SegmentSize(p[i - 1])
      BY <1>1, <2>3 DEF SegmentSize
    <3> QED BY <1>3, <2>2, <2>3, <3>1, EdgeFields
  <2>4. CASE p[i] = Globstar /\ GlobstarEdge(i, M, e)
    <3>1. 1 \in 0..SegmentSize(p[i])
      BY <1>1
    <3>2. ASSUME i # M PROVE i + 1 \in 1..M /\ 0 \in 0..SegmentSize(p[i + 1])
      <4>1. i + 1 \in 1..M
        <5>1. \A m \in Nat : \A x \in 1..m : x # m => x + 1 \in 1..m
          OBVIOUS
        <5> HIDE DEF M
        <5> QED BY <1>1, <3>2, <5>1
      <4>2. SegmentSize(p[i + 1]) \in Nat
        BY <1>1, <4>1
      <4> QED BY <4>1, <4>2
    <3>3. <<i, 0>> \in states /\ <<i, 1>> \in states /\ (i # M => <<i + 1, 0>> \in states)
      BY <1>3, <2>2, <3>1, <3>2
    <3> HIDE DEF states
    <3>4. PICK from, kind, value, to : /\ from \in states /\ to \in states
                                       /\ e = Edge(from, kind, to) \/ e = Literal(from, value, to)
      BY <2>4, <3>3, Zenon DEF GlobstarEdge
    <3> QED BY <3>4, EdgeFields
  <2>5. CASE p[i] # Globstar /\ SegmentEdge(i, p[i], e)
    <3>1. PICK k \in 1..Len(p[i]) :
            \/ p[i][k] # "*" /\ e = Literal(<<i, k - 1>>, p[i][k], <<i, k>>)
            \/ p[i][k] = "*" /\ (e = Edge(<<i, k - 1>>, "epsilon", <<i, k>>) \/ e = Edge(<<i, k - 1>>, "non-slash", <<i, k - 1>>))
      BY <2>5 DEF SegmentEdge
    <3>2. k \in 0..SegmentSize(p[i]) /\ k - 1 \in 0..SegmentSize(p[i])
      BY <1>1, <2>5 DEF SegmentSize
    <3>3. <<i, k>> \in states /\ <<i, k - 1>> \in states
      BY <1>3, <3>2
    <3> HIDE DEF states
    <3> QED BY <3>1, <3>3, EdgeFields
  <2> QED BY <2>1, <2>3, <2>4, <2>5
<1> QED BY <1>2, <1>4, <1>5 DEF IsAutomaton

(* A path is read forwards: no position comes after two others, and none   *)
(* before the first.                                                       *)
LEMMA NextPositionFacts ==
  ASSUME NEW n, IsPath(n), NEW x \in Positions(n)
  PROVE  /\ NextPosition(n, x) # AtStart
         /\ x # AtEnd(n) => NextPosition(n, x) \in Positions(n)
         /\ \A y \in Positions(n) : NextPosition(n, x) = NextPosition(n, y) => x = y
<1>1. Len(n) \in Nat \ {0} /\ \A j \in 1..Len(n) : Len(n[j]) \in Nat \ {0}
  BY PathFacts
<1>2. \A y \in Positions(n) : y = <<y[1], y[2]>> /\ y[1] \in 1..Len(n) /\ y[2] \in 0..Len(n[y[1]])
  BY PositionFacts
<1>3. \A y \in Positions(n) : IF y[2] < Len(n[y[1]]) THEN NextPosition(n, y) = <<y[1], y[2] + 1>>
                              ELSE NextPosition(n, y) = <<y[1] + 1, 0>> /\ y[2] = Len(n[y[1]])
  BY <1>1, <1>2 DEF NextPosition
<1>4. NextPosition(n, x) # AtStart
  BY <1>1, <1>2, <1>3 DEF AtStart
<1>5. ASSUME x # AtEnd(n) PROVE NextPosition(n, x) \in Positions(n)
  <2>1. x[2] < Len(n[x[1]]) \/ x[1] < Len(n)
    BY <1>2, <1>5, PositionFacts
  <2>2. CASE x[2] < Len(n[x[1]])
    <3>1. x[2] + 1 \in 0..Len(n[x[1]])
      BY <1>1, <1>2, <2>2
    <3> QED BY <1>2, <1>3, <2>2, <3>1, PositionFacts
  <2>3. CASE ~(x[2] < Len(n[x[1]]))
    <3>1. x[1] + 1 \in 1..Len(n)
      BY <1>1, <1>2, <2>1, <2>3
    <3>2. 0 \in 0..Len(n[x[1] + 1])
      BY <1>1, <3>1
    <3> QED BY <1>3, <2>3, <3>1, <3>2, PositionFacts, SMTT(30)
  <2> QED BY <2>2, <2>3
<1>6. ASSUME NEW y \in Positions(n), NextPosition(n, x) = NextPosition(n, y) PROVE x = y
  <2>1. x[1] \in Nat /\ y[1] \in Nat /\ x[2] \in Nat /\ y[2] \in Nat
    BY <1>1, <1>2
  <2>2. x[1] = y[1] /\ x[2] = y[2]
    BY <1>3, <1>6, <2>1
  <2> QED BY <1>2, <2>2
<1> QED BY <1>4, <1>5, <1>6

(* What an automaton gets to is complete, and in whatever is.              *)
LEMMA RunFacts ==
  ASSUME NEW n, IsPath(n), NEW a, IsAutomaton(a)
  PROVE  CompleteRun(a, n, RunOf(a, n)) /\ \A T : CompleteRun(a, n, T) => RunOf(a, n) \subseteq T
<1> DEFINE all == Positions(n) \X a.states
<1>1. RunOf(a, n) \in SUBSET all
  BY DEF RunOf
<1>2. <<AtStart, InitialState>> \in RunOf(a, n)
  BY PositionFacts DEF RunOf, CompleteRun, IsAutomaton
<1>3. ASSUME NEW x \in Positions(n), NEW e \in a.edges, <<x, e.from>> \in RunOf(a, n)
      PROVE  /\ e.kind = "epsilon" => <<x, e.to>> \in RunOf(a, n)
             /\ e.kind # "epsilon" /\ x # AtEnd(n) /\ Reads(e, SymbolAt(n, x)) => <<NextPosition(n, x), e.to>> \in RunOf(a, n)
  <2>1. e.to \in a.states
    BY DEF IsAutomaton
  <2>2. ASSUME NEW T, CompleteRun(a, n, T)
        PROVE  /\ e.kind = "epsilon" => <<x, e.to>> \in T
               /\ e.kind # "epsilon" /\ x # AtEnd(n) /\ Reads(e, SymbolAt(n, x)) => <<NextPosition(n, x), e.to>> \in T
    BY <1>3, <2>2 DEF RunOf, CompleteRun, RunClosed
  <2>3. x # AtEnd(n) => NextPosition(n, x) \in Positions(n)
    BY NextPositionFacts
  <2> QED BY <2>1, <2>2, <2>3, Zenon DEF RunOf
<1>4. RunClosed(a, n, RunOf(a, n))
  BY <1>3 DEF RunClosed
<1>5. \A T : CompleteRun(a, n, T) => RunOf(a, n) \subseteq T
  BY DEF RunOf
<1> QED BY <1>1, <1>2, <1>4, <1>5 DEF CompleteRun

(* Edges that read one symbol meet.                                        *)
LEMMA EdgesThatReadOneSymbolMeet ==
  \A left, right, c : Reads(left, c) /\ Reads(right, c) => EdgesMeet(left, right)
BY DEF Reads, EdgesMeet

MeetingPairs(a, b) == Reachable(PairMoves(a, b), {<<InitialState, InitialState>>})

(* What the search for a common path reaches is the least set of pairs that *)
(* holds the initial one and goes on along silent edges and pairs of edges  *)
(* that meet.                                                               *)
PairsClosed(a, b, C) ==
  \A s \in a.states : \A t \in b.states : <<s, t>> \in C =>
    /\ \A e \in a.edges : e.kind = "epsilon" /\ e.from = s => <<e.to, t>> \in C
    /\ \A f \in b.edges : f.kind = "epsilon" /\ f.from = t => <<s, f.to>> \in C
    /\ \A e \in a.edges : \A f \in b.edges :
         e.kind # "epsilon" /\ e.from = s /\ f.kind # "epsilon" /\ f.from = t /\ EdgesMeet(e, f) =>
           <<e.to, f.to>> \in C

LEMMA PairsFacts ==
  ASSUME NEW a, IsAutomaton(a), NEW b, IsAutomaton(b)
  PROVE  /\ <<InitialState, InitialState>> \in MeetingPairs(a, b)
         /\ \A s \in a.states : \A t \in b.states : <<s, t>> \in MeetingPairs(a, b) =>
              /\ \A e \in a.edges : e.kind = "epsilon" /\ e.from = s => <<e.to, t>> \in MeetingPairs(a, b)
              /\ \A f \in b.edges : f.kind = "epsilon" /\ f.from = t => <<s, f.to>> \in MeetingPairs(a, b)
              /\ \A e \in a.edges : \A f \in b.edges :
                   e.kind # "epsilon" /\ e.from = s /\ f.kind # "epsilon" /\ f.from = t /\ EdgesMeet(e, f) =>
                     <<e.to, f.to>> \in MeetingPairs(a, b)
         /\ MeetingPairs(a, b) \subseteq a.states \X b.states
         /\ \A C \in SUBSET (a.states \X b.states) :
              <<InitialState, InitialState>> \in C /\ PairsClosed(a, b, C) => MeetingPairs(a, b) \subseteq C
<1> DEFINE moves == PairMoves(a, b)
           seed == {<<InitialState, InitialState>>}
<1>1. DOMAIN moves = a.states \X b.states
  BY DEF PairMoves
<1>2. ASSUME NEW s \in a.states, NEW t \in b.states, NEW d
      PROVE  d \in moves[<<s, t>>] <=>
               \/ \E e \in a.edges : e.kind = "epsilon" /\ e.from = s /\ d = <<e.to, t>>
               \/ \E f \in b.edges : f.kind = "epsilon" /\ f.from = t /\ d = <<s, f.to>>
               \/ \E e \in a.edges : \E f \in b.edges :
                    /\ e.kind # "epsilon" /\ e.from = s /\ f.kind # "epsilon" /\ f.from = t
                    /\ EdgesMeet(e, f) /\ d = <<e.to, f.to>>
  <2>1. moves[<<s, t>>] =
          {<<u, t>> : u \in Silent(a, s)} \cup {<<s, u>> : u \in Silent(b, t)}
          \cup {<<e[1].to, e[2].to>> : e \in {x \in Consuming(a, s) \X Consuming(b, t) : EdgesMeet(x[1], x[2])}}
    BY DEF PairMoves
  <2>2. d \in {<<u, t>> : u \in Silent(a, s)} <=> \E e \in a.edges : e.kind = "epsilon" /\ e.from = s /\ d = <<e.to, t>>
    BY DEF Silent
  <2>3. d \in {<<s, u>> : u \in Silent(b, t)} <=> \E f \in b.edges : f.kind = "epsilon" /\ f.from = t /\ d = <<s, f.to>>
    BY DEF Silent
  <2>4. d \in {<<e[1].to, e[2].to>> : e \in {x \in Consuming(a, s) \X Consuming(b, t) : EdgesMeet(x[1], x[2])}} <=>
          \E e \in Consuming(a, s) : \E f \in Consuming(b, t) : EdgesMeet(e, f) /\ d = <<e.to, f.to>>
    <3> HIDE DEF moves
    <3>1. ASSUME NEW e \in Consuming(a, s), NEW f \in Consuming(b, t), EdgesMeet(e, f), d = <<e.to, f.to>>
          PROVE  \E x \in Consuming(a, s) \X Consuming(b, t) : EdgesMeet(x[1], x[2]) /\ d = <<x[1].to, x[2].to>>
      <4>1. <<e, f>> \in Consuming(a, s) \X Consuming(b, t) /\ <<e, f>>[1] = e /\ <<e, f>>[2] = f
        OBVIOUS
      <4> QED BY <3>1, <4>1
    <3>2. ASSUME NEW x \in Consuming(a, s) \X Consuming(b, t), EdgesMeet(x[1], x[2]), d = <<x[1].to, x[2].to>>
          PROVE  \E e \in Consuming(a, s) : \E f \in Consuming(b, t) : EdgesMeet(e, f) /\ d = <<e.to, f.to>>
      BY <3>2
    <3> QED BY <3>1, <3>2
  <2>5. (\E e \in Consuming(a, s) : \E f \in Consuming(b, t) : EdgesMeet(e, f) /\ d = <<e.to, f.to>>) <=>
          \E e \in a.edges : \E f \in b.edges :
            /\ e.kind # "epsilon" /\ e.from = s /\ f.kind # "epsilon" /\ f.from = t
            /\ EdgesMeet(e, f) /\ d = <<e.to, f.to>>
    BY Zenon DEF Consuming
  <2> HIDE DEF moves
  <2> QED BY <2>1, <2>2, <2>3, <2>4, <2>5
<1> HIDE DEF moves
<1>3. ASSUME NEW s \in a.states, NEW t \in b.states PROVE moves[<<s, t>>] \subseteq a.states \X b.states
  <2> SUFFICES ASSUME NEW d \in moves[<<s, t>>] PROVE d \in a.states \X b.states
    OBVIOUS
  <2>1. \/ \E e \in a.edges : e.kind = "epsilon" /\ e.from = s /\ d = <<e.to, t>>
        \/ \E f \in b.edges : f.kind = "epsilon" /\ f.from = t /\ d = <<s, f.to>>
        \/ \E e \in a.edges : \E f \in b.edges :
             /\ e.kind # "epsilon" /\ e.from = s /\ f.kind # "epsilon" /\ f.from = t
             /\ EdgesMeet(e, f) /\ d = <<e.to, f.to>>
    BY <1>2
  <2>2. PICK u \in a.states : \E v \in b.states : d = <<u, v>>
    BY <2>1, Zenon DEF IsAutomaton
  <2> QED BY <2>2
<1>4. IsGraph(moves)
  <2>1. IsFiniteSet(a.states \X b.states)
    BY FS_Product DEF IsAutomaton
  <2>2. \A x \in a.states \X b.states : x = <<x[1], x[2]>> /\ x[1] \in a.states /\ x[2] \in b.states
    OBVIOUS
  <2> QED BY <1>1, <1>3, <2>1, <2>2 DEF IsGraph
<1>5. seed \in SUBSET DOMAIN moves
  BY <1>1 DEF IsAutomaton
<1>6. seed \subseteq MeetingPairs(a, b) /\ \A x \in MeetingPairs(a, b) : moves[x] \subseteq MeetingPairs(a, b)
  BY <1>4, <1>5, ReachableFacts DEF MeetingPairs, moves
<1>7. ASSUME NEW s \in a.states, NEW t \in b.states, <<s, t>> \in MeetingPairs(a, b), NEW d, d \in moves[<<s, t>>]
      PROVE  d \in MeetingPairs(a, b)
  BY <1>6, <1>7
<1>8. <<InitialState, InitialState>> \in MeetingPairs(a, b)
  BY <1>6
<1>9. ASSUME NEW s \in a.states, NEW t \in b.states, <<s, t>> \in MeetingPairs(a, b)
      PROVE  /\ \A e \in a.edges : e.kind = "epsilon" /\ e.from = s => <<e.to, t>> \in MeetingPairs(a, b)
             /\ \A f \in b.edges : f.kind = "epsilon" /\ f.from = t => <<s, f.to>> \in MeetingPairs(a, b)
             /\ \A e \in a.edges : \A f \in b.edges :
                  e.kind # "epsilon" /\ e.from = s /\ f.kind # "epsilon" /\ f.from = t /\ EdgesMeet(e, f) =>
                    <<e.to, f.to>> \in MeetingPairs(a, b)
  <2>1. \A d : (\/ \E e \in a.edges : e.kind = "epsilon" /\ e.from = s /\ d = <<e.to, t>>
                \/ \E f \in b.edges : f.kind = "epsilon" /\ f.from = t /\ d = <<s, f.to>>
                \/ \E e \in a.edges : \E f \in b.edges :
                     /\ e.kind # "epsilon" /\ e.from = s /\ f.kind # "epsilon" /\ f.from = t
                     /\ EdgesMeet(e, f) /\ d = <<e.to, f.to>>) => d \in MeetingPairs(a, b)
    BY <1>2, <1>7, <1>9
  <2>2. \A e \in a.edges : e.kind = "epsilon" /\ e.from = s => <<e.to, t>> \in MeetingPairs(a, b)
    BY <2>1, Zenon
  <2>3. \A f \in b.edges : f.kind = "epsilon" /\ f.from = t => <<s, f.to>> \in MeetingPairs(a, b)
    BY <2>1, Zenon
  <2>4. \A e \in a.edges : \A f \in b.edges :
          e.kind # "epsilon" /\ e.from = s /\ f.kind # "epsilon" /\ f.from = t /\ EdgesMeet(e, f) =>
            <<e.to, f.to>> \in MeetingPairs(a, b)
    <3> SUFFICES ASSUME NEW e \in a.edges, NEW f \in b.edges, e.kind # "epsilon", e.from = s,
                        f.kind # "epsilon", f.from = t, EdgesMeet(e, f)
                 PROVE  <<e.to, f.to>> \in MeetingPairs(a, b)
      OBVIOUS
    <3> QED BY <2>1
  <2> QED BY <2>2, <2>3, <2>4
<1>10. ASSUME NEW C \in SUBSET (a.states \X b.states), <<InitialState, InitialState>> \in C, PairsClosed(a, b, C)
       PROVE  MeetingPairs(a, b) \subseteq C
  <2>1. ASSUME NEW s \in a.states, NEW t \in b.states, <<s, t>> \in C, NEW d \in moves[<<s, t>>] PROVE d \in C
    <3>1. \/ \E e \in a.edges : e.kind = "epsilon" /\ e.from = s /\ d = <<e.to, t>>
          \/ \E f \in b.edges : f.kind = "epsilon" /\ f.from = t /\ d = <<s, f.to>>
          \/ \E e \in a.edges : \E f \in b.edges :
               /\ e.kind # "epsilon" /\ e.from = s /\ f.kind # "epsilon" /\ f.from = t
               /\ EdgesMeet(e, f) /\ d = <<e.to, f.to>>
      BY <1>2, <2>1
    <3>2. /\ \A e \in a.edges : e.kind = "epsilon" /\ e.from = s => <<e.to, t>> \in C
          /\ \A f \in b.edges : f.kind = "epsilon" /\ f.from = t => <<s, f.to>> \in C
          /\ \A e \in a.edges : \A f \in b.edges :
               e.kind # "epsilon" /\ e.from = s /\ f.kind # "epsilon" /\ f.from = t /\ EdgesMeet(e, f) =>
                 <<e.to, f.to>> \in C
      BY <1>10, <2>1 DEF PairsClosed
    <3> QED BY <3>1, <3>2, Zenon
  <2>2. ASSUME NEW x \in C PROVE moves[x] \subseteq C
    <3>1. x = <<x[1], x[2]>> /\ x[1] \in a.states /\ x[2] \in b.states
      BY <1>10
    <3>2. <<x[1], x[2]>> \in C /\ moves[x] = moves[<<x[1], x[2]>>]
      BY <3>1
    <3> QED BY <2>1, <3>1, <3>2
  <2>3. C \in SUBSET DOMAIN moves /\ seed \subseteq C
    BY <1>1, <1>10
  <2>4. MeetingPairs(a, b) = Reachable(moves, seed)
    BY DEF MeetingPairs, moves
  <2> HIDE DEF seed
  <2> QED BY <1>4, <1>5, <2>2, <2>3, <2>4, ReachableFacts
<1>11. MeetingPairs(a, b) \subseteq a.states \X b.states
  BY <1>1, <1>4, <1>5, ReachableFacts DEF MeetingPairs, moves
<1> QED BY <1>8, <1>9, <1>10, <1>11

(* Which of two automata is named first does not matter.                    *)
LEMMA MeetingIsMutual ==
  ASSUME NEW a, IsAutomaton(a), NEW b, IsAutomaton(b), AutomataMeet(a, b), a.accept \in a.states, b.accept \in b.states
  PROVE  AutomataMeet(b, a)
<1> DEFINE C == {x \in a.states \X b.states : <<x[2], x[1]>> \in MeetingPairs(b, a)}
<1>1. \A s \in a.states : \A t \in b.states : <<s, t>> \in C <=> <<t, s>> \in MeetingPairs(b, a)
  <2> SUFFICES ASSUME NEW s \in a.states, NEW t \in b.states
               PROVE  <<s, t>> \in C <=> <<t, s>> \in MeetingPairs(b, a)
    OBVIOUS
  <2>1. <<s, t>> \in a.states \X b.states /\ <<s, t>>[1] = s /\ <<s, t>>[2] = t
    OBVIOUS
  <2> QED BY <2>1
<1>2. C \in SUBSET (a.states \X b.states)
  OBVIOUS
<1> HIDE DEF C
<1>3. <<InitialState, InitialState>> \in C
  BY <1>1, PairsFacts DEF IsAutomaton
<1>4. \A e, f : EdgesMeet(e, f) => EdgesMeet(f, e)
  BY DEF EdgesMeet, Reads
<1>5. PairsClosed(a, b, C)
  <2> SUFFICES ASSUME NEW s \in a.states, NEW t \in b.states, <<s, t>> \in C
               PROVE  /\ \A e \in a.edges : e.kind = "epsilon" /\ e.from = s => <<e.to, t>> \in C
                      /\ \A f \in b.edges : f.kind = "epsilon" /\ f.from = t => <<s, f.to>> \in C
                      /\ \A e \in a.edges : \A f \in b.edges :
                           e.kind # "epsilon" /\ e.from = s /\ f.kind # "epsilon" /\ f.from = t /\ EdgesMeet(e, f) =>
                             <<e.to, f.to>> \in C
    BY DEF PairsClosed
  <2>1. <<t, s>> \in MeetingPairs(b, a)
    BY <1>1
  <2>2. /\ \A f \in b.edges : f.kind = "epsilon" /\ f.from = t => <<f.to, s>> \in MeetingPairs(b, a)
        /\ \A e \in a.edges : e.kind = "epsilon" /\ e.from = s => <<t, e.to>> \in MeetingPairs(b, a)
        /\ \A f \in b.edges : \A e \in a.edges :
             f.kind # "epsilon" /\ f.from = t /\ e.kind # "epsilon" /\ e.from = s /\ EdgesMeet(f, e) =>
               <<f.to, e.to>> \in MeetingPairs(b, a)
    BY <2>1, PairsFacts
  <2>3. (\A e \in a.edges : e.to \in a.states) /\ (\A f \in b.edges : f.to \in b.states)
    BY DEF IsAutomaton
  <2> QED BY <1>1, <1>4, <2>2, <2>3, Zenon
<1>6. MeetingPairs(a, b) \subseteq C
  BY <1>2, <1>3, <1>5, PairsFacts
<1>7. <<a.accept, b.accept>> \in C
  BY <1>6 DEF AutomataMeet, MeetingPairs
<1>8. <<b.accept, a.accept>> \in MeetingPairs(b, a)
  BY <1>1, <1>7
<1> QED BY <1>8 DEF AutomataMeet, MeetingPairs

(* Two automata that read the same path as far as the same position are a  *)
(* pair that the search reaches.                                           *)
LEMMA RunsMeet ==
  ASSUME NEW n, IsPath(n), NEW a, IsAutomaton(a), NEW b, IsAutomaton(b)
  PROVE  \A x \in Positions(n) : \A s \in a.states : \A t \in b.states :
           <<x, s>> \in RunOf(a, n) /\ <<x, t>> \in RunOf(b, n) => <<s, t>> \in MeetingPairs(a, b)
<1> DEFINE I == InitialState
           with(x, s) == \A t \in b.states : <<x, t>> \in RunOf(b, n) => <<s, t>> \in MeetingPairs(a, b)
           T == {c \in Positions(n) \X a.states : with(c[1], c[2])}
<1>1. \A x, s : <<x, s>> \in T <=> x \in Positions(n) /\ s \in a.states /\ with(x, s)
  <2> HIDE DEF with
  <2> QED OBVIOUS
<1>2. T \in SUBSET (Positions(n) \X a.states)
  OBVIOUS
<1> HIDE DEF T
<1>3. CompleteRun(b, n, RunOf(b, n))
  BY RunFacts
(* To hold of all that b gets to, it suffices to hold at the start and to  *)
(* go on from there.                                                       *)
<1>4. with(AtStart, I)
  <2> DEFINE C == {c \in RunOf(b, n) : c[1] = AtStart => <<I, c[2]>> \in MeetingPairs(a, b)}
  <2>1. \A x, t : <<x, t>> \in C <=> <<x, t>> \in RunOf(b, n) /\ (x = AtStart => <<I, t>> \in MeetingPairs(a, b))
    OBVIOUS
  <2>2. C \in SUBSET RunOf(b, n)
    OBVIOUS
  <2> HIDE DEF C
  <2>3. <<AtStart, I>> \in C
    BY <1>3, <2>1, PairsFacts DEF CompleteRun
  <2>4. ASSUME NEW x \in Positions(n), NEW e \in b.edges, <<x, e.from>> \in C
        PROVE  /\ e.kind = "epsilon" => <<x, e.to>> \in C
               /\ e.kind # "epsilon" /\ x # AtEnd(n) /\ Reads(e, SymbolAt(n, x)) => <<NextPosition(n, x), e.to>> \in C
    <3>1. /\ e.kind = "epsilon" => <<x, e.to>> \in RunOf(b, n)
          /\ e.kind # "epsilon" /\ x # AtEnd(n) /\ Reads(e, SymbolAt(n, x)) => <<NextPosition(n, x), e.to>> \in RunOf(b, n)
      BY <1>3, <2>1, <2>4 DEF CompleteRun, RunClosed
    <3>2. e.kind = "epsilon" /\ x = AtStart => <<I, e.to>> \in MeetingPairs(a, b)
      <4>1. I \in a.states /\ e.from \in b.states
        BY DEF IsAutomaton
      <4>2. x = AtStart => <<I, e.from>> \in MeetingPairs(a, b)
        BY <2>1, <2>4
      <4> QED BY <4>1, <4>2, PairsFacts
    <3>3. NextPosition(n, x) # AtStart
      BY NextPositionFacts
    <3> QED BY <2>1, <3>1, <3>2, <3>3
  <2>5. CompleteRun(b, n, C)
    BY <1>3, <2>2, <2>3, <2>4 DEF CompleteRun, RunClosed
  <2>6. RunOf(b, n) \subseteq C
    BY <2>5, RunFacts
  <2> QED BY <2>1, <2>6
<1>5. ASSUME NEW x \in Positions(n), NEW e \in a.edges, with(x, e.from), e.kind # "epsilon", x # AtEnd(n), Reads(e, SymbolAt(n, x))
      PROVE  with(NextPosition(n, x), e.to)
  <2> DEFINE next == NextPosition(n, x)
             C == {c \in RunOf(b, n) : c[1] = next => <<e.to, c[2]>> \in MeetingPairs(a, b)}
  <2>1. \A y, t : <<y, t>> \in C <=> <<y, t>> \in RunOf(b, n) /\ (y = next => <<e.to, t>> \in MeetingPairs(a, b))
    OBVIOUS
  <2>2. C \in SUBSET RunOf(b, n)
    OBVIOUS
  <2> HIDE DEF C
  <2>3. <<AtStart, I>> \in C
    BY <1>3, <2>1, NextPositionFacts DEF CompleteRun
  <2>4. ASSUME NEW y \in Positions(n), NEW f \in b.edges, <<y, f.from>> \in C
        PROVE  /\ f.kind = "epsilon" => <<y, f.to>> \in C
               /\ f.kind # "epsilon" /\ y # AtEnd(n) /\ Reads(f, SymbolAt(n, y)) => <<NextPosition(n, y), f.to>> \in C
    <3>1. /\ f.kind = "epsilon" => <<y, f.to>> \in RunOf(b, n)
          /\ f.kind # "epsilon" /\ y # AtEnd(n) /\ Reads(f, SymbolAt(n, y)) => <<NextPosition(n, y), f.to>> \in RunOf(b, n)
      BY <1>3, <2>1, <2>4 DEF CompleteRun, RunClosed
    <3>2. f.from \in b.states /\ e.to \in a.states /\ e.from \in a.states
      BY DEF IsAutomaton
    <3>3. ASSUME f.kind = "epsilon", y = next PROVE <<e.to, f.to>> \in MeetingPairs(a, b)
      <4>1. <<e.to, f.from>> \in MeetingPairs(a, b)
        BY <2>1, <2>4, <3>3
      <4> QED BY <3>2, <3>3, <4>1, PairsFacts
    <3>4. ASSUME f.kind # "epsilon", Reads(f, SymbolAt(n, y)), NextPosition(n, y) = next PROVE <<e.to, f.to>> \in MeetingPairs(a, b)
      <4>1. x = y
        BY <3>4, NextPositionFacts
      <4>2. <<e.from, f.from>> \in MeetingPairs(a, b)
        BY <1>5, <2>1, <2>4, <3>2, <4>1
      <4>3. EdgesMeet(e, f)
        BY <1>5, <3>4, <4>1, EdgesThatReadOneSymbolMeet
      <4> QED BY <1>5, <3>2, <3>4, <4>2, <4>3, PairsFacts
    <3>5. f.kind = "epsilon" => <<y, f.to>> \in C
      BY <2>1, <3>1, <3>3
    <3>6. f.kind # "epsilon" /\ y # AtEnd(n) /\ Reads(f, SymbolAt(n, y)) => <<NextPosition(n, y), f.to>> \in C
      BY <2>1, <3>1, <3>4
    <3> QED BY <3>5, <3>6
  <2>5. CompleteRun(b, n, C)
    BY <1>3, <2>2, <2>3, <2>4 DEF CompleteRun, RunClosed
  <2>6. RunOf(b, n) \subseteq C
    BY <2>5, RunFacts
  <2> QED BY <2>1, <2>6
<1>6. ASSUME NEW x \in Positions(n), NEW e \in a.edges, <<x, e.from>> \in T
      PROVE  /\ e.kind = "epsilon" => <<x, e.to>> \in T
             /\ e.kind # "epsilon" /\ x # AtEnd(n) /\ Reads(e, SymbolAt(n, x)) => <<NextPosition(n, x), e.to>> \in T
  <2>1. with(x, e.from) /\ e.from \in a.states /\ e.to \in a.states
    BY <1>1, <1>6 DEF IsAutomaton
  <2>2. e.kind = "epsilon" => with(x, e.to)
    BY <2>1, PairsFacts
  <2>3. x # AtEnd(n) => NextPosition(n, x) \in Positions(n)
    BY NextPositionFacts
  <2> HIDE DEF with
  <2> QED BY <1>1, <1>5, <2>1, <2>2, <2>3
<1>7. <<AtStart, I>> \in T
  <2> HIDE DEF with
  <2> QED BY <1>1, <1>4, PositionFacts DEF IsAutomaton
<1>8. CompleteRun(a, n, T)
  BY <1>2, <1>6, <1>7 DEF CompleteRun, RunClosed
<1>9. RunOf(a, n) \subseteq T
  BY <1>8, RunFacts
<1> QED BY <1>1, <1>9

LEMMA AcceptedByBothMeet ==
  ASSUME NEW n, IsPath(n), NEW p, IsPattern(p), NEW q, IsPattern(q),
         AcceptsText(AutomatonOf(p), n), AcceptsText(AutomatonOf(q), n)
  PROVE  AutomataMeet(AutomatonOf(p), AutomatonOf(q))
<1> DEFINE a == AutomatonOf(p)
           b == AutomatonOf(q)
<1>1. IsAutomaton(a) /\ IsAutomaton(b)
  BY PatternsHaveAutomata
<1>2. <<AtEnd(n), a.accept>> \in RunOf(a, n) /\ <<AtEnd(n), b.accept>> \in RunOf(b, n)
  BY DEF AcceptsText
<1> HIDE DEF a, b
<1>3. AtEnd(n) \in Positions(n) /\ a.accept \in a.states /\ b.accept \in b.states
  BY <1>2 DEF RunOf
<1>4. <<a.accept, b.accept>> \in MeetingPairs(a, b)
  BY <1>1, <1>2, <1>3, RunsMeet
<1>5. AutomataMeet(a, b)
  BY <1>4 DEF AutomataMeet, MeetingPairs
<1> QED BY <1>5 DEF a, b

-----------------------------------------------------------------------------
(* The two readings of a pattern                                           *)

LEMMA NormalizedText ==
  ASSUME NEW s, IsPathText(s)
  PROVE  /\ Normalize(s) \in Seq(SegmentName)
         /\ Normalize(s) # <<>> =>
              /\ IsPath(Normalize(s)) /\ Split(Normalize(s)) = Normalize(s)
              /\ IsPattern(Collapse(Normalize(s))) /\ PatternSegments(s) = Collapse(Normalize(s))
<1> DEFINE B == {s[i] : i \in 1..Len(s)} \ {<<>>, Dot}
<1>1. Normalize(s) \in Seq(B)
  BY NormalizeType DEF IsPathText
<1>2. B \subseteq SegmentName
  BY ElementOfSeq DEF IsPathText, SegmentName
<1>3. Normalize(s) \in Seq(SegmentName)
  <2>1. \A X, Y : X \subseteq Y => Seq(X) \subseteq Seq(Y)
    OBVIOUS
  <2> HIDE DEF B
  <2> QED BY <1>1, <1>2, <2>1
<1>4. Normalize(s) # <<>> => IsPattern(Collapse(Normalize(s)))
  BY <1>3, CollapseType DEF IsPattern, IsPath
<1> QED BY <1>3, <1>4 DEF Split, PatternSegments, IsPath

(* What the matcher matches, the automaton of the pattern accepts.         *)
LEMMA MatchedFiles ==
  ASSUME NEW path, NamesFile(path), NEW pattern, IsPathText(pattern), Matches(path, pattern)
  PROVE  /\ IsPath(Normalize(path))
         /\ IsPattern(PatternSegments(pattern))
         /\ AcceptsText(Automaton(pattern), Normalize(path))
<1> DEFINE n == Normalize(path)
<1>1. IsPath(n) /\ Split(n) = n
  BY NormalizedText DEF NamesFile
<1> HIDE DEF n
<1>2. LET p == Collapse(Split(Normalize(pattern)))
      IN  p = <<Globstar>> \/ TableAccepts(PathMoves(p, n), p, n)
  BY <1>1 DEF Matches, n
<1>3. CASE Normalize(pattern) # <<>>
  <2> DEFINE p == Collapse(Normalize(pattern))
  <2>1. IsPattern(p) /\ PatternSegments(pattern) = p /\ Split(Normalize(pattern)) = Normalize(pattern)
    BY <1>3, NormalizedText
  <2>2. MatchesSegments(p, n)
    BY <1>2, <2>1 DEF MatchesSegments, TableAccepts, PathTable
  <2>3. AcceptsText(AutomatonOf(p), n)
    <3> HIDE DEF p
    <3> QED BY <1>1, <2>1, <2>2, MatchedIsAccepted
  <2> QED BY <1>1, <2>1, <2>3 DEF Automaton, n
<1>4. ASSUME Normalize(pattern) = <<>> PROVE FALSE
  <2> DEFINE p == Collapse(<<<<>>>>)
             R == {<<0, 0>>}
  <2>1. p \in Seq({<<>>}) /\ p # <<>>
    <3>1. <<<<>>>> \in Seq({<<>>}) /\ <<<<>>>> # <<>>
      OBVIOUS
    <3> QED BY <3>1, CollapseType
  <2>2. Len(p) \in Nat \ {0} /\ \A i \in 1..Len(p) : p[i] = <<>>
    <3> HIDE DEF p
    <3> QED BY <2>1, EmptySeq, LenProperties, ElementOfSeq
  <2>3. Collapse(Split(Normalize(pattern))) = p
    BY <1>4 DEF Split
  <2> HIDE DEF p
  <2>4. <<>> # Globstar
    BY DEF Globstar
  <2>5. p # <<Globstar>>
    <3>1. p = <<Globstar>> => p[1] = Globstar /\ 1 \in 1..Len(p)
      OBVIOUS
    <3> QED BY <2>2, <2>4, <3>1
  <2>6. \A j \in 1..Len(n) : ~SegmentMatches(<<>>, n[j])
    BY <1>1, PathFacts, EmptySeq DEF SegmentMatches, Contains
  <2>7. n \in Seq(SegmentName) /\ Len(n) \in Nat
    BY <1>1 DEF IsPath
  <2>8. PathClosed(p, n, R)
    <3>1. ASSUME NEW i \in 0..Len(p), NEW j \in 0..Len(n), <<i, j>> \in R
          PROVE  /\ i = 0
                 /\ i < Len(p) => p[i + 1] = <<>>
                 /\ j < Len(n) => ~SegmentMatches(<<>>, n[j + 1])
      <4>1. i = 0 /\ j = 0
        BY <3>1
      <4>2. 1 \in 1..Len(p) /\ (0 < Len(n) => 1 \in 1..Len(n))
        BY <2>2, <2>7
      <4> QED BY <2>2, <2>6, <4>1, <4>2
    <3> QED BY <2>4, <3>1 DEF PathClosed
  <2>9. R \in SUBSET Cells(p, n) /\ <<0, 0>> \in R
    BY <2>2, <2>7 DEF Cells
  <2>10. PathTable(p, n) \subseteq R
    <3> HIDE DEF R
    <3> QED BY <2>1, <2>7, <2>8, <2>9, PathTableFacts
  <2>11. <<Len(p), Len(n)>> \in PathTable(p, n)
    BY <1>2, <2>3, <2>5 DEF TableAccepts, PathTable
  <2> QED BY <2>2, <2>10, <2>11
<1> QED BY <1>3, <1>4

(* Two patterns that match one file intersect: what the engine takes for   *)
(* disjoint shares no file.                                                *)
THEOREM SharesAreSeen ==
  ASSUME NEW path, NamesFile(path), NEW p, IsPathText(p), NEW q, IsPathText(q), Matches(path, p), Matches(path, q)
  PROVE  Intersect(p, q) /\ Overlaps(p, q)
<1>1. Intersect(p, q)
  BY MatchedFiles, AcceptedByBothMeet DEF Intersect, Automaton
<1> QED BY <1>1 DEF Overlaps

-----------------------------------------------------------------------------
(* What the automaton accepts, the matcher matches.                        *)

(* What is matched already where the automaton of a pattern that is not    *)
(* just "**" is in the state <<i, k>> at the position <<j, l>>.            *)
SegmentSeen(s, name, k, l) ==
  IF k < Len(s) /\ s[k + 1] = "*" THEN <<k + 1, l>> \in SegmentTable(s, name) ELSE <<k, l>> \in SegmentTable(s, name)

MeantBy(p, n, j, l, i, k) ==
  /\ p[i] # Globstar => <<i - 1, j - 1>> \in PathTable(p, n) /\ SegmentSeen(p[i], n[j], k, l)
  /\ p[i] = Globstar /\ i < Len(p) => <<i, j - 1>> \in PathTable(p, n) /\ (k = 0 => l = 0) /\ (k = 1 => l > 0)
  /\ p[i] = Globstar /\ i = Len(p) /\ k = 0 => <<i - 1, j - 1>> \in PathTable(p, n) /\ l = 0
  /\ p[i] = Globstar /\ i = Len(p) /\ k = 1 /\ l = 0 => <<i, j - 1>> \in PathTable(p, n)
  /\ p[i] = Globstar /\ i = Len(p) /\ k = 1 /\ l > 0 => <<i, j>> \in PathTable(p, n)

LEMMA SegmentSeenFacts ==
  ASSUME NEW s \in Seq(Letter), NEW name \in Seq(Letter)
  PROVE  /\ SegmentSeen(s, name, 0, 0)
         /\ \A k \in 0..Len(s), l \in 0..Len(name) : <<k, l>> \in SegmentTable(s, name) => SegmentSeen(s, name, k, l)
         /\ \A k \in 1..Len(s), l \in 0..Len(name) : SegmentSeen(s, name, k - 1, l) =>
              /\ s[k] # "*" /\ l < Len(name) /\ s[k] = name[l + 1] => SegmentSeen(s, name, k, l + 1)
              /\ s[k] = "*" => SegmentSeen(s, name, k, l)
              /\ s[k] = "*" /\ l < Len(name) => SegmentSeen(s, name, k - 1, l + 1)
         /\ \A l : SegmentSeen(s, name, Len(s), l) => <<Len(s), l>> \in SegmentTable(s, name)
<1> DEFINE F == SegmentTable(s, name)
           M == Len(s)
           N == Len(name)
<1>1. M \in Nat /\ N \in Nat /\ <<0, 0>> \in F /\ SegmentClosed(s, name, F)
  BY SegmentTableFacts
<1> HIDE DEF F, M, N
<1>2. ASSUME NEW k \in 0..M, NEW l \in 0..N, <<k, l>> \in F PROVE SegmentSeen(s, name, k, l)
  <2>1. k < M /\ s[k + 1] = "*" => <<k + 1, l>> \in F
    BY <1>1, <1>2 DEF SegmentClosed, M, N
  <2> QED BY <1>2, <2>1 DEF SegmentSeen, F, M
<1>3. SegmentSeen(s, name, 0, 0)
  BY <1>1, <1>2
<1>4. ASSUME NEW k \in 1..M, NEW l \in 0..N, SegmentSeen(s, name, k - 1, l)
      PROVE  /\ s[k] # "*" /\ l < N /\ s[k] = name[l + 1] => SegmentSeen(s, name, k, l + 1)
             /\ s[k] = "*" => SegmentSeen(s, name, k, l)
             /\ s[k] = "*" /\ l < N => SegmentSeen(s, name, k - 1, l + 1)
  <2>1. k - 1 \in 0..M /\ k \in 0..M /\ (k - 1) + 1 = k /\ k - 1 < M /\ k > 0
    BY <1>1
  <2>2. IF s[k] = "*" THEN <<k, l>> \in F ELSE <<k - 1, l>> \in F
    BY <1>4, <2>1 DEF SegmentSeen, F, M
  <2>3. ASSUME s[k] # "*", l < N, s[k] = name[l + 1] PROVE SegmentSeen(s, name, k, l + 1)
    <3>1. \A x \in 0..M, y \in 0..N :
            <<x, y>> \in F /\ x < M /\ y < N /\ s[x + 1] # "*" /\ s[x + 1] = name[y + 1] => <<x + 1, y + 1>> \in F
      BY <1>1 DEF SegmentClosed, M, N
    <3>2. <<(k - 1) + 1, l + 1>> \in F /\ l + 1 \in 0..N
      BY <1>1, <2>1, <2>2, <2>3, <3>1
    <3> QED BY <1>2, <2>1, <3>2
  <2>4. ASSUME s[k] = "*" PROVE SegmentSeen(s, name, k, l)
    BY <1>2, <2>1, <2>2, <2>4
  <2>5. ASSUME s[k] = "*", l < N PROVE SegmentSeen(s, name, k - 1, l + 1)
    <3>1. <<k, l + 1>> \in F
      BY <1>1, <2>1, <2>2, <2>5 DEF SegmentClosed, M, N
    <3> QED BY <2>1, <2>5, <3>1 DEF SegmentSeen, F, M
  <2> QED BY <2>3, <2>4, <2>5
<1>5. ASSUME NEW l, SegmentSeen(s, name, M, l) PROVE <<M, l>> \in F
  <2>1. ~(M < M)
    BY <1>1
  <2> QED BY <1>5, <2>1 DEF SegmentSeen, F, M
<1> QED BY <1>2, <1>3, <1>4, <1>5 DEF F, M, N

(* Wherever the matcher stands before a segment, the automaton may enter it.*)
LEMMA Begins ==
  ASSUME NEW n, IsPath(n), NEW p, IsPattern(p), NEW i \in 1..Len(p), NEW j \in 1..Len(n),
         <<i - 1, j - 1>> \in PathTable(p, n)
  PROVE  MeantBy(p, n, j, 0, i, 0)
<1> DEFINE F == PathTable(p, n)
<1>1. Len(p) \in Nat \ {0} /\ Len(n) \in Nat \ {0} /\ i - 1 \in 0..Len(p) /\ j - 1 \in 0..Len(n) /\ (i - 1) + 1 = i
  BY PathFacts DEF IsPattern
<1>2. SegmentSeen(p[i], n[j], 0, 0)
  <2>1. p[i] \in Seq(Letter) /\ n[j] \in Seq(Letter)
    BY PathFacts DEF IsPattern
  <2> QED BY <2>1, SegmentSeenFacts
<1>3. p[i] = Globstar /\ i < Len(p) => <<i, j - 1>> \in F
  <2>1. PathClosed(p, n, F)
    BY PathTableFacts DEF IsPattern, IsPath
  <2> HIDE DEF F
  <2> QED BY <1>1, <2>1 DEF PathClosed, F
<1> QED BY <1>2, <1>3 DEF MeantBy

(* The set of all such pairs is complete: the automaton is never where the *)
(* matcher would not be.                                                   *)
MeantPairs(p, n) ==
  {t \in Positions(n) \X AutomatonOf(p).states : MeantBy(p, n, t[1][1], t[1][2], t[2][1], t[2][2])}

LEMMA MeantPairsAre ==
  ASSUME NEW n, IsPath(n), NEW p, IsPattern(p), NEW j \in 1..Len(n), NEW l \in 0..Len(n[j]),
         NEW i \in 1..Len(p), NEW k \in 0..SegmentSize(p[i])
  PROVE  InRun(MeantPairs(p, n), j, l, i, k) <=> MeantBy(p, n, j, l, i, k)
<1>1. <<j, l>> \in Positions(n) /\ <<i, k>> \in AutomatonOf(p).states
  BY PositionFacts, StatesAre
<1> QED BY <1>1 DEF InRun, MeantPairs

LEMMA MeantInside ==
  ASSUME NEW n, IsPath(n), NEW p, IsPattern(p), NEW j, NEW l, NEW i, NEW k, InRun(MeantPairs(p, n), j, l, i, k)
  PROVE  /\ j \in 1..Len(n) /\ l \in 0..Len(n[j]) /\ i \in 1..Len(p) /\ k \in 0..SegmentSize(p[i])
         /\ MeantBy(p, n, j, l, i, k)
<1>1. <<j, l>> \in Positions(n) /\ <<i, k>> \in AutomatonOf(p).states /\ MeantBy(p, n, j, l, i, k)
  BY DEF InRun, MeantPairs
<1>2. j \in 1..Len(n) /\ l \in 0..Len(n[j])
  BY <1>1, PositionFacts
<1>3. i \in 1..Len(p) /\ k \in 0..SegmentSize(p[i])
  <2>1. PICK x \in 1..Len(p) : \E y \in 0..SegmentSize(p[x]) : <<i, k>> = <<x, y>>
    BY <1>1, StatesAre
  <2> QED BY <2>1
<1> QED BY <1>1, <1>2, <1>3

LEMMA MeantIsComplete ==
  ASSUME NEW n, IsPath(n), NEW p, IsPattern(p), p # <<Globstar>>
  PROVE  CompleteRun(AutomatonOf(p), n, MeantPairs(p, n))
<1> DEFINE F == PathTable(p, n)
           T == MeantPairs(p, n)
           M == Len(p)
           N == Len(n)
<1>1. /\ M \in Nat \ {0} /\ N \in Nat \ {0}
      /\ \A j \in 1..N : Len(n[j]) \in Nat \ {0} /\ n[j] \in Seq(Letter)
      /\ \A i \in 1..M : Len(p[i]) \in Nat \ {0} /\ p[i] \in Seq(Letter)
  BY PathFacts DEF IsPattern
<1>2. <<0, 0>> \in F /\ PathClosed(p, n, F)
  BY PathTableFacts DEF IsPattern, IsPath
<1>3. ASSUME NEW i \in 1..M, NEW j \in 1..N, <<i - 1, j - 1>> \in F PROVE InRun(T, j, 0, i, 0)
  <2>1. 0 \in 0..Len(n[j]) /\ 0 \in 0..SegmentSize(p[i])
    BY <1>1 DEF SegmentSize
  <2>2. MeantBy(p, n, j, 0, i, 0)
    BY <1>3, Begins
  <2> QED BY <2>1, <2>2, MeantPairsAre
<1>4. InRun(T, 1, 0, 1, 0)
  BY <1>1, <1>2, <1>3
<1>5. T \in SUBSET (Positions(n) \X AutomatonOf(p).states)
  BY DEF MeantPairs
<1>6. ASSUME NEW i \in 1..M, p[i] = Globstar PROVE M > 1
  <2>1. ASSUME M = 1 PROVE FALSE
    <3>1. p = <<p[1]>> /\ i = 1
      BY <1>6, <2>1 DEF IsPattern, IsPath
    <3> QED BY <1>6, <3>1
  <2>2. \A m \in Nat \ {0} : m # 1 => m > 1
    OBVIOUS
  <2> QED BY <1>1, <2>1, <2>2, Zenon
<1>7. SlashStep(p, n, T)
  <2> SUFFICES ASSUME NEW j \in 1..N, NEW i \in 1..M, i > 1, p[i - 1] # Globstar, j < N,
                      InRun(T, j, Len(n[j]), i - 1, Len(p[i - 1]))
               PROVE  InRun(T, j + 1, 0, i, 0)
    BY DEF SlashStep
  <2>1. i - 1 \in 1..M /\ (i - 1) - 1 \in 0..M /\ ((i - 1) - 1) + 1 = i - 1 /\ (i - 1) - 1 < M
    BY <1>1
  <2>2. j + 1 \in 1..N /\ (j + 1) - 1 = j /\ j - 1 \in 0..N /\ (j - 1) + 1 = j /\ j - 1 < N
    BY <1>1
  <2>3. MeantBy(p, n, j, Len(n[j]), i - 1, Len(p[i - 1]))
    BY MeantInside
  <2>4. <<(i - 1) - 1, j - 1>> \in F /\ SegmentSeen(p[i - 1], n[j], Len(p[i - 1]), Len(n[j]))
    BY <2>3 DEF MeantBy
  <2>5. SegmentMatches(p[i - 1], n[j])
    BY <1>1, <2>1, <2>4, SegmentSeenFacts, SegmentMatchesByTable
  <2>6. <<i - 1, j>> \in F
    <3> HIDE DEF F, T
    <3>1. \A x \in 0..M, y \in 0..N : <<x, y>> \in F /\ x < M /\ y < N /\ p[x + 1] # Globstar /\ SegmentMatches(p[x + 1], n[y + 1])
            => <<x + 1, y + 1>> \in F
      BY <1>2 DEF PathClosed
    <3> QED BY <2>1, <2>2, <2>4, <2>5, <3>1
  <2> QED BY <1>3, <2>2, <2>6
<1>8. LetterStep(p, n, T)
  <2> SUFFICES ASSUME NEW j \in 1..N, NEW l \in 0..Len(n[j]), NEW i \in 1..M, NEW k \in 1..Len(p[i]),
                      p[i] # Globstar, InRun(T, j, l, i, k - 1)
               PROVE  /\ p[i][k] # "*" /\ l < Len(n[j]) /\ p[i][k] = n[j][l + 1] => InRun(T, j, l + 1, i, k)
                      /\ p[i][k] = "*" => InRun(T, j, l, i, k)
                      /\ p[i][k] = "*" /\ l < Len(n[j]) => InRun(T, j, l + 1, i, k - 1)
    BY DEF LetterStep
  <2>1. MeantBy(p, n, j, l, i, k - 1)
    BY MeantInside
  <2>2. <<i - 1, j - 1>> \in F /\ SegmentSeen(p[i], n[j], k - 1, l)
    BY <2>1 DEF MeantBy
  <2>3. /\ p[i][k] # "*" /\ l < Len(n[j]) /\ p[i][k] = n[j][l + 1] => SegmentSeen(p[i], n[j], k, l + 1)
        /\ p[i][k] = "*" => SegmentSeen(p[i], n[j], k, l)
        /\ p[i][k] = "*" /\ l < Len(n[j]) => SegmentSeen(p[i], n[j], k - 1, l + 1)
    BY <1>1, <2>2, SegmentSeenFacts
  <2>4. /\ k \in 0..SegmentSize(p[i]) /\ k - 1 \in 0..SegmentSize(p[i])
        /\ l < Len(n[j]) => l + 1 \in 0..Len(n[j])
    BY <1>1 DEF SegmentSize
  <2>5. ASSUME NEW y \in 0..Len(n[j]), NEW x \in 0..SegmentSize(p[i]), SegmentSeen(p[i], n[j], x, y)
        PROVE  InRun(T, j, y, i, x)
    <3>1. MeantBy(p, n, j, y, i, x)
      BY <2>2, <2>5 DEF MeantBy
    <3> QED BY <3>1, MeantPairsAre
  <2> QED BY <2>3, <2>4, <2>5
<1>9. GlobstarStep(p, n, T)
  <2> SUFFICES ASSUME NEW j \in 1..N, NEW l \in 0..Len(n[j]), NEW i \in 1..M, p[i] = Globstar
               PROVE  /\ M = 1 /\ InRun(T, j, l, i, 0) =>
                           /\ InRun(T, j, l, i, 1)
                           /\ l < Len(n[j]) => InRun(T, j, l + 1, i, 0)
                           /\ l = Len(n[j]) /\ j < N => InRun(T, j + 1, 0, i, 0)
                      /\ M > 1 /\ i = M /\ (InRun(T, j, l, i, 0) \/ InRun(T, j, l, i, 1)) =>
                           /\ l < Len(n[j]) => InRun(T, j, l + 1, i, 1)
                           /\ l = Len(n[j]) /\ j < N => InRun(T, j + 1, 0, i, 1)
                      /\ i < M =>
                           /\ InRun(T, j, l, i, 0) => InRun(T, j, l, i + 1, 0)
                           /\ l < Len(n[j]) /\ (InRun(T, j, l, i, 0) \/ InRun(T, j, l, i, 1)) => InRun(T, j, l + 1, i, 1)
                           /\ l = Len(n[j]) /\ j < N /\ InRun(T, j, l, i, 1) => InRun(T, j + 1, 0, i, 0)
    BY Zenon DEF GlobstarStep
  <2>0. ~(M = 1)
    <3>1. \A m \in Nat : m > 1 => ~(m = 1)
      OBVIOUS
    <3> QED BY <1>1, <1>6, <3>1, Zenon
  <2>1. /\ 0 \in 0..SegmentSize(p[i]) /\ 1 \in 0..SegmentSize(p[i]) /\ i \in 0..M /\ j \in 0..N /\ i > 0
        /\ j - 1 \in 0..N /\ (j - 1) + 1 = j /\ j - 1 < N /\ i - 1 \in 0..M /\ (i - 1) + 1 = i
        /\ (i + 1) - 1 = i /\ (j + 1) - 1 = j
        /\ l < Len(n[j]) => l + 1 \in 0..Len(n[j]) /\ l + 1 > 0
        /\ j < N => j + 1 \in 1..N /\ 0 \in 0..Len(n[j + 1])
        /\ i < M => i + 1 \in 1..M
        /\ l = Len(n[j]) => l > 0 /\ l # 0
    <3>1. 0 \in 0..SegmentSize(p[i]) /\ 1 \in 0..SegmentSize(p[i])
      BY DEF SegmentSize
    <3>2. \A z \in 1..N : 0 \in 0..Len(n[z])
      BY <1>1
    <3>3. j < N => j + 1 \in 1..N
      BY <1>1
    <3>4. ASSUME NEW z \in Nat \ {0}, NEW y \in 0..z PROVE (y < z => y + 1 \in 0..z /\ y + 1 > 0) /\ (y = z => y > 0 /\ y # 0)
      OBVIOUS
    <3>5. (l < Len(n[j]) => l + 1 \in 0..Len(n[j]) /\ l + 1 > 0) /\ (l = Len(n[j]) => l > 0 /\ l # 0)
      BY <1>1, <3>4
    <3>6. ASSUME NEW z \in Nat \ {0}, NEW y \in 1..z
          PROVE  /\ y \in 0..z /\ y - 1 \in 0..z /\ (y - 1) + 1 = y /\ y - 1 < z /\ (y + 1) - 1 = y /\ y > 0
                 /\ y < z => y + 1 \in 1..z
      BY SMTT(30)
    <3> HIDE DEF M, N
    <3> QED BY <1>1, <3>1, <3>2, <3>3, <3>5, <3>6
  <2>2. \A y \in 0..N : <<i, y>> \in F /\ y < N => <<i, y + 1>> \in F
    <3> HIDE DEF F
    <3> QED BY <1>2, <2>1 DEF PathClosed
  <2>3. \A y \in 0..N : i = M /\ <<i - 1, y>> \in F /\ y < N => <<i, y + 1>> \in F
    <3> HIDE DEF F
    <3> QED BY <1>2, <2>1 DEF PathClosed
  <2>4. ASSUME NEW k \in 0..1, InRun(T, j, l, i, k) PROVE MeantBy(p, n, j, l, i, k)
    BY <2>4, MeantInside
  <2>5. CASE i = M
    <3>1. ASSUME InRun(T, j, l, i, 0) PROVE l = 0 /\ <<i - 1, j - 1>> \in F
      BY <2>1, <2>4, <2>5, <3>1 DEF MeantBy
    <3>2. ASSUME InRun(T, j, l, i, 1) PROVE IF l = 0 THEN <<i, j - 1>> \in F ELSE <<i, j>> \in F
      <4>1. l = 0 \/ l > 0
        BY <1>1
      <4> QED BY <2>4, <2>5, <3>2, <4>1 DEF MeantBy
    <3>3. ASSUME InRun(T, j, l, i, 0) \/ InRun(T, j, l, i, 1), l < Len(n[j]) PROVE InRun(T, j, l + 1, i, 1)
      <4>1. <<i, j>> \in F
        <5> HIDE DEF F, T
        <5> QED BY <2>1, <2>2, <2>3, <2>5, <3>1, <3>2, <3>3
      <4>2. MeantBy(p, n, j, l + 1, i, 1)
        BY <2>1, <2>5, <3>3, <4>1, SMTT(30) DEF MeantBy
      <4> QED BY <2>1, <3>3, <4>2, MeantPairsAre
    <3>4. ASSUME InRun(T, j, l, i, 0) \/ InRun(T, j, l, i, 1), l = Len(n[j]), j < N PROVE InRun(T, j + 1, 0, i, 1)
      <4>1. <<i, j>> \in F
        <5> HIDE DEF F, T
        <5> QED BY <2>1, <3>1, <3>2, <3>4
      <4>2. MeantBy(p, n, j + 1, 0, i, 1)
        BY <2>1, <2>5, <4>1, SMTT(30) DEF MeantBy
      <4> QED BY <2>1, <3>4, <4>2, MeantPairsAre
    <3>5. ~(i < M)
      BY <1>1, <2>5
    <3> QED BY <2>0, <2>5, <3>3, <3>4, <3>5, Zenon
  <2>6. CASE i < M
    <3>0. i # M
      BY <1>1, <2>6
    <3>1. ASSUME InRun(T, j, l, i, 0) PROVE l = 0 /\ <<i, j - 1>> \in F
      BY <2>1, <2>4, <2>6, <3>1 DEF MeantBy
    <3>2. ASSUME InRun(T, j, l, i, 1) PROVE <<i, j - 1>> \in F
      BY <2>4, <2>6, <3>2 DEF MeantBy
    <3>3. ASSUME InRun(T, j, l, i, 0) PROVE InRun(T, j, l, i + 1, 0)
      <4>1. InRun(T, j, 0, i + 1, 0)
        BY <1>3, <2>1, <2>6, <3>1, <3>3
      <4> QED BY <3>1, <3>3, <4>1
    <3>4. ASSUME l < Len(n[j]), InRun(T, j, l, i, 0) \/ InRun(T, j, l, i, 1) PROVE InRun(T, j, l + 1, i, 1)
      <4>1. MeantBy(p, n, j, l + 1, i, 1)
        BY <2>1, <2>6, <3>0, <3>1, <3>2, <3>4 DEF MeantBy
      <4> QED BY <2>1, <3>4, <4>1, MeantPairsAre
    <3>5. ASSUME l = Len(n[j]), j < N, InRun(T, j, l, i, 1) PROVE InRun(T, j + 1, 0, i, 0)
      <4>1. <<i, j>> \in F
        <5> HIDE DEF F, T
        <5> QED BY <2>1, <2>2, <3>2, <3>5
      <4>2. (j + 1) - 1 = j /\ 0 # 1
        OBVIOUS
      <4>3. <<i, (j + 1) - 1>> \in F
        <5> HIDE DEF F
        <5> QED BY <4>1, <4>2, Zenon
      <4>4. MeantBy(p, n, j + 1, 0, i, 0)
        BY <2>6, <3>0, <4>2, <4>3 DEF MeantBy
      <4> QED BY <2>1, <3>5, <4>4, MeantPairsAre
    <3> QED BY <2>0, <3>0, <3>3, <3>4, <3>5, Zenon
  <2> QED BY <1>1, <2>5, <2>6
<1>10. RunClosed(AutomatonOf(p), n, T)
  BY <1>7, <1>8, <1>9, RunClosedBySteps
<1> QED BY <1>4, <1>5, <1>10 DEF CompleteRun, InRun, AtStart, InitialState

LEMMA AcceptedIsMatched ==
  ASSUME NEW n, IsPath(n), NEW p, IsPattern(p), AcceptsText(AutomatonOf(p), n)
  PROVE  MatchesSegments(p, n)
<1> DEFINE M == Len(p)
           N == Len(n)
           F == PathTable(p, n)
<1>1. /\ M \in Nat \ {0} /\ N \in Nat \ {0} /\ Len(n[N]) \in Nat \ {0} /\ Len(p[M]) \in Nat \ {0}
      /\ p[M] \in Seq(Letter) /\ n[N] \in Seq(Letter)
  BY PathFacts DEF IsPattern
<1>2. SUFFICES ASSUME p # <<Globstar>> PROVE <<M, N>> \in F
  BY DEF MatchesSegments
<1>3. InRun(MeantPairs(p, n), N, Len(n[N]), M, SegmentSize(p[M]))
  BY <1>2, MeantIsComplete DEF AcceptsText, RunOf, InRun, AtEnd, AutomatonOf
<1>4. MeantBy(p, n, N, Len(n[N]), M, SegmentSize(p[M]))
  BY <1>3, MeantInside
<1>5. CASE p[M] = Globstar
  <2>1. Len(n[N]) > 0 /\ SegmentSize(p[M]) = 1
    BY <1>1, <1>5 DEF SegmentSize
  <2> QED BY <1>4, <1>5, <2>1 DEF MeantBy
<1>6. CASE p[M] # Globstar
  <2>1. <<M - 1, N - 1>> \in F /\ SegmentSeen(p[M], n[N], Len(p[M]), Len(n[N]))
    BY <1>4, <1>6 DEF MeantBy, SegmentSize
  <2>2. SegmentMatches(p[M], n[N])
    BY <1>1, <2>1, SegmentSeenFacts, SegmentMatchesByTable
  <2>3. M - 1 \in 0..M /\ N - 1 \in 0..N /\ (M - 1) + 1 = M /\ (N - 1) + 1 = N /\ M - 1 < M /\ N - 1 < N
    BY <1>1
  <2>4. PathClosed(p, n, F)
    BY PathTableFacts DEF IsPattern, IsPath
  <2>5. \A x \in 0..M, y \in 0..N : <<x, y>> \in F /\ x < M /\ y < N /\ p[x + 1] # Globstar /\ SegmentMatches(p[x + 1], n[y + 1])
          => <<x + 1, y + 1>> \in F
    <3> HIDE DEF F
    <3> QED BY <2>4 DEF PathClosed
  <2> HIDE DEF F, M, N
  <2> QED BY <1>6, <2>1, <2>2, <2>3, <2>5
<1> QED BY <1>5, <1>6

-----------------------------------------------------------------------------
(* The sets of states that the search for containment goes through         *)

(* No edge asks for the symbol that stands for the characters not mentioned.*)
IsPatternAutomaton(a) ==
  IsAutomaton(a) /\ \A e \in a.edges : e.kind = "literal" => e.value # Other

LEMMA PatternAutomata ==
  ASSUME NEW p, IsPattern(p)
  PROVE  IsPatternAutomaton(AutomatonOf(p))
<1>1. ASSUME NEW e \in AutomatonOf(p).edges, e.kind = "literal" PROVE e.value # Other
  <2>1. PICK i \in 1..Len(p) :
             \/ i > 1 /\ p[i - 1] # Globstar /\ e = Literal(<<i - 1, Len(p[i - 1])>>, "/", <<i, 0>>)
             \/ p[i] = Globstar /\ GlobstarEdge(i, Len(p), e)
             \/ p[i] # Globstar /\ SegmentEdge(i, p[i], e)
    BY EdgesAre
  <2>2. "/" # Other
    BY DEF Other
  <2>3. CASE i > 1 /\ p[i - 1] # Globstar /\ e = Literal(<<i - 1, Len(p[i - 1])>>, "/", <<i, 0>>)
    BY <2>2, <2>3, EdgeFields
  <2>4. CASE p[i] = Globstar /\ GlobstarEdge(i, Len(p), e)
    <3>1. ASSUME NEW from, NEW to, NEW kind, e = Edge(from, kind, to) PROVE kind = "literal"
      BY <1>1, <3>1, EdgeFields
    <3>2. ASSUME NEW from, NEW to, e = Literal(from, "/", to) PROVE e.value # Other
      BY <2>2, <3>2, EdgeFields
    <3>3. "any" # "literal" /\ "non-slash" # "literal" /\ "epsilon" # "literal"
      OBVIOUS
    <3> QED BY <2>4, <3>1, <3>2, <3>3, Zenon DEF GlobstarEdge
  <2>5. CASE p[i] # Globstar /\ SegmentEdge(i, p[i], e)
    <3>1. PICK k \in 1..Len(p[i]) :
            \/ p[i][k] # "*" /\ e = Literal(<<i, k - 1>>, p[i][k], <<i, k>>)
            \/ p[i][k] = "*" /\ (e = Edge(<<i, k - 1>>, "epsilon", <<i, k>>) \/ e = Edge(<<i, k - 1>>, "non-slash", <<i, k - 1>>))
      BY <2>5 DEF SegmentEdge
    <3>2. p[i][k] # Other
      BY PathFacts DEF IsPattern
    <3> QED BY <1>1, <3>1, <3>2, EdgeFields
  <2> QED BY <2>1, <2>3, <2>4, <2>5
<1> QED BY <1>1, PatternsHaveAutomata DEF IsPatternAutomaton

LEMMA ClosureFacts ==
  ASSUME NEW a, IsAutomaton(a), NEW S \in SUBSET a.states
  PROVE  /\ Closure(a, S) \subseteq a.states /\ S \subseteq Closure(a, S)
         /\ \A e \in a.edges : e.kind = "epsilon" /\ e.from \in Closure(a, S) => e.to \in Closure(a, S)
         /\ \A C \in SUBSET a.states :
              S \subseteq C /\ (\A e \in a.edges : e.kind = "epsilon" /\ e.from \in C => e.to \in C) => Closure(a, S) \subseteq C
<1> DEFINE moves == [s \in a.states |-> Silent(a, s)]
<1>1. DOMAIN moves = a.states /\ \A s \in a.states : moves[s] = Silent(a, s)
  OBVIOUS
<1>2. \A s, t : t \in Silent(a, s) <=> \E e \in a.edges : e.kind = "epsilon" /\ e.from = s /\ e.to = t
  BY DEF Silent
<1>3. IsGraph(moves)
  BY <1>1, <1>2 DEF IsGraph, IsAutomaton
<1>4. Closure(a, S) = Reachable(moves, S)
  BY DEF Closure
<1> HIDE DEF moves
<1>5. /\ Reachable(moves, S) \subseteq a.states /\ S \subseteq Reachable(moves, S)
      /\ \A x \in Reachable(moves, S) : moves[x] \subseteq Reachable(moves, S)
      /\ \A c \in SUBSET a.states :
           S \subseteq c /\ (\A x \in c : moves[x] \subseteq c) => Reachable(moves, S) \subseteq c
  BY <1>1, <1>3, ReachableFacts
<1>6. \A e \in a.edges : e.kind = "epsilon" /\ e.from \in Closure(a, S) => e.to \in Closure(a, S)
  BY <1>1, <1>2, <1>4, <1>5
<1>7. ASSUME NEW C \in SUBSET a.states, S \subseteq C, \A e \in a.edges : e.kind = "epsilon" /\ e.from \in C => e.to \in C
      PROVE  Closure(a, S) \subseteq C
  <2>1. \A x \in C : moves[x] \subseteq C
    BY <1>1, <1>2, <1>7
  <2> QED BY <1>4, <1>5, <1>7, <2>1
<1> QED BY <1>4, <1>5, <1>6, <1>7

ReadBy(a, S, c) == UNION {{e.to : e \in {x \in Consuming(a, s) : Reads(x, c)}} : s \in S}

LEMMA AfterFacts ==
  ASSUME NEW a, IsAutomaton(a), NEW S, NEW c
  PROVE  /\ Move(a, S, c) = Closure(a, ReadBy(a, S, c))
         /\ ReadBy(a, S, c) \in SUBSET a.states
         /\ \A t : t \in ReadBy(a, S, c) <=> \E e \in a.edges : e.kind # "epsilon" /\ e.from \in S /\ Reads(e, c) /\ e.to = t
<1>1. \A t : t \in ReadBy(a, S, c) <=> \E e \in a.edges : e.kind # "epsilon" /\ e.from \in S /\ Reads(e, c) /\ e.to = t
  <2> DEFINE from(s) == {e.to : e \in {x \in Consuming(a, s) : Reads(x, c)}}
  <2>1. \A s, t : t \in from(s) <=> \E e \in a.edges : e.kind # "epsilon" /\ e.from = s /\ Reads(e, c) /\ e.to = t
    BY DEF Consuming
  <2>2. ReadBy(a, S, c) = UNION {from(s) : s \in S}
    BY DEF ReadBy
  <2> HIDE DEF from
  <2>3. \A t : t \in ReadBy(a, S, c) <=> \E s \in S : t \in from(s)
    BY <2>2, Zenon
  <2>4. ASSUME NEW t, t \in ReadBy(a, S, c)
        PROVE  \E e \in a.edges : e.kind # "epsilon" /\ e.from \in S /\ Reads(e, c) /\ e.to = t
    <3>1. PICK s \in S : t \in from(s)
      BY <2>3, <2>4
    <3>2. PICK e \in a.edges : e.kind # "epsilon" /\ e.from = s /\ Reads(e, c) /\ e.to = t
      BY <2>1, <3>1
    <3> QED BY <3>1, <3>2
  <2>5. ASSUME NEW t, NEW e \in a.edges, e.kind # "epsilon", e.from \in S, Reads(e, c), e.to = t
        PROVE  t \in ReadBy(a, S, c)
    <3>1. t \in from(e.from)
      BY <2>1, <2>5
    <3> QED BY <2>3, <2>5, <3>1
  <2> QED BY <2>4, <2>5
<1>2. ReadBy(a, S, c) \in SUBSET a.states
  BY <1>1 DEF IsAutomaton
<1>3. Move(a, S, c) = Closure(a, ReadBy(a, S, c))
  BY DEF Move, ReadBy
<1> QED BY <1>1, <1>2, <1>3

(* The states that an automaton may be in at a position.                   *)
StatesAt(a, n, x) == {s \in a.states : <<x, s>> \in RunOf(a, n)}

LEMMA StatesAtStart ==
  ASSUME NEW n, IsPath(n), NEW a, IsAutomaton(a)
  PROVE  StatesAt(a, n, AtStart) = Closure(a, {InitialState})
<1> DEFINE S == StatesAt(a, n, AtStart)
           C == Closure(a, {InitialState})
<1>1. CompleteRun(a, n, RunOf(a, n)) /\ AtStart \in Positions(n) /\ {InitialState} \in SUBSET a.states
  BY RunFacts, PositionFacts DEF IsAutomaton
<1>2. /\ C \subseteq a.states /\ InitialState \in C
      /\ \A e \in a.edges : e.kind = "epsilon" /\ e.from \in C => e.to \in C
  BY <1>1, ClosureFacts
<1>3. C \subseteq S
  <2>1. S \in SUBSET a.states /\ {InitialState} \subseteq S
    BY <1>1 DEF StatesAt, CompleteRun, IsAutomaton
  <2>2. ASSUME NEW e \in a.edges, e.kind = "epsilon", e.from \in S PROVE e.to \in S
    <3>1. <<AtStart, e.from>> \in RunOf(a, n) /\ e.to \in a.states
      BY <2>2 DEF StatesAt, IsAutomaton
    <3>2. <<AtStart, e.to>> \in RunOf(a, n)
      BY <1>1, <2>2, <3>1 DEF CompleteRun, RunClosed
    <3> QED BY <3>1, <3>2 DEF StatesAt
  <2> HIDE DEF S
  <2> QED BY <1>1, <2>1, <2>2, ClosureFacts
<1>4. S \subseteq C
  <2> DEFINE T == {t \in RunOf(a, n) : t[1] = AtStart => t[2] \in C}
  <2>1. \A x, s : <<x, s>> \in T <=> <<x, s>> \in RunOf(a, n) /\ (x = AtStart => s \in C)
    OBVIOUS
  <2>2. T \in SUBSET RunOf(a, n)
    OBVIOUS
  <2> HIDE DEF T, C
  <2>3. <<AtStart, InitialState>> \in T
    BY <1>1, <1>2, <2>1 DEF CompleteRun
  <2>4. ASSUME NEW x \in Positions(n), NEW e \in a.edges, <<x, e.from>> \in T
        PROVE  /\ e.kind = "epsilon" => <<x, e.to>> \in T
               /\ e.kind # "epsilon" /\ x # AtEnd(n) /\ Reads(e, SymbolAt(n, x)) => <<NextPosition(n, x), e.to>> \in T
    <3>1. /\ e.kind = "epsilon" => <<x, e.to>> \in RunOf(a, n)
          /\ e.kind # "epsilon" /\ x # AtEnd(n) /\ Reads(e, SymbolAt(n, x)) => <<NextPosition(n, x), e.to>> \in RunOf(a, n)
      BY <1>1, <2>1, <2>4 DEF CompleteRun, RunClosed
    <3>2. NextPosition(n, x) # AtStart
      BY NextPositionFacts
    <3> QED BY <1>2, <2>1, <2>4, <3>1, <3>2
  <2>5. CompleteRun(a, n, T)
    BY <1>1, <2>2, <2>3, <2>4 DEF CompleteRun, RunClosed
  <2>6. RunOf(a, n) \subseteq T
    BY <2>5, RunFacts
  <2> QED BY <2>1, <2>6 DEF StatesAt
<1> QED BY <1>3, <1>4

LEMMA StatesAtNext ==
  ASSUME NEW n, IsPath(n), NEW a, IsAutomaton(a), NEW x \in Positions(n), x # AtEnd(n)
  PROVE  StatesAt(a, n, NextPosition(n, x)) = Move(a, StatesAt(a, n, x), SymbolAt(n, x))
<1> DEFINE next == NextPosition(n, x)
           c == SymbolAt(n, x)
           here == StatesAt(a, n, x)
           S == StatesAt(a, n, next)
           seed == ReadBy(a, here, c)
           C == Closure(a, seed)
<1>1. CompleteRun(a, n, RunOf(a, n)) /\ next \in Positions(n)
  BY RunFacts, NextPositionFacts
<1>2. Move(a, here, c) = C /\ seed \in SUBSET a.states
  BY AfterFacts
<1>3. \A t : t \in seed <=> \E e \in a.edges : e.kind # "epsilon" /\ e.from \in here /\ Reads(e, c) /\ e.to = t
  BY AfterFacts
<1>4. \A s : s \in here <=> s \in a.states /\ <<x, s>> \in RunOf(a, n)
  BY DEF StatesAt
<1>5. \A s : s \in S <=> s \in a.states /\ <<next, s>> \in RunOf(a, n)
  BY DEF StatesAt
<1> HIDE DEF next, c, here, S, seed
<1>6. C \subseteq a.states /\ seed \subseteq C /\ \A e \in a.edges : e.kind = "epsilon" /\ e.from \in C => e.to \in C
  BY <1>2, ClosureFacts
<1>7. C \subseteq S
  <2>1. ASSUME NEW t \in seed PROVE t \in S
    <3>1. PICK e \in a.edges : e.kind # "epsilon" /\ e.from \in here /\ Reads(e, c) /\ e.to = t
      BY <1>3
    <3>2. <<next, e.to>> \in RunOf(a, n)
      BY <1>1, <1>4, <3>1 DEF CompleteRun, RunClosed, next, c
    <3> QED BY <1>2, <1>5, <3>1, <3>2
  <2>2. ASSUME NEW e \in a.edges, e.kind = "epsilon", e.from \in S PROVE e.to \in S
    BY <1>1, <1>5, <2>2 DEF CompleteRun, RunClosed, IsAutomaton
  <2>3. S \in SUBSET a.states
    BY <1>5
  <2> QED BY <1>2, <2>1, <2>2, <2>3, ClosureFacts
<1>8. S \subseteq C
  <2> DEFINE T == {t \in RunOf(a, n) : t[1] = next => t[2] \in C}
  <2>1. \A y, s : <<y, s>> \in T <=> <<y, s>> \in RunOf(a, n) /\ (y = next => s \in C)
    OBVIOUS
  <2>2. T \in SUBSET RunOf(a, n)
    OBVIOUS
  <2> HIDE DEF T, C
  <2>3. <<AtStart, InitialState>> \in T
    BY <1>1, <2>1, NextPositionFacts DEF CompleteRun, next
  <2>4. ASSUME NEW y \in Positions(n), NEW e \in a.edges, <<y, e.from>> \in T
        PROVE  /\ e.kind = "epsilon" => <<y, e.to>> \in T
               /\ e.kind # "epsilon" /\ y # AtEnd(n) /\ Reads(e, SymbolAt(n, y)) => <<NextPosition(n, y), e.to>> \in T
    <3>1. /\ e.kind = "epsilon" => <<y, e.to>> \in RunOf(a, n)
          /\ e.kind # "epsilon" /\ y # AtEnd(n) /\ Reads(e, SymbolAt(n, y)) => <<NextPosition(n, y), e.to>> \in RunOf(a, n)
      BY <1>1, <2>1, <2>4 DEF CompleteRun, RunClosed
    <3>2. ASSUME NextPosition(n, y) = next, e.kind # "epsilon", Reads(e, SymbolAt(n, y)) PROVE e.to \in C
      <4>1. x = y
        BY <3>2, NextPositionFacts DEF next
      <4>2. e.from \in here
        BY <1>4, <2>1, <2>4, <4>1 DEF IsAutomaton
      <4>3. e.to \in seed
        BY <1>3, <3>2, <4>1, <4>2 DEF c
      <4> QED BY <1>6, <4>3
    <3>3. e.kind = "epsilon" => <<y, e.to>> \in T
      BY <1>6, <2>1, <2>4, <3>1
    <3>4. e.kind # "epsilon" /\ y # AtEnd(n) /\ Reads(e, SymbolAt(n, y)) => <<NextPosition(n, y), e.to>> \in T
      BY <2>1, <3>1, <3>2
    <3> QED BY <3>3, <3>4
  <2>5. CompleteRun(a, n, T)
    BY <1>1, <2>2, <2>3, <2>4 DEF CompleteRun, RunClosed
  <2>6. RunOf(a, n) \subseteq T
    BY <2>5, RunFacts
  <2> QED BY <1>5, <2>1, <2>6
<1>9. S = Move(a, here, c)
  BY <1>2, <1>7, <1>8
<1> QED BY <1>9 DEF S, here, c, next

(* Reading goes through every position.                                    *)
LEMMA ReadThrough ==
  ASSUME NEW n, IsPath(n), NEW S, AtStart \in S,
         \A x \in Positions(n) : x \in S /\ x # AtEnd(n) => NextPosition(n, x) \in S
  PROVE  AtEnd(n) \in S
<1> DEFINE N == Len(n)
<1>1. N \in Nat \ {0} /\ \A j \in 1..N : Len(n[j]) \in Nat \ {0}
  BY PathFacts
<1>2. ASSUME NEW j \in 1..N, <<j, 0>> \in S PROVE <<j, Len(n[j])>> \in S
  <2> DEFINE R == {l \in 0..Len(n[j]) : <<j, l>> \in S}
  <2>1. Len(n[j]) \in Nat \ {0}
    BY <1>1
  <2>2. 0 \in R
    BY <1>2, <2>1
  <2>3. ASSUME NEW l \in 0..Len(n[j]), l \in R, l < Len(n[j]) PROVE l + 1 \in R
    <3>1. NextPosition(n, <<j, l>>) = <<j, l + 1>> /\ l + 1 \in 0..Len(n[j]) /\ <<j, l>> # AtEnd(n) /\ <<j, l>> \in Positions(n)
      BY <2>3, PositionFacts
    <3> QED BY <2>3, <3>1
  <2>4. \A l \in 0..Len(n[j]) : l \in R
    <3> HIDE DEF R
    <3> QED BY <2>1, <2>2, <2>3, Climb
  <2> QED BY <2>1, <2>4
<1> DEFINE Q == {j \in 1..N : <<j, 0>> \in S}
<1>3. 1 \in Q
  BY <1>1 DEF AtStart
<1>4. ASSUME NEW j \in 1..N, j \in Q, j < N PROVE j + 1 \in Q
  <2>1. <<j, Len(n[j])>> \in S /\ Len(n[j]) \in 0..Len(n[j]) /\ j + 1 \in 1..N
    BY <1>1, <1>2, <1>4
  <2>2. NextPosition(n, <<j, Len(n[j])>>) = <<j + 1, 0>> /\ <<j, Len(n[j])>> # AtEnd(n) /\ <<j, Len(n[j])>> \in Positions(n)
    BY <1>4, <2>1, PositionFacts
  <2> QED BY <2>1, <2>2
<1>5. \A j \in 1..N : j \in Q
  <2> HIDE DEF Q
  <2> QED BY <1>1, <1>3, <1>4, Climb
<1>6. N \in 1..N
  BY <1>1
<1> QED BY <1>2, <1>5, <1>6 DEF AtEnd

(* Two characters that no edge mentions lead to the same states.           *)
ShownSymbol(a, b, c) == IF c \in Alphabet(a, b) THEN c ELSE Other

LEMMA ShownReads ==
  ASSUME NEW a, IsPatternAutomaton(a), NEW b, IsPatternAutomaton(b), NEW c
  PROVE  /\ ShownSymbol(a, b, c) \in Alphabet(a, b) /\ (ShownSymbol(a, b, c) = "/" <=> c = "/")
         /\ \A S : Move(a, S, ShownSymbol(a, b, c)) = Move(a, S, c) /\ Move(b, S, ShownSymbol(a, b, c)) = Move(b, S, c)
<1>1. \A d : d \in Alphabet(a, b) <=> d = "/" \/ d = Other \/ \E e \in a.edges \cup b.edges : e.kind = "literal" /\ e.value = d
  BY Zenon DEF Alphabet
<1>2. Other # "/"
  BY DEF Other
<1>3. ShownSymbol(a, b, c) \in Alphabet(a, b) /\ (ShownSymbol(a, b, c) = "/" <=> c = "/")
  BY <1>1, <1>2 DEF ShownSymbol
<1>4. ASSUME NEW e \in a.edges \cup b.edges PROVE Reads(e, ShownSymbol(a, b, c)) <=> Reads(e, c)
  <2>1. CASE c \in Alphabet(a, b)
    BY <2>1 DEF ShownSymbol
  <2>2. CASE c \notin Alphabet(a, b)
    <3>1. ShownSymbol(a, b, c) = Other /\ c # "/" /\ ~(e.kind = "literal" /\ e.value = c)
      BY <1>1, <2>2 DEF ShownSymbol
    <3>2. ~(e.kind = "literal" /\ e.value = Other)
      BY DEF IsPatternAutomaton
    <3> QED BY <1>2, <3>1, <3>2 DEF Reads
  <2> QED BY <2>1, <2>2
<1>5. ASSUME NEW x \in {a, b}, NEW S PROVE Move(x, S, ShownSymbol(a, b, c)) = Move(x, S, c)
  <2>1. IsAutomaton(x) /\ x.edges \subseteq a.edges \cup b.edges
    BY DEF IsPatternAutomaton
  <2>2. \A t : t \in ReadBy(x, S, ShownSymbol(a, b, c)) <=> t \in ReadBy(x, S, c)
    <3>1. \A t : t \in ReadBy(x, S, ShownSymbol(a, b, c)) <=> \E e \in x.edges : e.kind # "epsilon" /\ e.from \in S /\ Reads(e, ShownSymbol(a, b, c)) /\ e.to = t
      BY <2>1, AfterFacts
    <3>2. \A t : t \in ReadBy(x, S, c) <=> \E e \in x.edges : e.kind # "epsilon" /\ e.from \in S /\ Reads(e, c) /\ e.to = t
      BY <2>1, AfterFacts
    <3> QED BY <1>4, <2>1, <3>1, <3>2
  <2>3. ReadBy(x, S, ShownSymbol(a, b, c)) = ReadBy(x, S, c)
    BY <2>2
  <2> QED BY <2>1, <2>3, AfterFacts
<1> QED BY <1>3, <1>5

SubsetNodes(a, b) == Reachable(SubsetMoves(a, b), {<<Closure(a, {InitialState}), Closure(b, {InitialState}), TRUE>>})

LEMMA NodesFacts ==
  ASSUME NEW a, IsAutomaton(a), NEW b, IsAutomaton(b)
  PROVE  /\ <<Closure(a, {InitialState}), Closure(b, {InitialState}), TRUE>> \in SubsetNodes(a, b)
         /\ \A S \in SUBSET a.states, R \in SUBSET b.states, slash \in BOOLEAN : \A c \in Alphabet(a, b) :
              <<S, R, slash>> \in SubsetNodes(a, b) /\ (slash => c # "/") /\ Move(a, S, c) # {} =>
                <<Move(a, S, c), Move(b, R, c), c = "/">> \in SubsetNodes(a, b)
<1> DEFINE moves == SubsetMoves(a, b)
           D == (SUBSET a.states) \X (SUBSET b.states) \X BOOLEAN
           first == <<Closure(a, {InitialState}), Closure(b, {InitialState}), TRUE>>
<1>1. DOMAIN moves = D
  BY DEF SubsetMoves
<1>2. \A S, c : Move(a, S, c) \in SUBSET a.states /\ Move(b, S, c) \in SUBSET b.states
  BY AfterFacts, ClosureFacts
<1>3. ASSUME NEW node \in D, NEW d
      PROVE  d \in moves[node] <=> \E c \in Symbols(a, b, node) : d = AfterSymbol(a, b, node, c) /\ d[1] # {}
  BY DEF SubsetMoves
<1> HIDE DEF moves
<1>4. \A node \in D : moves[node] \subseteq D
  <2>1. ASSUME NEW node \in D, NEW c PROVE AfterSymbol(a, b, node, c) \in D
    <3>1. (c = "/") \in BOOLEAN
      OBVIOUS
    <3>2. Move(a, node[1], c) \in SUBSET a.states /\ Move(b, node[2], c) \in SUBSET b.states
      BY <1>2
    <3> QED BY <3>1, <3>2 DEF AfterSymbol
  <2> HIDE DEF D
  <2> QED BY <1>3, <2>1
<1>5. IsFiniteSet(D)
  <2>1. IsFiniteSet(SUBSET a.states) /\ IsFiniteSet(SUBSET b.states)
    BY FS_SUBSET DEF IsAutomaton
  <2>2. IsFiniteSet(BOOLEAN)
    <3>1. IsFiniteSet({TRUE}) /\ IsFiniteSet({TRUE} \cup {FALSE})
      BY FS_Singleton, FS_Union
    <3>2. BOOLEAN = {TRUE} \cup {FALSE}
      OBVIOUS
    <3> QED BY <3>1, <3>2
  <2>3. IsFiniteSet((SUBSET a.states) \X ((SUBSET b.states) \X BOOLEAN))
    BY <2>1, <2>2, FS_Product
  <2> DEFINE E == (SUBSET a.states) \X ((SUBSET b.states) \X BOOLEAN)
             f == [x \in E |-> <<x[1], x[2][1], x[2][2]>>]
  <2>4. f \in Surjection(E, D)
    <3>1. f \in [E -> D]
      OBVIOUS
    <3>2. ASSUME NEW d \in D PROVE \E x \in E : f[x] = d
      <4>1. <<d[1], <<d[2], d[3]>>>> \in E /\ d = <<d[1], d[2], d[3]>>
        OBVIOUS
      <4>2. f[<<d[1], <<d[2], d[3]>>>>] = d
        BY <4>1
      <4> QED BY <4>1, <4>2
    <3> HIDE DEF f, E, D
    <3> QED BY <3>1, <3>2 DEF Surjection
  <2> HIDE DEF f, E, D
  <2> QED BY <2>3, <2>4, FS_Surjection DEF E
<1>6. first \in D
  <2>1. {InitialState} \in SUBSET a.states /\ {InitialState} \in SUBSET b.states
    BY DEF IsAutomaton
  <2>2. Closure(a, {InitialState}) \in SUBSET a.states /\ Closure(b, {InitialState}) \in SUBSET b.states
    BY <2>1, ClosureFacts
  <2> QED BY <2>2
<1>7. first \in SubsetNodes(a, b) /\ \A x \in SubsetNodes(a, b) : moves[x] \subseteq SubsetNodes(a, b)
  <2>1. IsGraph(moves) /\ {first} \in SUBSET DOMAIN moves
    BY <1>1, <1>4, <1>5, <1>6 DEF IsGraph
  <2> HIDE DEF first
  <2>2. {first} \subseteq Reachable(moves, {first}) /\ \A x \in Reachable(moves, {first}) : moves[x] \subseteq Reachable(moves, {first})
    BY <2>1, ReachableFacts
  <2>3. SubsetNodes(a, b) = Reachable(moves, {first})
    BY DEF SubsetNodes, moves, first
  <2> QED BY <2>2, <2>3
<1>8. ASSUME NEW S \in SUBSET a.states, NEW R \in SUBSET b.states, NEW slash \in BOOLEAN, NEW c \in Alphabet(a, b),
             <<S, R, slash>> \in SubsetNodes(a, b), slash => c # "/", Move(a, S, c) # {}
      PROVE  <<Move(a, S, c), Move(b, R, c), c = "/">> \in SubsetNodes(a, b)
  <2> DEFINE node == <<S, R, slash>>
             d == <<Move(a, S, c), Move(b, R, c), c = "/">>
  <2>1. node \in D /\ node[1] = S /\ node[2] = R /\ node[3] = slash
    OBVIOUS
  <2>2. c \in Symbols(a, b, node) /\ d = AfterSymbol(a, b, node, c)
    BY <1>8 DEF Symbols, AfterSymbol
  <2>3. d[1] # {}
    BY <1>8
  <2>4. d \in moves[node]
    <3> HIDE DEF d, node, D
    <3> QED BY <1>3, <2>1, <2>2, <2>3
  <2> QED BY <1>7, <1>8, <2>4
<1> QED BY <1>7, <1>8

LEMMA WithinKeepsAccepted ==
  ASSUME NEW n, IsPath(n), NEW a, IsPatternAutomaton(a), NEW b, IsPatternAutomaton(b),
         LanguageWithin(a, b), AcceptsText(a, n)
  PROVE  AcceptsText(b, n)
<1> DEFINE S(x) == StatesAt(a, n, x)
           R(x) == StatesAt(b, n, x)
           node(x) == <<S(x), R(x), x[2] = 0>>
           Q == {x \in Positions(n) : S(x) = {} \/ node(x) \in SubsetNodes(a, b)}
<1>0. IsAutomaton(a) /\ IsAutomaton(b)
  BY DEF IsPatternAutomaton
<1>1. \A x : S(x) \in SUBSET a.states /\ R(x) \in SUBSET b.states
  BY DEF StatesAt
<1>2. AtStart \in Q
  <2>1. node(AtStart) = <<Closure(a, {InitialState}), Closure(b, {InitialState}), TRUE>>
    BY <1>0, StatesAtStart DEF AtStart
  <2>2. <<Closure(a, {InitialState}), Closure(b, {InitialState}), TRUE>> \in SubsetNodes(a, b)
    BY <1>0, NodesFacts
  <2>3. AtStart \in Positions(n)
    BY PositionFacts
  <2> HIDE DEF node, S
  <2> QED BY <2>1, <2>2, <2>3
<1>3. ASSUME NEW x \in Positions(n), x \in Q, x # AtEnd(n) PROVE NextPosition(n, x) \in Q
  <2> DEFINE next == NextPosition(n, x)
             c == SymbolAt(n, x)
             shown == ShownSymbol(a, b, c)
  <2>1. next \in Positions(n)
    BY <1>3, NextPositionFacts
  <2>2. S(next) = Move(a, S(x), c) /\ R(next) = Move(b, R(x), c)
    BY <1>0, <1>3, StatesAtNext
  <2>3. /\ shown \in Alphabet(a, b) /\ (shown = "/" <=> c = "/")
        /\ Move(a, S(x), shown) = S(next) /\ Move(b, R(x), shown) = R(next)
    <3> HIDE DEF S, R
    <3> QED BY <2>2, ShownReads
  <2>4. (x[2] = 0 => c # "/") /\ (c = "/" <=> next[2] = 0)
    <3>1. x = <<x[1], x[2]>> /\ x[1] \in 1..Len(n) /\ x[2] \in 0..Len(n[x[1]]) /\ Len(n[x[1]]) \in Nat \ {0}
      BY PositionFacts, PathFacts
    <3>2. CASE x[2] < Len(n[x[1]])
      <4>1. next = <<x[1], x[2] + 1>> /\ c # "/"
        BY <3>1, <3>2, PositionFacts
      <4> QED BY <3>1, <4>1
    <3>3. CASE x[2] = Len(n[x[1]])
      <4>1. next = <<x[1] + 1, 0>> /\ c = "/"
        BY <3>1, <3>3, PositionFacts
      <4> QED BY <3>1, <3>3, <4>1
    <3> QED BY <3>1, <3>2, <3>3
  <2> HIDE DEF next, c, shown
  <2>5. CASE S(x) = {}
    <3>1. ReadBy(a, {}, c) = {}
      BY <1>0, AfterFacts
    <3>2. Move(a, {}, c) = Closure(a, {})
      BY <1>0, <3>1, AfterFacts
    <3>3. Closure(a, {}) \subseteq {}
      BY <1>0, ClosureFacts
    <3>4. S(next) = {}
      <4> HIDE DEF S
      <4> QED BY <2>2, <2>5, <3>2, <3>3
    <3> HIDE DEF node
    <3> QED BY <2>1, <3>4 DEF next
  <2>6. CASE node(x) \in SubsetNodes(a, b) /\ S(next) # {}
    <3>1. (x[2] = 0) \in BOOLEAN /\ ((x[2] = 0) => shown # "/")
      BY <2>3, <2>4
    <3>2. <<Move(a, S(x), shown), Move(b, R(x), shown), shown = "/">> \in SubsetNodes(a, b)
      <4> HIDE DEF S, R
      <4> QED BY <1>0, <1>1, <2>3, <2>6, <3>1, NodesFacts
    <3>3. <<S(next), R(next), shown = "/">> = node(next)
      <4>1. (shown = "/") = (next[2] = 0)
        BY <2>3, <2>4
      <4> HIDE DEF S, R
      <4> QED BY <4>1
    <3>4. node(next) \in SubsetNodes(a, b)
      <4> HIDE DEF node, S, R
      <4> QED BY <2>3, <3>2, <3>3
    <3> HIDE DEF node
    <3> QED BY <2>1, <3>4 DEF next
  <2>7. CASE S(next) = {}
    <3> HIDE DEF node
    <3> QED BY <2>1, <2>7 DEF next
  <2> HIDE DEF node, S
  <2> QED BY <1>3, <2>5, <2>6, <2>7
<1>4. AtEnd(n) \in Q
  <2> HIDE DEF Q
  <2> QED BY <1>2, <1>3, ReadThrough
<1>5. a.accept \in S(AtEnd(n))
  BY DEF AcceptsText, StatesAt, RunOf
<1>6. node(AtEnd(n)) \in SubsetNodes(a, b)
  <2> HIDE DEF node, S
  <2> QED BY <1>4, <1>5
<1>7. b.accept \in R(AtEnd(n))
  <2>1. node(AtEnd(n))[1] = S(AtEnd(n)) /\ node(AtEnd(n))[2] = R(AtEnd(n))
    OBVIOUS
  <2>2. \A x \in SubsetNodes(a, b) : a.accept \in x[1] => b.accept \in x[2]
    BY DEF LanguageWithin, SubsetNodes
  <2> HIDE DEF node, S, R
  <2> QED BY <1>5, <1>6, <2>1, <2>2
<1> QED BY <1>7 DEF StatesAt, AcceptsText

-----------------------------------------------------------------------------
(* What is accepted is matched, for patterns as they are written           *)

LEMMA WrittenNames == Dot \in SegmentName /\ Dot \in Seq(Letter) /\ Globstar \in SegmentName /\ Globstar \in Seq(Letter)
<1>1. "." \in Letter /\ "*" \in Letter
  BY DEF Letter, Other
<1>2. Dot \in Seq(Letter) /\ Dot # <<>>
  <2> DEFINE c == "."
  <2>1. c \in Letter
    BY <1>1
  <2> HIDE DEF c
  <2>2. <<c>> \in Seq(Letter) /\ <<c>> # <<>>
    BY <2>1
  <2> QED BY <2>2 DEF Dot, c
<1>3. Globstar \in Seq(Letter) /\ Globstar # <<>>
  <2> DEFINE c == "*"
  <2>1. c \in Letter
    BY <1>1
  <2> HIDE DEF c
  <2>2. <<c, c>> \in Seq(Letter) /\ <<c, c>> # <<>>
    BY <2>1
  <2> QED BY <2>2 DEF Globstar, c
<1> QED BY <1>2, <1>3 DEF SegmentName

(* The segments of a text make a pattern, and its automaton accepts in one  *)
(* of its states.                                                           *)
LEMMA TextsHaveAutomata ==
  ASSUME NEW s, IsPathText(s)
  PROVE  IsPattern(PatternSegments(s)) /\ IsAutomaton(Automaton(s)) /\ Automaton(s).accept \in Automaton(s).states
<1>1. IsPattern(PatternSegments(s))
  <2>1. CASE Normalize(s) # <<>>
    BY <2>1, NormalizedText
  <2>2. CASE Normalize(s) = <<>>
    <3>1. PatternSegments(s) = <<Dot>>
      BY <2>2 DEF PatternSegments
    <3>2. <<Dot>> \in Seq(SegmentName) /\ <<Dot>> # <<>> /\ Len(<<Dot>>) = 1
      BY WrittenNames
    <3> QED BY <3>1, <3>2 DEF IsPattern, IsPath, NoTwoGlobstars
  <2> QED BY <2>1, <2>2
<1> DEFINE p == PatternSegments(s)
<1>2. IsPath(p)
  BY <1>1 DEF IsPattern
<1> HIDE DEF p
<1>3. Len(p) \in 1..Len(p) /\ SegmentSize(p[Len(p)]) \in 0..SegmentSize(p[Len(p)])
  BY <1>2, PathFacts DEF SegmentSize
<1>4. AutomatonOf(p).accept \in AutomatonOf(p).states
  BY <1>3, StatesAre DEF AutomatonOf
<1>5. IsAutomaton(AutomatonOf(p))
  BY <1>1, PatternsHaveAutomata DEF p
<1> QED BY <1>1, <1>4, <1>5 DEF Automaton, p

(* Overlap does not depend on which pattern is named first, in either of   *)
(* the two ways in which patterns are compared.                            *)
THEOREM OverlapsAreMutual ==
  ASSUME NEW p, IsPathText(p), NEW q, IsPathText(q)
  PROVE  /\ Intersect(p, q) <=> Intersect(q, p)
         /\ Overlaps(p, q) <=> Overlaps(q, p)
<1>1. Intersect(p, q) <=> Intersect(q, p)
  BY TextsHaveAutomata, MeetingIsMutual DEF Intersect
<1> QED BY <1>1 DEF Overlaps

LEMMA AcceptedFiles ==
  ASSUME NEW path, NamesFile(path), NEW pattern, IsPathText(pattern),
         IsPattern(PatternSegments(pattern)), AcceptsText(Automaton(pattern), Normalize(path))
  PROVE  Matches(path, pattern)
<1> DEFINE n == Normalize(path)
<1>1. IsPath(n) /\ Split(n) = n
  BY NormalizedText DEF NamesFile
<1>2. MatchesSegments(PatternSegments(pattern), n)
  BY <1>1, AcceptedIsMatched DEF Automaton
<1>3. CASE Normalize(pattern) # <<>>
  <2>1. PatternSegments(pattern) = Collapse(Normalize(pattern)) /\ Split(Normalize(pattern)) = Normalize(pattern)
    BY <1>3, NormalizedText
  <2> HIDE DEF n
  <2> QED BY <1>1, <1>2, <2>1 DEF Matches, MatchesSegments, TableAccepts, PathTable, n
<1>4. ASSUME Normalize(pattern) = <<>> PROVE FALSE
  <2> DEFINE p == <<Dot>>
             R == {<<0, 0>>}
  <2>1. PatternSegments(pattern) = p
    BY <1>4 DEF PatternSegments
  <2>2. Len(p) = 1 /\ p[1] = Dot /\ Dot # Globstar /\ p # <<Globstar>> /\ Dot \in Seq(Letter) /\ p \in Seq(Seq(Letter))
    <3>1. Dot # Globstar
      BY DEF Dot, Globstar
    <3>2. Dot \in Seq(Letter)
      BY WrittenNames
    <3> QED BY <3>1, <3>2
  <2>3. \A j \in 1..Len(n) : n[j] # Dot
    <3>1. n \in Seq({path[i] : i \in 1..Len(path)} \ {<<>>, Dot})
      BY NormalizeType DEF NamesFile, IsPathText
    <3> HIDE DEF n
    <3>2. \A j \in 1..Len(n) : n[j] \in {path[i] : i \in 1..Len(path)} \ {<<>>, Dot}
      BY <3>1, ElementOfSeq
    <3> QED BY <3>2
  <2>4. \A j \in 1..Len(n) : ~SegmentMatches(Dot, n[j])
    <3>1. ~Contains(Dot, "*")
      BY DEF Dot, Contains
    <3> QED BY <2>3, <3>1 DEF SegmentMatches
  <2> HIDE DEF n, p
  <2>5. n \in Seq(SegmentName) /\ Len(n) \in Nat \ {0}
    BY <1>1, PathFacts DEF IsPath
  <2>6. PathClosed(p, n, R)
    <3>1. ASSUME NEW i \in 0..Len(p), NEW j \in 0..Len(n), <<i, j>> \in R
          PROVE  i = 0 /\ p[i + 1] = Dot /\ (j < Len(n) => ~SegmentMatches(Dot, n[j + 1]))
      <4>1. i = 0 /\ j = 0
        BY <3>1
      <4>2. 0 < Len(n) => 1 \in 1..Len(n)
        BY <2>5
      <4> QED BY <2>2, <2>4, <4>1, <4>2
    <3> QED BY <2>2, <3>1 DEF PathClosed
  <2>7. R \in SUBSET Cells(p, n) /\ <<0, 0>> \in R
    BY <2>2, <2>5 DEF Cells
  <2>8. PathTable(p, n) \subseteq R
    <3> HIDE DEF R
    <3> QED BY <2>2, <2>5, <2>6, <2>7, PathTableFacts
  <2>9. <<Len(p), Len(n)>> \in PathTable(p, n)
    BY <1>2, <2>1, <2>2 DEF MatchesSegments
  <2> QED BY <2>2, <2>8, <2>9
<1> QED BY <1>3, <1>4

(* A pattern that is taken to lie within another one matches no file       *)
(* outside it.                                                             *)
THEOREM CoverageContains ==
  ASSUME NEW path, NamesFile(path), NEW p, IsPathText(p), NEW q, IsPathText(q), Subset(p, q), Matches(path, p)
  PROVE  Matches(path, q)
<1>1. /\ IsPath(Normalize(path)) /\ IsPattern(PatternSegments(p))
      /\ AcceptsText(Automaton(p), Normalize(path))
  BY MatchedFiles
<1>2. IsPattern(PatternSegments(q))
  <2>1. CASE Normalize(q) # <<>>
    BY <2>1, NormalizedText
  <2>2. CASE Normalize(q) = <<>>
    <3>1. PatternSegments(q) = <<Dot>>
      BY <2>2 DEF PatternSegments
    <3>2. Dot \in SegmentName
      BY WrittenNames
    <3>3. <<Dot>> \in Seq(SegmentName) /\ <<Dot>> # <<>> /\ Len(<<Dot>>) = 1
      BY <3>2
    <3> QED BY <3>1, <3>3 DEF IsPattern, IsPath, NoTwoGlobstars
  <2> QED BY <2>1, <2>2
<1>3. IsPatternAutomaton(Automaton(p)) /\ IsPatternAutomaton(Automaton(q))
  BY <1>1, <1>2, PatternAutomata DEF Automaton
<1>4. AcceptsText(Automaton(q), Normalize(path))
  BY <1>1, <1>3, WithinKeepsAccepted DEF Subset
<1> QED BY <1>2, <1>4, AcceptedFiles

-----------------------------------------------------------------------------
(* Owned paths and the directories that are listed                         *)

LEMMA ExpandFacts ==
  ASSUME NEW o, IsPathText(o)
  PROVE  /\ \A e \in Expand(o) : IsPathText(e)
         /\ o \in Expand(o) /\ Expand(o) \subseteq ExpandPattern(o)
<1>1. IsPathText(Append(o, Globstar))
  BY WrittenNames, AppendProperties DEF IsPathText
<1>2. ASSUME HasWildcard(Normalize(o)) PROVE HasWildcard(o)
  <2>1. Normalize(o) \in Seq({o[i] : i \in 1..Len(o)} \ {<<>>, Dot})
    BY NormalizeType DEF IsPathText
  <2>2. PICK j \in 1..Len(Normalize(o)) : Contains(Normalize(o)[j], "*")
    BY <1>2, <2>1 DEF HasWildcard
  <2>3. Normalize(o)[j] \in {o[i] : i \in 1..Len(o)} \ {<<>>, Dot}
    BY <2>1, ElementOfSeq
  <2>4. PICK i \in 1..Len(o) : Normalize(o)[j] = o[i]
    BY <2>3
  <2> QED BY <2>2, <2>4 DEF HasWildcard, IsPathText
<1> QED BY <1>1, <1>2 DEF Expand, ExpandPattern

(* A file that two cells own lies in owned paths that overlap.             *)
THEOREM SharedOwnershipIsSeen ==
  ASSUME NEW path, NamesFile(path), NEW p, IsPathText(p), NEW q, IsPathText(q),
         OwnedBy(path, {p}), OwnedBy(path, {q})
  PROVE  OwnedOverlap(p, q)
<1>1. PICK d \in Expand(p) : Matches(path, d)
  BY DEF OwnedBy
<1>2. PICK e \in Expand(q) : Matches(path, e)
  BY DEF OwnedBy
<1>3. Intersect(d, e)
  BY <1>1, <1>2, ExpandFacts, SharesAreSeen
<1> QED BY <1>1, <1>2, <1>3, ExpandFacts DEF OwnedOverlap

(* What is matched by a pattern that owned paths cover is owned.           *)
THEOREM CoveredFilesAreOwned ==
  ASSUME NEW path, NamesFile(path), NEW p, IsPathText(p), NEW owned, \A o \in owned : IsPathText(o),
         CoveredByOwned(p, owned), Matches(path, p)
  PROVE  OwnedBy(path, owned)
<1>1. PICK o \in owned : \E e \in Expand(o) : Subset(p, e)
  BY DEF CoveredByOwned
<1>2. PICK e \in Expand(o) : Subset(p, e)
  BY <1>1
<1>3. Matches(path, e)
  BY <1>2, ExpandFacts, CoverageContains
<1> QED BY <1>2, <1>3 DEF OwnedBy

LEMMA ListedPathFacts ==
  ASSUME NEW path, IsListedPath(path)
  PROVE  /\ IsPathText(path) /\ Normalize(path) = path /\ Split(path) = path /\ NamesFile(path)
         /\ Len(path) \in Nat \ {0} /\ DOMAIN path = 1..Len(path)
<1>1. path \in Seq(Seq(Letter)) /\ path # <<>> /\ DOMAIN path = 1..Len(path)
  BY DEF IsListedPath, IsPathText
<1>2. Normalize(path) = path
  BY <1>1, NormalizeKeeps DEF IsListedPath
<1>3. Len(path) \in Nat \ {0}
  BY <1>1, EmptySeq, LenProperties
<1> QED BY <1>1, <1>2, <1>3 DEF IsListedPath, Split, NamesFile

LEMMA DirectoryIsMatched ==
  ASSUME NEW path, IsListedPath(path), NEW k \in 1..(Len(path) - 1)
  PROVE  /\ IsPathText(Append(SubSeq(path, 1, k), Globstar))
         /\ Matches(path, Append(SubSeq(path, 1, k), Globstar))
<1> DEFINE d == SubSeq(path, 1, k)
           p == Append(d, Globstar)
           T == PathTable(p, path)
<1>1. path \in Seq(Seq(Letter)) /\ Len(path) \in Nat \ {0} /\ k \in Nat \ {0} /\ k < Len(path)
  BY ListedPathFacts DEF IsPathText
<1>2. d \in Seq(Seq(Letter)) /\ Len(d) = k /\ \A i \in 1..k : d[i] = path[i]
  BY <1>1, SubSeqProperties
<1> HIDE DEF d
<1>3. /\ p \in Seq(Seq(Letter)) /\ Len(p) = k + 1 /\ p[k + 1] = Globstar
      /\ \A i \in 1..k : p[i] = path[i]
  BY <1>1, <1>2, WrittenNames, EndFacts
<1>4. Globstar \notin {<<>>, Dot, DotDot} /\ Contains(Globstar, "*")
  BY DEF Globstar, Dot, DotDot, Contains
<1>5. \A i \in 1..k : p[i] \notin {<<>>, Dot, DotDot} /\ p[i] # Globstar /\ ~Contains(p[i], "*")
  <2>1. ASSUME NEW i \in 1..k PROVE path[i] \notin {<<>>, Dot, DotDot} /\ ~Contains(path[i], "*")
    <3>1. i \in DOMAIN path
      BY <1>1
    <3> QED BY <3>1 DEF IsListedPath
  <2> QED BY <1>3, <1>4, <2>1
<1> HIDE DEF p
<1>6. Normalize(p) = p
  <2>1. ASSUME NEW i \in 1..Len(p) PROVE p[i] \notin {<<>>, Dot, DotDot}
    <3>1. i \in 1..k \/ i = k + 1
      BY <1>1, <1>3
    <3> QED BY <1>3, <1>4, <1>5, <3>1
  <2> QED BY <1>3, <2>1, NormalizeKeeps
<1>7. NoTwoGlobstars(p)
  <2>1. ASSUME NEW i \in 1..Len(p), i > 1 PROVE i - 1 \in 1..k
    BY <1>1, <1>3, <2>1
  <2> QED BY <1>5, <2>1 DEF NoTwoGlobstars
<1>8. Collapse(p) = p /\ Split(p) = p
  <2>1. p # <<>>
    BY <1>1, <1>3
  <2> QED BY <1>3, <1>7, <2>1, CollapseKeeps DEF Split
<1>9. <<0, 0>> \in T /\ PathClosed(p, path, T)
  BY <1>1, <1>3, PathTableFacts
<1> HIDE DEF T
<1>10. \A i \in 0..k : <<i, i>> \in T
  <2> DEFINE S == {i \in 0..k : <<i, i>> \in T}
  <2>1. 0 \in S
    BY <1>1, <1>9
  <2>2. ASSUME NEW i \in 0..k, i \in S, i < k PROVE i + 1 \in S
    <3>1. i + 1 \in 1..k /\ i + 1 \in 0..k /\ i \in 0..Len(p) /\ i \in 0..Len(path) /\ i < Len(p) /\ i < Len(path)
      BY <1>1, <1>3, <2>2
    <3>2. p[i + 1] # Globstar /\ SegmentMatches(p[i + 1], path[i + 1])
      BY <1>3, <1>5, <3>1 DEF SegmentMatches
    <3>3. <<i + 1, i + 1>> \in T
      BY <1>9, <2>2, <3>1, <3>2 DEF PathClosed
    <3> QED BY <3>1, <3>3
  <2>3. \A i \in 0..k : i \in S
    <3> HIDE DEF S
    <3> QED BY <1>1, <2>1, <2>2, Climb
  <2> QED BY <2>3
<1>11. <<k + 1, k + 1>> \in T
  <2>1. k \in 0..k /\ k \in 0..Len(p) /\ k \in 0..Len(path) /\ k + 1 = Len(p) /\ k < Len(path)
    BY <1>1, <1>3
  <2> QED BY <1>3, <1>9, <1>10, <2>1 DEF PathClosed
<1>12. <<k + 1, Len(path)>> \in T
  <2> DEFINE S == {j \in (k + 1)..Len(path) : <<k + 1, j>> \in T}
  <2>1. k + 1 \in S
    BY <1>1, <1>11
  <2>2. ASSUME NEW j \in (k + 1)..Len(path), j \in S, j < Len(path) PROVE j + 1 \in S
    <3>1. j + 1 \in (k + 1)..Len(path) /\ j \in 0..Len(path) /\ k + 1 \in 0..Len(p) /\ k + 1 > 0
      BY <1>1, <1>3, <2>2
    <3>2. <<k + 1, j + 1>> \in T
      BY <1>3, <1>9, <2>2, <3>1 DEF PathClosed
    <3> QED BY <3>1, <3>2
  <2>3. \A j \in (k + 1)..Len(path) : j \in S
    <3>1. k + 1 \in Nat
      BY <1>1
    <3> HIDE DEF S
    <3> QED BY <1>1, <2>1, <2>2, <3>1, Climb
  <2>4. Len(path) \in (k + 1)..Len(path)
    BY <1>1
  <2> QED BY <2>3, <2>4
<1>13. TableAccepts(PathMoves(p, path), p, path)
  BY <1>3, <1>12 DEF TableAccepts, PathTable, T
<1>14. Matches(path, p)
  BY <1>6, <1>8, <1>13, ListedPathFacts DEF Matches
<1> QED BY <1>3, <1>14 DEF p, d, IsPathText

(* No directory above an owned file is passed over, but for those that are *)
(* never entered.                                                          *)
THEOREM OwnedIsListed ==
  ASSUME NEW path, IsListedPath(path), NEW governed, \A p \in governed : IsPathText(p), OwnedBy(path, governed)
  PROVE  Listed(path, governed) \/ \E k \in 1..(Len(path) - 1) : path[k] \in AlwaysIgnored
<1> SUFFICES ASSUME \A k \in 1..(Len(path) - 1) : path[k] \notin AlwaysIgnored PROVE Listed(path, governed)
  OBVIOUS
<1>1. PICK o \in governed : \E e \in Expand(o) : Matches(path, e)
  BY DEF OwnedBy
<1>2. PICK e \in Expand(o) : Matches(path, e)
  BY <1>1
<1>3. ASSUME NEW k \in 1..(Len(path) - 1) PROVE Visits(SubSeq(path, 1, k), governed)
  <2>1. Last(SubSeq(path, 1, k)) = path[k]
    <3>1. path \in Seq(Seq(Letter)) /\ Len(path) \in Nat \ {0} /\ k \in Nat \ {0} /\ k < Len(path)
      BY ListedPathFacts DEF IsPathText
    <3>2. Len(SubSeq(path, 1, k)) = k /\ \A i \in 1..k : SubSeq(path, 1, k)[i] = path[i]
      BY <3>1, SubSeqProperties
    <3> QED BY <3>1, <3>2 DEF Last
  <2>2. Overlaps(e, Append(SubSeq(path, 1, k), Globstar))
    BY <1>2, ExpandFacts, ListedPathFacts, DirectoryIsMatched, SharesAreSeen
  <2> QED BY <1>1, <1>2, <2>1, <2>2 DEF Visits
<1> QED BY <1>3 DEF Listed

-----------------------------------------------------------------------------
(* The proxy                                                               *)

(* Which declaration of a tool is the latest, and whether there is one.     *)
LastDeclared(tools, n, d) ==
  \E i \in 1..Len(tools) :
    /\ tools[i] = d /\ SameName(d.name, n)
    /\ \A j \in 1..Len(tools) : j > i => ~SameName(tools[j].name, n)
DeclaredFor(tools, n) == \E i \in 1..Len(tools) : SameName(tools[i].name, n)
AgreeOn(tools, given, n) ==
  /\ \A d : LastDeclared(tools, n, d) <=> LastDeclared(given, n, d)
  /\ DeclaredFor(tools, n) <=> DeclaredFor(given, n)

LEMMA LatestOfAppend ==
  ASSUME NEW s \in Seq(Declaration), NEW e \in Declaration, NEW n
  PROVE  /\ \A d : LastDeclared(Append(s, e), n, d) <=> IF SameName(e.name, n) THEN d = e ELSE LastDeclared(s, n, d)
         /\ DeclaredFor(Append(s, e), n) <=> SameName(e.name, n) \/ DeclaredFor(s, n)
<1> DEFINE t == Append(s, e)
<1>1. /\ Len(s) \in Nat /\ Len(t) = Len(s) + 1 /\ t[Len(s) + 1] = e
      /\ \A i \in 1..Len(s) : t[i] = s[i]
  BY AppendProperties, LenProperties
<1> HIDE DEF t
<1>2. CASE SameName(e.name, n)
  <2>1. DeclaredFor(t, n)
    BY <1>1, <1>2 DEF DeclaredFor
  <2>2. LastDeclared(t, n, e)
    BY <1>1, <1>2 DEF LastDeclared
  <2>3. ASSUME NEW d, LastDeclared(t, n, d) PROVE d = e
    <3>1. PICK i \in 1..Len(t) : t[i] = d /\ \A j \in 1..Len(t) : j > i => ~SameName(t[j].name, n)
      BY <2>3 DEF LastDeclared
    <3>2. i = Len(t)
      BY <1>1, <1>2, <3>1
    <3> QED BY <1>1, <3>1, <3>2
  <2> QED BY <1>2, <2>1, <2>2, <2>3 DEF t
<1>3. CASE ~SameName(e.name, n)
  <2>1. DeclaredFor(t, n) <=> DeclaredFor(s, n)
    BY <1>1, <1>3 DEF DeclaredFor
  <2>2. ASSUME NEW d, LastDeclared(t, n, d) PROVE LastDeclared(s, n, d)
    <3>1. PICK i \in 1..Len(t) : t[i] = d /\ SameName(d.name, n)
                                 /\ \A j \in 1..Len(t) : j > i => ~SameName(t[j].name, n)
      BY <2>2 DEF LastDeclared
    <3>2. i \in 1..Len(s) /\ \A j \in 1..Len(s) : j \in 1..Len(t) /\ t[j] = s[j]
      BY <1>1, <1>3, <3>1
    <3> QED BY <3>1, <3>2 DEF LastDeclared
  <2>3. ASSUME NEW d, LastDeclared(s, n, d) PROVE LastDeclared(t, n, d)
    <3>1. PICK i \in 1..Len(s) : s[i] = d /\ SameName(d.name, n)
                                 /\ \A j \in 1..Len(s) : j > i => ~SameName(s[j].name, n)
      BY <2>3 DEF LastDeclared
    <3>2. i \in 1..Len(t) /\ t[i] = d
      BY <1>1, <3>1
    <3>3. ASSUME NEW j \in 1..Len(t), j > i PROVE ~SameName(t[j].name, n)
      <4>1. CASE j \in 1..Len(s)  BY <1>1, <3>1, <3>3, <4>1
      <4>2. CASE j = Len(s) + 1  BY <1>1, <1>3, <4>2
      <4> QED BY <1>1, <4>1, <4>2
    <3> QED BY <3>1, <3>2, <3>3 DEF LastDeclared
  <2> QED BY <1>3, <2>1, <2>2, <2>3 DEF t
<1> QED BY <1>2, <1>3

LEMMA SameAppended ==
  ASSUME NEW s \in Seq(Declaration), NEW t \in Seq(Declaration), NEW e \in Declaration, NEW n, AgreeOn(s, t, n)
  PROVE  AgreeOn(Append(s, e), Append(t, e), n)
BY LatestOfAppend DEF AgreeOn

LEMMA OtherAppended ==
  ASSUME NEW s, NEW t \in Seq(Declaration), NEW e \in Declaration, NEW n, AgreeOn(s, t, n), ~SameName(e.name, n)
  PROVE  AgreeOn(s, Append(t, e), n)
BY LatestOfAppend DEF AgreeOn

(* What is left when a tool is deleted.                                     *)
LeavingOut(s, n, kept) ==
  /\ WithoutTool(s, n) = kept[Len(s)] /\ kept[0] = <<>>
  /\ \A i \in 1..Len(s) : kept[i] = Unless(kept[i - 1], s[i], n)

LEMMA WithoutSteps ==
  ASSUME NEW s \in Seq(Declaration), NEW n
  PROVE  \E kept \in [0..Len(s) -> Seq(Declaration)] : LeavingOut(s, n, kept)
<1> DEFINE V == Seq(Declaration)
           step == [x \in (1..Len(s)) \X V |-> Unless(x[2], s[x[1]], n)]
           Solves(g) == g = [i \in 0..Len(s) |-> IF i = 0 THEN <<>> ELSE Unless(g[i - 1], s[i], n)]
           done == CHOOSE g : Solves(g)
<1>1. Len(s) \in Nat /\ <<>> \in V
  BY EmptySeq, LenProperties
<1>2. ASSUME NEW k \in 1..Len(s), NEW v \in V PROVE Unless(v, s[k], n) \in V
  BY EndFacts, ElementOfSeq DEF Unless
<1>3. \A k \in 1..Len(s) : \A v \in V : step[<<k, v>>] \in V
  <2> HIDE DEF V
  <2> QED BY <1>2
<1>4. PICK g : GoesOn(g, Len(s), V, <<>>, step)
  <2> HIDE DEF V, step
  <2> QED BY <1>1, <1>3, Recursion
<1>5. Solves(g)
  <2>1. ASSUME NEW k \in 1..Len(s) PROVE g[k] = Unless(g[k - 1], s[k], n)
    <3>1. g[k - 1] \in V
      BY <1>1, <1>4 DEF GoesOn
    <3> HIDE DEF V
    <3> QED BY <1>4, <3>1 DEF GoesOn
  <2> HIDE DEF V
  <2> QED BY <1>1, <1>4, <2>1 DEF GoesOn
<1>6. Solves(done)
  <2> HIDE DEF Solves
  <2> QED BY <1>5
<1>7. WithoutTool(s, n) = done[Len(s)]
  BY DEF WithoutTool
<1> HIDE DEF done
<1>8. done[0] = <<>> /\ \A k \in 1..Len(s) : done[k] = Unless(done[k - 1], s[k], n)
  BY <1>1, <1>6
<1>9. \A k \in 0..Len(s) : done[k] \in V
  <2> DEFINE S == {k \in 0..Len(s) : done[k] \in V}
  <2>1. 0 \in S
    <3>1. 0 \in 0..Len(s) /\ done[0] \in V
      BY <1>1, <1>8
    <3> HIDE DEF V
    <3> QED BY <3>1
  <2>2. ASSUME NEW k \in 0..Len(s), k \in S, k < Len(s) PROVE k + 1 \in S
    <3>1. k + 1 \in 1..Len(s) /\ (k + 1) - 1 = k /\ k + 1 \in 0..Len(s)
      BY <1>1, <2>2
    <3> HIDE DEF V
    <3> QED BY <1>2, <1>8, <2>2, <3>1
  <2> HIDE DEF S
  <2>3. \A k \in 0..Len(s) : k \in S
    BY <1>1, <2>1, <2>2, Climb
  <2> QED BY <2>3 DEF S
<1>10. done \in [0..Len(s) -> V]
  BY <1>6, <1>9
<1> QED BY <1>7, <1>8, <1>10 DEF LeavingOut

LEMMA PrefixGrows ==
  ASSUME NEW A, NEW s \in Seq(A), NEW k \in 0..Len(s), k < Len(s)
  PROVE  /\ SubSeq(s, 1, k) \in Seq(A) /\ s[k + 1] \in A
         /\ SubSeq(s, 1, k + 1) = Append(SubSeq(s, 1, k), s[k + 1])
<1>1. Len(s) \in Nat /\ k + 1 \in 1..Len(s) /\ \A i \in 1..Len(s) : s[i] \in A
  BY ElementOfSeq, LenProperties
<1>2. SubSeq(s, 1, k) \in Seq(A)
  BY <1>1, SubSeqProperties
<1>3. SubSeq(s, 1, k + 1) = SubSeq(s, 1, (k + 1) - 1) \o <<s[k + 1]>>
  BY <1>1, SubSeqRecursiveSecond
<1>4. (k + 1) - 1 = k
  OBVIOUS
<1> QED BY <1>1, <1>2, <1>3, <1>4, AppendIsConcat

LEMMA WithoutKeepsOthers ==
  ASSUME NEW s \in Seq(Declaration), NEW m
  PROVE  /\ WithoutTool(s, m) \in Seq(Declaration)
         /\ \A n : ~SameName(m, n) => AgreeOn(WithoutTool(s, m), s, n)
<1>1. PICK kept \in [0..Len(s) -> Seq(Declaration)] : LeavingOut(s, m, kept)
  BY WithoutSteps
<1>2. Len(s) \in Nat /\ WithoutTool(s, m) = kept[Len(s)]
  BY <1>1, LenProperties DEF LeavingOut
<1>3. ASSUME NEW n, ~SameName(m, n) PROVE AgreeOn(kept[Len(s)], s, n)
  <2> DEFINE S == {k \in 0..Len(s) : AgreeOn(kept[k], SubSeq(s, 1, k), n)}
  <2>1. 0 \in S
    <3>1. SubSeq(s, 1, 0) = <<>> /\ kept[0] = <<>>
      BY <1>1, SubSeqEmpty DEF LeavingOut
    <3>2. AgreeOn(kept[0], SubSeq(s, 1, 0), n)
      BY <3>1 DEF AgreeOn
    <3> QED BY <1>2, <3>2
  <2>2. ASSUME NEW k \in 0..Len(s), k \in S, k < Len(s) PROVE k + 1 \in S
    <3>1. k + 1 \in 1..Len(s) /\ (k + 1) - 1 = k /\ k + 1 \in 0..Len(s) /\ AgreeOn(kept[k], SubSeq(s, 1, k), n)
      BY <1>2, <2>2
    <3> HIDE DEF S
    <3>2. /\ SubSeq(s, 1, k) \in Seq(Declaration) /\ s[k + 1] \in Declaration
          /\ SubSeq(s, 1, k + 1) = Append(SubSeq(s, 1, k), s[k + 1])
      BY <2>2, PrefixGrows
    <3>3. kept[k + 1] = IF SameName(s[k + 1].name, m) THEN kept[k] ELSE Append(kept[k], s[k + 1])
      BY <1>1, <3>1 DEF LeavingOut, Unless
    <3>4. kept[k] \in Seq(Declaration)
      BY <1>1
    <3>5. AgreeOn(kept[k + 1], SubSeq(s, 1, k + 1), n)
      <4>1. CASE SameName(s[k + 1].name, m)
        <5>1. ~SameName(s[k + 1].name, n)
          BY <1>3, <4>1 DEF SameName
        <5> QED BY <3>1, <3>2, <3>3, <4>1, <5>1, OtherAppended
      <4>2. CASE ~SameName(s[k + 1].name, m)
        BY <3>1, <3>2, <3>3, <3>4, <4>2, SameAppended
      <4> QED BY <4>1, <4>2
    <3> QED BY <3>1, <3>5 DEF S
  <2> HIDE DEF S
  <2>3. Len(s) \in S
    <3>1. \A k \in 0..Len(s) : k \in S
      BY <1>2, <2>1, <2>2, Climb
    <3> QED BY <1>2, <3>1
  <2>4. SubSeq(s, 1, Len(s)) = s
    BY SubSeqFull
  <2> QED BY <2>3, <2>4 DEF S
<1> QED BY <1>1, <1>2, <1>3

(* To declare a tool anew is to append its declaration.                     *)
LEMMA RedeclaredAgrees ==
  ASSUME NEW s \in Seq(Declaration), NEW t \in Seq(Declaration), NEW d \in Declaration,
         \A n : AgreeOn(s, t, n)
  PROVE  Redeclared(s, d) \in Seq(Declaration) /\ \A n : AgreeOn(Redeclared(s, d), Append(t, d), n)
<1>1. /\ WithoutTool(s, d.name) \in Seq(Declaration)
      /\ \A n : ~SameName(d.name, n) => AgreeOn(WithoutTool(s, d.name), s, n)
  BY WithoutKeepsOthers
<1> DEFINE w == WithoutTool(s, d.name)
<1> HIDE DEF w
<1>2. Redeclared(s, d) = Append(w, d)
  BY DEF Redeclared, w
<1>3. w \in Seq(Declaration) /\ \A n : ~SameName(d.name, n) => AgreeOn(w, s, n)
  BY <1>1 DEF w
<1>4. Append(w, d) \in Seq(Declaration)
  BY <1>3, AppendProperties
<1>5. ASSUME NEW n PROVE AgreeOn(Append(w, d), Append(t, d), n)
  BY <1>3, LatestOfAppend DEF AgreeOn
<1> QED BY <1>2, <1>4, <1>5

-----------------------------------------------------------------------------
(* What a merge leaves.                                                     *)
Merging(tools, patch, merged) ==
  /\ MergeWriteTools(tools, patch) = merged[Len(patch)] /\ merged[0] = tools
  /\ \A i \in 1..Len(patch) : merged[i] = Redeclared(merged[i - 1], patch[i])

LEMMA RedeclaredType ==
  ASSUME NEW s \in Seq(Declaration), NEW d \in Declaration
  PROVE  Redeclared(s, d) \in Seq(Declaration)
BY WithoutKeepsOthers, AppendProperties DEF Redeclared

LEMMA MergeSteps ==
  ASSUME NEW s \in Seq(Declaration), NEW patch \in Seq(Declaration)
  PROVE  \E merged \in [0..Len(patch) -> Seq(Declaration)] : Merging(s, patch, merged)
<1> DEFINE V == Seq(Declaration)
           step == [x \in (1..Len(patch)) \X V |-> Redeclared(x[2], patch[x[1]])]
           Solves(g) == g = [i \in 0..Len(patch) |-> IF i = 0 THEN s ELSE Redeclared(g[i - 1], patch[i])]
           done == CHOOSE g : Solves(g)
<1>1. Len(patch) \in Nat /\ s \in V
  BY LenProperties
<1>2. ASSUME NEW k \in 1..Len(patch), NEW v \in V PROVE Redeclared(v, patch[k]) \in V
  BY ElementOfSeq, RedeclaredType
<1>3. \A k \in 1..Len(patch) : \A v \in V : step[<<k, v>>] \in V
  <2> HIDE DEF V
  <2> QED BY <1>2
<1>4. PICK g : GoesOn(g, Len(patch), V, s, step)
  <2> HIDE DEF V, step
  <2> QED BY <1>1, <1>3, Recursion
<1>5. Solves(g)
  <2>1. ASSUME NEW k \in 1..Len(patch) PROVE g[k] = Redeclared(g[k - 1], patch[k])
    <3>1. g[k - 1] \in V
      BY <1>1, <1>4 DEF GoesOn
    <3> HIDE DEF V
    <3> QED BY <1>4, <3>1 DEF GoesOn
  <2> HIDE DEF V
  <2> QED BY <1>1, <1>4, <2>1 DEF GoesOn
<1>6. Solves(done)
  <2> HIDE DEF Solves
  <2> QED BY <1>5
<1>7. MergeWriteTools(s, patch) = done[Len(patch)]
  BY DEF MergeWriteTools
<1> HIDE DEF done
<1>8. done[0] = s /\ \A k \in 1..Len(patch) : done[k] = Redeclared(done[k - 1], patch[k])
  BY <1>1, <1>6
<1>9. \A k \in 0..Len(patch) : done[k] \in V
  <2> DEFINE S == {k \in 0..Len(patch) : done[k] \in V}
  <2>1. 0 \in S
    <3>1. 0 \in 0..Len(patch) /\ done[0] \in V
      BY <1>1, <1>8
    <3> HIDE DEF V
    <3> QED BY <3>1
  <2>2. ASSUME NEW k \in 0..Len(patch), k \in S, k < Len(patch) PROVE k + 1 \in S
    <3>1. k + 1 \in 1..Len(patch) /\ (k + 1) - 1 = k /\ k + 1 \in 0..Len(patch)
      BY <1>1, <2>2
    <3> HIDE DEF V
    <3> QED BY <1>2, <1>8, <2>2, <3>1
  <2> HIDE DEF S
  <2>3. \A k \in 0..Len(patch) : k \in S
    BY <1>1, <2>1, <2>2, Climb
  <2> QED BY <2>3 DEF S
<1>10. done \in [0..Len(patch) -> V]
  BY <1>6, <1>9
<1> QED BY <1>7, <1>8, <1>10 DEF Merging

LEMMA AppendOfConcat ==
  ASSUME NEW A, NEW t \in Seq(A), NEW p \in Seq(A), NEW e \in A
  PROVE  t \o Append(p, e) = Append(t \o p, e)
<1>1. t \o p \in Seq(A) /\ <<e>> \in Seq(A)
  BY ConcatProperties
<1>2. t \o Append(p, e) = t \o (p \o <<e>>)
  BY AppendIsConcat
<1>3. (t \o p) \o <<e>> = t \o (p \o <<e>>)
  BY <1>1, ConcatAssociative
<1> QED BY <1>1, <1>2, <1>3, AppendIsConcat

LEMMA MergedAgrees ==
  ASSUME NEW s \in Seq(Declaration), NEW t \in Seq(Declaration), NEW patch \in Seq(Declaration),
         \A n : AgreeOn(s, t, n)
  PROVE  /\ MergeWriteTools(s, patch) \in Seq(Declaration) /\ t \o patch \in Seq(Declaration)
         /\ \A n : AgreeOn(MergeWriteTools(s, patch), t \o patch, n)
<1>1. PICK merged \in [0..Len(patch) -> Seq(Declaration)] : Merging(s, patch, merged)
  BY MergeSteps
<1>2. Len(patch) \in Nat /\ MergeWriteTools(s, patch) = merged[Len(patch)]
  BY <1>1, LenProperties DEF Merging
<1> DEFINE S == {k \in 0..Len(patch) : \A n : AgreeOn(merged[k], t \o SubSeq(patch, 1, k), n)}
<1>3. 0 \in S
  <2>1. SubSeq(patch, 1, 0) = <<>> /\ merged[0] = s /\ t \o <<>> = t
    BY <1>1, SubSeqEmpty, ConcatEmptySeq DEF Merging
  <2>2. \A n : AgreeOn(merged[0], t \o SubSeq(patch, 1, 0), n)
    BY <2>1
  <2>3. 0 \in 0..Len(patch)
    BY <1>2
  <2> QED BY <2>2, <2>3
<1>4. ASSUME NEW k \in 0..Len(patch), k \in S, k < Len(patch) PROVE k + 1 \in S
  <2>1. /\ k + 1 \in 1..Len(patch) /\ (k + 1) - 1 = k /\ k + 1 \in 0..Len(patch)
        /\ \A n : AgreeOn(merged[k], t \o SubSeq(patch, 1, k), n)
    BY <1>2, <1>4
  <2> HIDE DEF S
  <2>2. /\ SubSeq(patch, 1, k) \in Seq(Declaration) /\ patch[k + 1] \in Declaration
        /\ SubSeq(patch, 1, k + 1) = Append(SubSeq(patch, 1, k), patch[k + 1])
    BY <1>4, PrefixGrows
  <2>3. merged[k + 1] = Redeclared(merged[k], patch[k + 1])
    BY <1>1, <2>1 DEF Merging
  <2>4. t \o SubSeq(patch, 1, k) \in Seq(Declaration)
    BY <2>2, ConcatProperties
  <2>5. t \o SubSeq(patch, 1, k + 1) = Append(t \o SubSeq(patch, 1, k), patch[k + 1])
    BY <2>2, <2>4, AppendOfConcat
  <2>6. \A n : AgreeOn(merged[k + 1], t \o SubSeq(patch, 1, k + 1), n)
    BY <1>1, <2>1, <2>2, <2>3, <2>4, <2>5, RedeclaredAgrees, ZenonT(60)
  <2> QED BY <2>1, <2>6 DEF S
<1> HIDE DEF S
<1>5. Len(patch) \in S
  <2>1. \A k \in 0..Len(patch) : k \in S
    BY <1>2, <1>3, <1>4, Climb
  <2> QED BY <1>2, <2>1
<1>6. SubSeq(patch, 1, Len(patch)) = patch
  BY SubSeqFull
<1> QED BY <1>1, <1>2, <1>5, <1>6, ConcatProperties DEF S

-----------------------------------------------------------------------------
(* The options of a parser that reads a line, and what a setting does.      *)
IsState(s) ==
  s = [mode |-> s.mode, failMode |-> s.failMode, unknown |-> s.unknown, feature |-> s.feature,
       writeTools |-> s.writeTools, readTools |-> s.readTools, agent |-> s.agent, command |-> s.command,
       awaiting |-> s.awaiting, status |-> s.status]

GuardStands(s, g, v, r) ==
  /\ IsState(r) /\ r[g] = v /\ \A h \in Guards \ {g} : r[h] = s[h]
  /\ r.writeTools = s.writeTools /\ r.awaiting = s.awaiting /\ r.status = s.status

LEMMA GuardSet ==
  ASSUME NEW s, IsState(s), NEW g \in Guards, NEW v
  PROVE  GuardStands(s, g, v, [s EXCEPT ![g] = v])
<1>1. CASE g = "mode"
  <2>1. [s EXCEPT ![g] = v] = [s EXCEPT !.mode = v]
    BY <1>1 DEF IsState
  <2> DEFINE r == [s EXCEPT !.mode = v]
  <2>2. IsState(r)
    BY DEF IsState
  <2>3. r["mode"] = v /\ \A h \in Guards \ {"mode"} : r[h] = s[h]
    BY DEF IsState, Guards
  <2>4. r.writeTools = s.writeTools /\ r.awaiting = s.awaiting /\ r.status = s.status
    BY DEF IsState
  <2> HIDE DEF r
  <2>5. GuardStands(s, g, v, r)
    BY <1>1, <2>2, <2>3, <2>4 DEF GuardStands
  <2> QED BY <2>1, <2>5 DEF r
<1>2. CASE g = "failMode"
  <2>1. [s EXCEPT ![g] = v] = [s EXCEPT !.failMode = v]
    BY <1>2 DEF IsState
  <2> DEFINE r == [s EXCEPT !.failMode = v]
  <2>2. IsState(r)
    BY DEF IsState
  <2>3. r["failMode"] = v /\ \A h \in Guards \ {"failMode"} : r[h] = s[h]
    BY DEF IsState, Guards
  <2>4. r.writeTools = s.writeTools /\ r.awaiting = s.awaiting /\ r.status = s.status
    BY DEF IsState
  <2> HIDE DEF r
  <2>5. GuardStands(s, g, v, r)
    BY <1>2, <2>2, <2>3, <2>4 DEF GuardStands
  <2> QED BY <2>1, <2>5 DEF r
<1>3. CASE g = "unknown"
  <2>1. [s EXCEPT ![g] = v] = [s EXCEPT !.unknown = v]
    BY <1>3 DEF IsState
  <2> DEFINE r == [s EXCEPT !.unknown = v]
  <2>2. IsState(r)
    BY DEF IsState
  <2>3. r["unknown"] = v /\ \A h \in Guards \ {"unknown"} : r[h] = s[h]
    BY DEF IsState, Guards
  <2>4. r.writeTools = s.writeTools /\ r.awaiting = s.awaiting /\ r.status = s.status
    BY DEF IsState
  <2> HIDE DEF r
  <2>5. GuardStands(s, g, v, r)
    BY <1>3, <2>2, <2>3, <2>4 DEF GuardStands
  <2> QED BY <2>1, <2>5 DEF r
<1>4. CASE g = "feature"
  <2>1. [s EXCEPT ![g] = v] = [s EXCEPT !.feature = v]
    BY <1>4 DEF IsState
  <2> DEFINE r == [s EXCEPT !.feature = v]
  <2>2. IsState(r)
    BY DEF IsState
  <2>3. r["feature"] = v /\ \A h \in Guards \ {"feature"} : r[h] = s[h]
    BY DEF IsState, Guards
  <2>4. r.writeTools = s.writeTools /\ r.awaiting = s.awaiting /\ r.status = s.status
    BY DEF IsState
  <2> HIDE DEF r
  <2>5. GuardStands(s, g, v, r)
    BY <1>4, <2>2, <2>3, <2>4 DEF GuardStands
  <2> QED BY <2>1, <2>5 DEF r
<1> QED BY <1>1, <1>2, <1>3, <1>4 DEF Guards

LEMMA Failing ==
  ASSUME NEW s, IsState(s)
  PROVE  IsState(Failed(s)) /\ Failed(s).status = "error"
BY DEF Failed, IsState

-----------------------------------------------------------------------------
SettingStands(s, o, v, r) ==
  /\ r.status = "reading" /\ r.awaiting = s.awaiting
  /\ r.writeTools = MergeWriteTools(s.writeTools, DeclaredBy(<<o, v>>))
  /\ \A g \in Guards : r[g] \in Lenient => r[g] = s[g] \/ NamedBy(<<o, v>>, g, r[g])

LEMMA NothingMerged ==
  ASSUME NEW s \in Seq(Declaration)
  PROVE  MergeWriteTools(s, <<>>) = s
<1>1. <<>> \in Seq(Declaration) /\ Len(<<>>) = 0
  BY EmptySeq
<1>2. PICK merged : Merging(s, <<>>, merged)
  BY <1>1, MergeSteps
<1> QED BY <1>1, <1>2 DEF Merging

LEMMA SettingDone ==
  ASSUME NEW s, IsState(s), s.writeTools \in Seq(Declaration), s.status = "reading", NEW o, NEW v
  PROVE  /\ IsState(SetOption(s, o, v))
         /\ SetOption(s, o, v).status # "error" => SettingStands(s, o, v, SetOption(s, o, v))
<1> DEFINE r == SetOption(s, o, v)
<1>0. IsState(Failed(s)) /\ Failed(s).status = "error" /\ MergeWriteTools(s.writeTools, <<>>) = s.writeTools
  BY Failing, NothingMerged
<1>1. CASE o \in Guards
  <2>1. DeclaredBy(<<o, v>>) = <<>>
    BY <1>1 DEF DeclaredBy, Guards
  <2>2. CASE ParseGuard(o, v) = {}
    <3>1. r = Failed(s)
      BY <1>1, <2>2 DEF SetOption, Guards
    <3> QED BY <1>0, <3>1
  <2>3. CASE ParseGuard(o, v) # {}
    <3> DEFINE w == CHOOSE x \in ParseGuard(o, v) : TRUE
    <3>0. r = [s EXCEPT ![o] = w]
      BY <1>1, <2>3 DEF SetOption, Guards
    <3>1. w \in ParseGuard(o, v)
      BY <2>3
    <3> HIDE DEF w
    <3>2. GuardStands(s, o, w, r)
      <4>1. GuardStands(s, o, w, [s EXCEPT ![o] = w])
        BY <1>1, GuardSet
      <4> HIDE DEF r
      <4> QED BY <3>0, <4>1
    <3>3. w = v \/ w \notin Lenient
      BY <1>1, <3>1 DEF ParseGuard, Default, Guards, Lenient, None
    <3>4. \A g \in Guards : r[g] \in Lenient => r[g] = s[g] \/ NamedBy(<<o, v>>, g, r[g])
      <4> HIDE DEF r
      <4> QED BY <3>2, <3>3 DEF GuardStands, NamedBy
    <3> HIDE DEF r
    <3>5. SettingStands(s, o, v, r)
      BY <1>0, <2>1, <3>2, <3>4 DEF SettingStands, GuardStands
    <3> QED BY <3>2, <3>5 DEF GuardStands, r
  <2> QED BY <2>2, <2>3
<1>2. CASE o \in {"agent", "command"}
  <2>1. DeclaredBy(<<o, v>>) = <<>>
    BY <1>2 DEF DeclaredBy
  <2> DEFINE w == IF v = None THEN Empty ELSE v
  <2>2. r = [s EXCEPT !.agent = w] \/ r = [s EXCEPT !.command = w]
    <3>1. CASE o = "agent"
      <4>1. r = [s EXCEPT !["agent"] = w]
        BY <3>1 DEF SetOption, Guards
      <4>2. [s EXCEPT !["agent"] = w] = [s EXCEPT !.agent = w]
        BY DEF IsState
      <4> QED BY <4>1, <4>2
    <3>2. CASE o = "command"
      <4>1. r = [s EXCEPT !["command"] = w]
        BY <3>2 DEF SetOption, Guards
      <4>2. [s EXCEPT !["command"] = w] = [s EXCEPT !.command = w]
        BY DEF IsState
      <4> QED BY <4>1, <4>2
    <3> QED BY <1>2, <3>1, <3>2
  <2> HIDE DEF w, r
  <2>3. IsState(r)
    BY <2>2 DEF IsState
  <2>4. r.status = s.status /\ r.awaiting = s.awaiting /\ r.writeTools = s.writeTools
    BY <2>2 DEF IsState
  <2>5. \A g \in Guards : r[g] = s[g]
    BY <2>2 DEF IsState, Guards
  <2>6. SettingStands(s, o, v, r)
    BY <1>0, <2>1, <2>4, <2>5 DEF SettingStands
  <2> QED BY <2>3, <2>6 DEF r
<1>3. CASE o = "writeTool"
  <2>1. CASE v \notin DOMAIN DeclarationOf \/ DeclarationOf[v].keys = {}
    <3>1. r = Failed(s)
      BY <1>3, <2>1 DEF SetOption, Guards
    <3> QED BY <1>0, <3>1
  <2>2. CASE ~(v \notin DOMAIN DeclarationOf \/ DeclarationOf[v].keys = {})
    <3>1. r = [s EXCEPT !.writeTools = MergeWriteTools(s.writeTools, <<DeclarationOf[v]>>)]
      BY <1>3, <2>2 DEF SetOption, Guards
    <3>2. DeclaredBy(<<o, v>>) = <<DeclarationOf[v]>>
      BY <1>3, <2>2 DEF DeclaredBy
    <3> HIDE DEF r
    <3>3. IsState(r)
      BY <3>1 DEF IsState
    <3>4. r.status = s.status /\ r.awaiting = s.awaiting /\ r.writeTools = MergeWriteTools(s.writeTools, DeclaredBy(<<o, v>>))
      BY <3>1, <3>2 DEF IsState
    <3>5. \A g \in Guards : r[g] = s[g]
      BY <3>1 DEF IsState, Guards
    <3>6. SettingStands(s, o, v, r)
      BY <3>4, <3>5 DEF SettingStands
    <3> QED BY <3>3, <3>6 DEF r
  <2> QED BY <2>1, <2>2
<1>4. CASE o = "readTool"
  <2>1. CASE v \in {None, Empty}
    <3>1. r = Failed(s)
      BY <1>4, <2>1 DEF SetOption, Guards
    <3> QED BY <1>0, <3>1
  <2>2. CASE v \notin {None, Empty}
    <3>1. r = [s EXCEPT !.readTools = s.readTools \cup {v}]
      BY <1>4, <2>2 DEF SetOption, Guards
    <3>2. DeclaredBy(<<o, v>>) = <<>>
      BY <1>4 DEF DeclaredBy
    <3> HIDE DEF r
    <3>3. IsState(r)
      BY <3>1 DEF IsState
    <3>4. r.status = s.status /\ r.awaiting = s.awaiting /\ r.writeTools = s.writeTools
      BY <3>1 DEF IsState
    <3>5. \A g \in Guards : r[g] = s[g]
      BY <3>1 DEF IsState, Guards
    <3>6. SettingStands(s, o, v, r)
      BY <1>0, <3>2, <3>4, <3>5 DEF SettingStands
    <3> QED BY <3>3, <3>6 DEF r
  <2> QED BY <2>1, <2>2
<1>5. CASE o = "argument" \/ o \notin Guards \cup {"agent", "command", "writeTool", "readTool", "argument", "toolConfig"}
  <2>1. r = Failed(s) \/ r = s
    BY <1>5 DEF SetOption, Guards
  <2>2. DeclaredBy(<<o, v>>) = <<>>
    BY <1>5 DEF DeclaredBy
  <2> HIDE DEF r
  <2>3. CASE r = s
    <3>1. SettingStands(s, o, v, r)
      BY <1>0, <2>2, <2>3 DEF SettingStands
    <3> QED BY <2>3, <3>1 DEF r
  <2>4. CASE r = Failed(s)
    BY <1>0, <2>4 DEF r
  <2> QED BY <2>1, <2>3, <2>4
<1>6. CASE o = "toolConfig"
  <2>1. CASE v \notin DOMAIN ConfigOf \/ ~ConfigOk(ConfigOf[v])
    <3>1. r = Failed(s)
      BY <1>6, <2>1 DEF SetOption, Guards
    <3> QED BY <1>0, <3>1
  <2>2. CASE ~(v \notin DOMAIN ConfigOf \/ ~ConfigOk(ConfigOf[v]))
    <3> DEFINE c == ConfigOf[v]
               word == IF c.unknown = None THEN s.unknown ELSE c.unknown
               tools == MergeWriteTools(s.writeTools, c.writeTools)
               reads == s.readTools \cup c.readTools
    <3>1. r = [s EXCEPT !.writeTools = tools, !.readTools = reads, !.unknown = word]
      BY <1>6, <2>2 DEF SetOption, Guards
    <3>2. DeclaredBy(<<o, v>>) = c.writeTools
      BY <1>6, <2>2 DEF DeclaredBy
    <3>3. word = s.unknown \/ NamedBy(<<o, v>>, "unknown", word)
      BY <1>6, <2>2 DEF NamedBy
    <3>4. tools = MergeWriteTools(s.writeTools, DeclaredBy(<<o, v>>))
      BY <3>2
    <3> HIDE DEF r, tools, reads, word, c
    <3>5. IsState(r)
      BY <3>1 DEF IsState
    <3>6. r.status = s.status /\ r.awaiting = s.awaiting /\ r.writeTools = tools
      BY <3>1 DEF IsState
    <3>7. r.unknown = word /\ \A g \in Guards \ {"unknown"} : r[g] = s[g]
      BY <3>1 DEF IsState, Guards
    <3>8. \A g \in Guards : r[g] = s[g] \/ NamedBy(<<o, v>>, g, r[g])
      BY <3>3, <3>7
    <3>9. SettingStands(s, o, v, r)
      BY <3>4, <3>6, <3>8 DEF SettingStands
    <3> QED BY <3>5, <3>9 DEF r
  <2> QED BY <2>1, <2>2
<1> QED BY <1>1, <1>2, <1>3, <1>4, <1>5, <1>6

-----------------------------------------------------------------------------
(* The states of the parser, from token to token.                           *)
ReadingTokens(tokens, start, done) ==
  /\ ReadTokens(tokens, start) = done[Len(tokens)] /\ done[0] = start
  /\ \A i \in 1..Len(tokens) : done[i] = ReadToken(done[i - 1], tokens[i])

LEMMA ReadSteps ==
  ASSUME NEW A, NEW tokens \in Seq(A), NEW start
  PROVE  \E done : ReadingTokens(tokens, start, done)
<1> DEFINE Upto(m, g) == g = [i \in 0..m |-> IF i = 0 THEN start ELSE ReadToken(g[i - 1], tokens[i])]
           S == {m \in 0..Len(tokens) : \E g : Upto(m, g)}
           done == CHOOSE g : Upto(Len(tokens), g)
<1>1. Len(tokens) \in Nat
  BY LenProperties
<1>2. 0 \in S
  <2>1. Upto(0, [i \in 0..0 |-> start])
    OBVIOUS
  <2> HIDE DEF Upto
  <2> QED BY <1>1, <2>1
<1>3. ASSUME NEW m \in 0..Len(tokens), m \in S, m < Len(tokens) PROVE m + 1 \in S
  <2>1. PICK g : Upto(m, g)
    BY <1>3
  <2> DEFINE h == [i \in 0..(m + 1) |-> IF i <= m THEN g[i] ELSE ReadToken(g[i - 1], tokens[i])]
  <2>2. m + 1 \in 0..Len(tokens) /\ m \in Nat
    BY <1>1, <1>3
  <2>3. h = [i \in 0..(m + 1) |-> IF i = 0 THEN start ELSE ReadToken(h[i - 1], tokens[i])]
    <3>1. ASSUME NEW i \in 0..(m + 1) PROVE h[i] = IF i = 0 THEN start ELSE ReadToken(h[i - 1], tokens[i])
      <4>1. CASE i = 0
        BY <2>1, <2>2, <4>1
      <4>2. CASE i # 0
        <5>1. i - 1 \in 0..m /\ i - 1 \in 0..(m + 1) /\ i - 1 <= m
          BY <2>2, <4>2
        <5>2. h[i - 1] = g[i - 1]
          BY <5>1
        <5>3. h[i] = ReadToken(g[i - 1], tokens[i])
          BY <2>1, <2>2, <4>2
        <5> HIDE DEF h
        <5> QED BY <4>2, <5>2, <5>3
      <4> QED BY <4>1, <4>2
    <3> QED BY <3>1
  <2>4. Upto(m + 1, h)
    BY <2>3
  <2> HIDE DEF Upto, h
  <2> QED BY <2>2, <2>4
<1>4. Upto(Len(tokens), done)
  <2> HIDE DEF S
  <2>1. Len(tokens) \in S
    <3>1. \A m \in 0..Len(tokens) : m \in S
      BY <1>1, <1>2, <1>3, Climb
    <3> QED BY <1>1, <3>1
  <2> HIDE DEF Upto
  <2> QED BY <2>1 DEF S
<1>5. ReadTokens(tokens, start) = done[Len(tokens)]
  BY DEF ReadTokens
<1> HIDE DEF done
<1>6. done[0] = start /\ \A i \in 1..Len(tokens) : done[i] = ReadToken(done[i - 1], tokens[i])
  BY <1>1, <1>4
<1> QED BY <1>5, <1>6 DEF ReadingTokens

(* What is expected, from token to token.                                   *)
Expecting(tokens, done) ==
  /\ Expected(tokens) = done /\ done[0] = "option"
  /\ \A i \in 1..Len(tokens) : done[i] = ExpectedAfter(done[i - 1], tokens[i])

LEMMA ExpectedSteps ==
  ASSUME NEW A, NEW tokens \in Seq(A)
  PROVE  \E done : Expecting(tokens, done)
<1> DEFINE Upto(m, g) == g = [i \in 0..m |-> IF i = 0 THEN "option" ELSE ExpectedAfter(g[i - 1], tokens[i])]
           S == {m \in 0..Len(tokens) : \E g : Upto(m, g)}
           done == CHOOSE g : Upto(Len(tokens), g)
<1>1. Len(tokens) \in Nat
  BY LenProperties
<1>2. 0 \in S
  <2>1. Upto(0, [i \in 0..0 |-> "option"])
    OBVIOUS
  <2> HIDE DEF Upto
  <2> QED BY <1>1, <2>1
<1>3. ASSUME NEW m \in 0..Len(tokens), m \in S, m < Len(tokens) PROVE m + 1 \in S
  <2>1. PICK g : Upto(m, g)
    BY <1>3
  <2> DEFINE h == [i \in 0..(m + 1) |-> IF i <= m THEN g[i] ELSE ExpectedAfter(g[i - 1], tokens[i])]
  <2>2. m + 1 \in 0..Len(tokens) /\ m \in Nat
    BY <1>1, <1>3
  <2>3. h = [i \in 0..(m + 1) |-> IF i = 0 THEN "option" ELSE ExpectedAfter(h[i - 1], tokens[i])]
    <3>1. ASSUME NEW i \in 0..(m + 1) PROVE h[i] = IF i = 0 THEN "option" ELSE ExpectedAfter(h[i - 1], tokens[i])
      <4>1. CASE i = 0
        BY <2>1, <2>2, <4>1
      <4>2. CASE i # 0
        <5>1. i - 1 \in 0..m /\ i - 1 \in 0..(m + 1) /\ i - 1 <= m
          BY <2>2, <4>2
        <5>2. h[i - 1] = g[i - 1]
          BY <5>1
        <5>3. h[i] = ExpectedAfter(g[i - 1], tokens[i])
          BY <2>1, <2>2, <4>2
        <5> HIDE DEF h
        <5> QED BY <4>2, <5>2, <5>3
      <4> QED BY <4>1, <4>2
    <3> QED BY <3>1
  <2>4. Upto(m + 1, h)
    BY <2>3
  <2> HIDE DEF Upto, h
  <2> QED BY <2>2, <2>4
<1>4. Upto(Len(tokens), done)
  <2> HIDE DEF S
  <2>1. Len(tokens) \in S
    <3>1. \A m \in 0..Len(tokens) : m \in S
      BY <1>1, <1>2, <1>3, Climb
    <3> QED BY <1>1, <3>1
  <2> HIDE DEF Upto
  <2> QED BY <2>1 DEF S
<1>5. Expected(tokens) = done
  BY DEF Expected
<1> HIDE DEF done
<1>6. done[0] = "option" /\ \A i \in 1..Len(tokens) : done[i] = ExpectedAfter(done[i - 1], tokens[i])
  BY <1>1, <1>4
<1> QED BY <1>5, <1>6 DEF Expecting

(* What was declared, from token to token.                                  *)
Declaring(tokens, done) ==
  /\ Declarations(tokens) = done[Len(tokens)] /\ done[0] = <<>>
  /\ \A i \in 1..Len(tokens) : done[i] = DeclaredAfter(done[i - 1], tokens, i)

LEMMA DeclaredSteps ==
  ASSUME NEW A, NEW tokens \in Seq(A)
  PROVE  \E done : Declaring(tokens, done)
<1> DEFINE Upto(m, g) == g = [i \in 0..m |-> IF i = 0 THEN <<>> ELSE DeclaredAfter(g[i - 1], tokens, i)]
           S == {m \in 0..Len(tokens) : \E g : Upto(m, g)}
           done == CHOOSE g : Upto(Len(tokens), g)
<1>1. Len(tokens) \in Nat
  BY LenProperties
<1>2. 0 \in S
  <2>1. Upto(0, [i \in 0..0 |-> <<>>])
    OBVIOUS
  <2> HIDE DEF Upto
  <2> QED BY <1>1, <2>1
<1>3. ASSUME NEW m \in 0..Len(tokens), m \in S, m < Len(tokens) PROVE m + 1 \in S
  <2>1. PICK g : Upto(m, g)
    BY <1>3
  <2> DEFINE h == [i \in 0..(m + 1) |-> IF i <= m THEN g[i] ELSE DeclaredAfter(g[i - 1], tokens, i)]
  <2>2. m + 1 \in 0..Len(tokens) /\ m \in Nat
    BY <1>1, <1>3
  <2>3. h = [i \in 0..(m + 1) |-> IF i = 0 THEN <<>> ELSE DeclaredAfter(h[i - 1], tokens, i)]
    <3>1. ASSUME NEW i \in 0..(m + 1) PROVE h[i] = IF i = 0 THEN <<>> ELSE DeclaredAfter(h[i - 1], tokens, i)
      <4>1. CASE i = 0
        BY <2>1, <2>2, <4>1
      <4>2. CASE i # 0
        <5>1. i - 1 \in 0..m /\ i - 1 \in 0..(m + 1) /\ i - 1 <= m
          BY <2>2, <4>2
        <5>2. h[i - 1] = g[i - 1]
          BY <5>1
        <5>3. h[i] = DeclaredAfter(g[i - 1], tokens, i)
          BY <2>1, <2>2, <4>2
        <5> HIDE DEF h
        <5> QED BY <4>2, <5>2, <5>3
      <4> QED BY <4>1, <4>2
    <3> QED BY <3>1
  <2>4. Upto(m + 1, h)
    BY <2>3
  <2> HIDE DEF Upto, h
  <2> QED BY <2>2, <2>4
<1>4. Upto(Len(tokens), done)
  <2> HIDE DEF S
  <2>1. Len(tokens) \in S
    <3>1. \A m \in 0..Len(tokens) : m \in S
      BY <1>1, <1>2, <1>3, Climb
    <3> QED BY <1>1, <3>1
  <2> HIDE DEF Upto
  <2> QED BY <2>1 DEF S
<1>5. Declarations(tokens) = done[Len(tokens)]
  BY DEF Declarations
<1> HIDE DEF done
<1>6. done[0] = <<>> /\ \A i \in 1..Len(tokens) : done[i] = DeclaredAfter(done[i - 1], tokens, i)
  BY <1>1, <1>4
<1> QED BY <1>5, <1>6 DEF Declaring

-----------------------------------------------------------------------------
(* What the parser holds after k tokens, d being declared by then.          *)
ParserHolds(c, s, d, k) ==
  /\ IsState(s) /\ s.writeTools \in Seq(Declaration) /\ d \in Seq(Declaration)
  /\ \A n : AgreeOn(s.writeTools, c.defaults \o d, n)
  /\ \A g \in Guards : s[g] \in Lenient =>
       s[g] = c.env[g] \/ \E i \in 1..k : NamedBy(SettingAt(c.tokens, i), g, s[g])
ParserExpects(c, s, expected, k) ==
  \/ expected = "option" /\ s.status = "reading" /\ s.awaiting = None
  \/ /\ expected = "value" /\ s.status = "reading"
     /\ k # 0 /\ c.tokens[k].kind = "option" /\ s.awaiting = c.tokens[k].option
  \/ expected = "nothing" /\ s.status \in {"command", "done"}

LEMMA DeclaredType ==
  ASSUME NEW o, NEW v
  PROVE  DeclaredBy(<<o, v>>) \in Seq(Declaration)
<1>1. <<o, v>>[1] = o /\ <<o, v>>[2] = v
  OBVIOUS
<1>2. \A d \in Declaration : <<d>> \in Seq(Declaration)
  OBVIOUS
<1>3. <<>> \in Seq(Declaration)
  BY EmptySeq
<1> QED BY <1>1, <1>2, <1>3, LineAssumption DEF DeclaredBy

LEMMA SoundlySame ==
  ASSUME NEW c, NEW s, NEW d, NEW k \in Nat, ParserHolds(c, s, d, k), NEW r, IsState(r),
         r.writeTools = s.writeTools, \A g \in Guards : r[g] = s[g]
  PROVE  ParserHolds(c, r, d, k + 1)
<1>1. \A i \in 1..k : i \in 1..(k + 1)
  OBVIOUS
<1> QED BY <1>1 DEF ParserHolds

LEMMA DeclarationsJoin ==
  ASSUME NEW x \in Seq(Declaration), NEW y \in Seq(Declaration), NEW z \in Seq(Declaration)
  PROVE  (x \o y) \o z = x \o (y \o z)
  OBVIOUS

LEMMA SoundlySet ==
  ASSUME NEW c \in LineCases, NEW s, NEW d, NEW k \in Nat, ParserHolds(c, s, d, k), s.status = "reading",
         NEW o, NEW v, SettingAt(c.tokens, k + 1) = <<o, v>>, SetOption(s, o, v).status # "error"
  PROVE  /\ ParserHolds(c, SetOption(s, o, v), d \o DeclaredBy(<<o, v>>), k + 1)
         /\ SetOption(s, o, v).status = "reading" /\ SetOption(s, o, v).awaiting = s.awaiting
<1> DEFINE r == SetOption(s, o, v)
           p == DeclaredBy(<<o, v>>)
<1>1. IsState(r) /\ SettingStands(s, o, v, r)
  BY SettingDone DEF ParserHolds
<1>2. /\ p \in Seq(Declaration) /\ d \in Seq(Declaration) /\ s.writeTools \in Seq(Declaration)
      /\ c.defaults \in Seq(Declaration) /\ \A n : AgreeOn(s.writeTools, c.defaults \o d, n)
  BY DeclaredType, LineAssumption DEF ParserHolds
<1>3. r.writeTools = MergeWriteTools(s.writeTools, p)
  BY <1>1 DEF SettingStands
<1> HIDE DEF r, p
<1>4. c.defaults \o d \in Seq(Declaration) /\ d \o p \in Seq(Declaration)
      /\ (c.defaults \o d) \o p = c.defaults \o (d \o p)
  <2> DEFINE b == c.defaults
  <2>1. b \in Seq(Declaration)
    BY <1>2
  <2>4. d \in Seq(Declaration)
    BY <1>2
  <2>5. p \in Seq(Declaration)
    BY <1>2
  <2> HIDE DEF b
  <2>2. b \o d \in Seq(Declaration) /\ d \o p \in Seq(Declaration)
    BY <2>1, <2>4, <2>5, ConcatProperties
  <2>3. (b \o d) \o p = b \o (d \o p)
    BY <2>1, <2>4, <2>5, DeclarationsJoin
  <2> QED BY <2>2, <2>3 DEF b
<1>5. /\ r.writeTools \in Seq(Declaration)
      /\ \A n : AgreeOn(r.writeTools, (c.defaults \o d) \o p, n)
  <2> DEFINE w == s.writeTools
             given == c.defaults \o d
  <2>1. /\ w \in Seq(Declaration) /\ given \in Seq(Declaration) /\ r.writeTools = MergeWriteTools(w, p)
        /\ \A n : AgreeOn(w, given, n)
    BY <1>2, <1>3, <1>4
  <2> HIDE DEF w, given
  <2>2. MergeWriteTools(w, p) \in Seq(Declaration) /\ \A n : AgreeOn(MergeWriteTools(w, p), given \o p, n)
    BY <1>2, <2>1, MergedAgrees
  <2> QED BY <2>1, <2>2 DEF given
<1>6. ASSUME NEW g \in Guards, r[g] \in Lenient
      PROVE  r[g] = c.env[g] \/ \E i \in 1..(k + 1) : NamedBy(SettingAt(c.tokens, i), g, r[g])
  <2>1. r[g] = s[g] \/ NamedBy(<<o, v>>, g, r[g])
    BY <1>1, <1>6 DEF SettingStands
  <2>2. k + 1 \in 1..(k + 1) /\ \A i \in 1..k : i \in 1..(k + 1)
    OBVIOUS
  <2>3. CASE NamedBy(<<o, v>>, g, r[g])
    <3>1. NamedBy(SettingAt(c.tokens, k + 1), g, r[g])
      BY <2>3
    <3> QED BY <2>2, <3>1
  <2>4. CASE r[g] = s[g]
    BY <1>6, <2>2, <2>4 DEF ParserHolds
  <2> QED BY <2>1, <2>3, <2>4
<1>7. ParserHolds(c, r, d \o p, k + 1)
  BY <1>1, <1>4, <1>5, <1>6 DEF ParserHolds
<1> QED BY <1>1, <1>7 DEF SettingStands, r, p

-----------------------------------------------------------------------------
(* One token.                                                               *)
LEMMA TokenRead ==
  ASSUME NEW c \in LineCases, NEW s, NEW d, NEW k \in 0..Len(c.tokens), k < Len(c.tokens),
         NEW expected, Expected(c.tokens)[k] = expected,
         ParserHolds(c, s, d, k), ParserExpects(c, s, expected, k),
         ReadToken(s, c.tokens[k + 1]).status # "error"
  PROVE  /\ ParserHolds(c, ReadToken(s, c.tokens[k + 1]), d \o DeclaredBy(SettingAt(c.tokens, k + 1)), k + 1)
         /\ ParserExpects(c, ReadToken(s, c.tokens[k + 1]), ExpectedAfter(expected, c.tokens[k + 1]), k + 1)
<1> DEFINE t == c.tokens[k + 1]
           r == ReadToken(s, t)
           set == SettingAt(c.tokens, k + 1)
<1>1. /\ c.tokens \in Seq(TokenSet) /\ Len(c.tokens) \in Nat /\ k + 1 \in 1..Len(c.tokens)
      /\ k \in Nat /\ (k + 1) - 1 = k
  BY LineAssumption, LenProperties
<1>2. t \in TokenSet
  BY <1>1, ElementOfSeq
<1>3. IsState(s) /\ IsState(Failed(s)) /\ Failed(s).status = "error" /\ d \in Seq(Declaration)
  BY Failing DEF ParserHolds
<1>4. DeclaredBy(NoSetting) = <<>> /\ d \o <<>> = d
  BY <1>3, ConcatEmptySeq DEF DeclaredBy, NoSetting, None
<1>5. CASE expected = "option" /\ s.status = "reading" /\ s.awaiting = None
  <2>1. CASE t.kind = "assigned"
    <3>1. r = SetOption(s, t.option, t.value)
      BY <1>5, <2>1 DEF ReadToken
    <3>2. set = <<t.option, t.value>>
      BY <1>1, <1>5, <2>1 DEF SettingAt
    <3>3. ParserHolds(c, r, d \o DeclaredBy(set), k + 1) /\ r.status = "reading" /\ r.awaiting = None
      BY <1>1, <1>5, <3>1, <3>2, SoundlySet
    <3>4. ExpectedAfter(expected, t) = "option"
      BY <1>5, <2>1 DEF ExpectedAfter
    <3> HIDE DEF r, t
    <3>5. ParserExpects(c, r, "option", k + 1)
      BY <3>3 DEF ParserExpects
    <3> QED BY <3>3, <3>4, <3>5 DEF r, t
  <2>2. CASE t.kind # "assigned"
    <3>1. set = NoSetting
      BY <1>1, <1>5, <2>2 DEF SettingAt
    <3>2. CASE t.kind = "end"
      <4>1. r = [s EXCEPT !.status = "command"] /\ ExpectedAfter(expected, t) = "nothing"
        BY <1>5, <3>2 DEF ReadToken, ExpectedAfter
      <4> HIDE DEF r, t, set
      <4>2. IsState(r) /\ r.writeTools = s.writeTools /\ (\A g \in Guards : r[g] = s[g]) /\ r.status = "command"
        BY <1>3, <4>1 DEF IsState, Guards
      <4>3. ParserHolds(c, r, d, k + 1) /\ ParserExpects(c, r, "nothing", k + 1)
        BY <1>1, <4>2, SoundlySame DEF ParserExpects
      <4> QED BY <1>4, <3>1, <4>1, <4>3 DEF r, t, set
    <3>3. CASE t.kind = "option"
      <4>1. r = [s EXCEPT !.awaiting = t.option] /\ ExpectedAfter(expected, t) = "value"
        BY <1>5, <3>3 DEF ReadToken, ExpectedAfter
      <4> HIDE DEF r, set
      <4>2. /\ IsState(r) /\ r.writeTools = s.writeTools /\ \A g \in Guards : r[g] = s[g]
            /\ r.status = s.status /\ r.awaiting = t.option
        <5> HIDE DEF t
        <5> QED BY <1>3, <4>1 DEF IsState, Guards
      <4>3. ParserExpects(c, r, "value", k + 1)
        BY <1>1, <1>5, <3>3, <4>2 DEF ParserExpects
      <4>4. ParserHolds(c, r, d, k + 1)
        BY <1>1, <4>2, SoundlySame
      <4> QED BY <1>4, <3>1, <4>1, <4>3, <4>4 DEF r, set
    <3>4. CASE t.kind = "flag"
      <4>1. r = s /\ ExpectedAfter(expected, t) = "option"
        BY <1>5, <3>4 DEF ReadToken, ExpectedAfter
      <4>2. ParserHolds(c, s, d, k + 1) /\ ParserExpects(c, s, "option", k + 1)
        BY <1>1, <1>3, <1>5, SoundlySame DEF ParserExpects
      <4> QED BY <1>4, <3>1, <4>1, <4>2
    <3>5. CASE t.kind = "word"
      <4>1. r = Failed(s)
        BY <1>5, <3>5 DEF ReadToken
      <4> QED BY <1>3, <4>1
    <3> QED BY <1>2, <2>2, <3>2, <3>3, <3>4, <3>5 DEF TokenSet
  <2> QED BY <2>1, <2>2
<1>6. CASE /\ expected = "value" /\ s.status = "reading"
           /\ k # 0 /\ c.tokens[k].kind = "option" /\ s.awaiting = c.tokens[k].option
  <2> DEFINE u == [s EXCEPT !.awaiting = None]
             o == c.tokens[k].option
  <2>1. o # None
    BY <1>1, <1>6, LineAssumption
  <2>2. r = SetOption(u, o, TextOf(t))
    BY <1>6, <2>1 DEF ReadToken
  <2>3. set = <<o, TextOf(t)>>
    BY <1>1, <1>6 DEF SettingAt
  <2>4. /\ IsState(u) /\ u.writeTools = s.writeTools /\ \A g \in Guards : u[g] = s[g]
        /\ u.status = s.status /\ u.awaiting = None
    BY <1>3 DEF IsState, Guards
  <2> HIDE DEF u, o, t, r, set
  <2>5. ParserHolds(c, u, d, k)
    BY <2>4 DEF ParserHolds
  <2>6. ParserHolds(c, r, d \o DeclaredBy(set), k + 1) /\ r.status = "reading" /\ r.awaiting = None
    BY <1>1, <1>6, <2>2, <2>3, <2>4, <2>5, SoundlySet DEF r, t, set
  <2>7. ExpectedAfter(expected, t) = "option" /\ ParserExpects(c, r, "option", k + 1)
    BY <1>6, <2>6 DEF ExpectedAfter, ParserExpects
  <2> QED BY <2>6, <2>7 DEF r, t, set
<1>7. CASE expected = "nothing" /\ s.status \in {"command", "done"}
  <2>1. set = NoSetting
    BY <1>1, <1>7 DEF SettingAt
  <2>2. ExpectedAfter(expected, t) = "nothing"
    BY <1>7 DEF ExpectedAfter
  <2> DEFINE x == IF TextOf(t) = Empty THEN s.command ELSE TextOf(t)
  <2>3. r = s \/ r = [s EXCEPT !.command = x, !.status = "done"]
    BY <1>7 DEF ReadToken
  <2> HIDE DEF r, set, t, x
  <2>4. IsState(r) /\ r.writeTools = s.writeTools /\ (\A g \in Guards : r[g] = s[g]) /\ r.status \in {"command", "done"}
    BY <1>3, <1>7, <2>3 DEF IsState, Guards
  <2>5. ParserHolds(c, r, d, k + 1) /\ ParserExpects(c, r, "nothing", k + 1)
    BY <1>1, <2>4, SoundlySame DEF ParserExpects
  <2> QED BY <1>4, <2>1, <2>2, <2>5 DEF r, t, set
<1> QED BY <1>5, <1>6, <1>7 DEF ParserExpects

-----------------------------------------------------------------------------
(* All tokens.                                                              *)
LEMMA LineRead ==
  ASSUME NEW c \in LineCases,
         ReadTokens(c.tokens, StartOptions(c.env, c.defaults)).status # "error"
  PROVE  LET s == ReadTokens(c.tokens, StartOptions(c.env, c.defaults))
             d == Declarations(c.tokens)
         IN /\ ParserHolds(c, s, d, Len(c.tokens))
            /\ s.status = "reading" => s.awaiting # None \/ Expected(c.tokens)[Len(c.tokens)] = "option"
<1> DEFINE n == Len(c.tokens)
           start == StartOptions(c.env, c.defaults)
<1>1. c.tokens \in Seq(TokenSet) /\ c.defaults \in Seq(Declaration) /\ n \in Nat
  BY LineAssumption, LenProperties
<1>2. PICK state : ReadingTokens(c.tokens, start, state)
  BY <1>1, ReadSteps
<1>3. PICK expected : Expecting(c.tokens, expected)
  BY <1>1, ExpectedSteps
<1>4. PICK declared : Declaring(c.tokens, declared)
  BY <1>1, DeclaredSteps
<1> DEFINE S == {k \in 0..n : state[k].status # "error" =>
                               ParserHolds(c, state[k], declared[k], k) /\ ParserExpects(c, state[k], expected[k], k)}
<1>5. 0 \in S
  <2>1. state[0] = start /\ declared[0] = <<>> /\ expected[0] = "option"
    BY <1>2, <1>3, <1>4 DEF ReadingTokens, Expecting, Declaring
  <2>2. IsState(start) /\ start.status = "reading" /\ start.awaiting = None /\ start.writeTools = c.defaults
    BY DEF StartOptions, IsState
  <2>3. \A g \in Guards : start[g] = c.env[g]
    BY DEF StartOptions, Guards
  <2> HIDE DEF start
  <2>4. <<>> \in Seq(Declaration) /\ c.defaults \o <<>> = c.defaults
    BY <1>1, EmptySeq, ConcatEmptySeq
  <2>5. \A m : AgreeOn(c.defaults, c.defaults, m)
    BY DEF AgreeOn
  <2>6. ParserHolds(c, start, <<>>, 0)
    BY <1>1, <2>2, <2>3, <2>4, <2>5 DEF ParserHolds
  <2>7. ParserExpects(c, start, "option", 0)
    BY <2>2 DEF ParserExpects
  <2> QED BY <1>1, <2>1, <2>6, <2>7
<1>6. ASSUME NEW k \in 0..n, k \in S, k < n PROVE k + 1 \in S
  <2>1. k + 1 \in 0..n /\ k + 1 \in 1..n /\ (k + 1) - 1 = k
    BY <1>1, <1>6
  <2>2. state[k + 1] = ReadToken(state[k], c.tokens[k + 1])
    BY <1>2, <2>1 DEF ReadingTokens
  <2>3. expected[k + 1] = ExpectedAfter(expected[k], c.tokens[k + 1]) /\ Expected(c.tokens) = expected
    BY <1>3, <2>1 DEF Expecting
  <2>4. declared[k + 1] = declared[k] \o DeclaredBy(SettingAt(c.tokens, k + 1))
    BY <1>4, <2>1 DEF Declaring, DeclaredAfter
  <2> SUFFICES ASSUME state[k + 1].status # "error"
               PROVE  ParserHolds(c, state[k + 1], declared[k + 1], k + 1) /\ ParserExpects(c, state[k + 1], expected[k + 1], k + 1)
    BY <2>1
  <2>5. state[k].status # "error"
    <3>1. ASSUME state[k].status = "error" PROVE state[k + 1] = state[k]
      BY <2>2, <3>1 DEF ReadToken
    <3> QED BY <3>1
  <2>6. ParserHolds(c, state[k], declared[k], k) /\ ParserExpects(c, state[k], expected[k], k)
    BY <1>6, <2>5
  <2> HIDE DEF S
  <2> QED BY <1>6, <2>2, <2>3, <2>4, <2>6, TokenRead
<1>7. n \in S
  <2> HIDE DEF S
  <2>1. \A k \in 0..n : k \in S
    BY <1>1, <1>5, <1>6, Climb
  <2> QED BY <1>1, <2>1
<1>8. ReadTokens(c.tokens, start) = state[n] /\ Declarations(c.tokens) = declared[n] /\ Expected(c.tokens) = expected
  BY <1>2, <1>3, <1>4 DEF ReadingTokens, Declaring, Expecting
<1>9. ParserHolds(c, state[n], declared[n], n) /\ ParserExpects(c, state[n], expected[n], n)
  <2> HIDE DEF start, n
  <2> QED BY <1>7, <1>8 DEF start
<1> QED BY <1>8, <1>9, LineAssumption DEF ParserExpects

(* The whole line: what a proxy that starts goes by.                        *)
LEMMA LineParsed ==
  ASSUME NEW c \in LineCases, ParseProxyArgs(c.tokens, c.env, c.defaults).status # "error"
  PROVE  ParserHolds(c, ParseProxyArgs(c.tokens, c.env, c.defaults), Declarations(c.tokens), Len(c.tokens))
<1> DEFINE read == ReadTokens(c.tokens, StartOptions(c.env, c.defaults))
           d == Declarations(c.tokens)
           n == Len(c.tokens)
           o == read.awaiting
           done == IF read.status = "reading" /\ o # None THEN SetOption(read, o, None) ELSE read
           r == ParseProxyArgs(c.tokens, c.env, c.defaults)
<1>1. r = IF done.agent = Empty \/ done.command = Empty THEN Failed(done) ELSE done
  BY DEF ParseProxyArgs
<1>2. c.tokens \in Seq(TokenSet) /\ n \in Nat
  BY LineAssumption, LenProperties
<1>3. read.status # "error" => ParserHolds(c, read, d, n)
  BY LineRead
<1>4. CASE ~(read.status = "reading" /\ o # None)
  <2>1. done = read
    BY <1>4
  <2> HIDE DEF done, r, read
  <2>2. CASE read.status # "error"
    <3>1. IsState(read)
      BY <1>3, <2>2 DEF ParserHolds
    <3>2. r = read
      BY <1>1, <2>1, <3>1, Failing DEF r
    <3> QED BY <1>3, <2>2, <3>2 DEF r
  <2>3. CASE read.status = "error"
    <3>1. Failed(read).status = "error" \/ r = read
      BY <1>1, <2>1, <2>3 DEF Failed
    <3>2. r = [read EXCEPT !.status = "error"] \/ r = read
      BY <1>1, <2>1 DEF Failed
    <3>3. [read EXCEPT !.status = "error"].status = "error"
      BY <2>3
    <3> QED BY <2>3, <3>2, <3>3 DEF r
  <2> QED BY <2>2, <2>3
<1>5. CASE read.status = "reading" /\ o # None
  <2>1. ParserHolds(c, read, d, n) /\ IsState(read) /\ read.writeTools \in Seq(Declaration)
    BY <1>3, <1>5 DEF ParserHolds
  <2>2. done = SetOption(read, o, None)
    BY <1>5
  <2>3. IsState(done) /\ (done.status # "error" => SettingStands(read, o, None, done))
    <3>1. /\ IsState(SetOption(read, o, None))
          /\ SetOption(read, o, None).status # "error" => SettingStands(read, o, None, SetOption(read, o, None))
      <4> HIDE DEF read, o
      <4> QED BY <1>5, <2>1, SettingDone
    <3> QED BY <2>2, <3>1
  <2> HIDE DEF done, r, read, o
  <2>4. r = done /\ done.status # "error"
    BY <1>1, <2>3, Failing DEF r
  <2>5. DeclaredBy(<<o, None>>) = <<>> /\ \A g \in Guards, w \in Lenient : ~NamedBy(<<o, None>>, g, w)
    BY LineAssumption DEF DeclaredBy, NamedBy, Lenient, None
  <2>6. done.writeTools = read.writeTools
    BY <2>1, <2>3, <2>4, <2>5, NothingMerged DEF SettingStands
  <2>7. \A g \in Guards : done[g] \in Lenient => done[g] = read[g]
    BY <2>3, <2>4, <2>5 DEF SettingStands
  <2>8. ParserHolds(c, done, d, n)
    BY <2>1, <2>3, <2>6, <2>7 DEF ParserHolds
  <2> QED BY <2>4, <2>8 DEF r
<1> QED BY <1>4, <1>5

-----------------------------------------------------------------------------
(* The paths of a call.                                                     *)
LEMMA PathsOfLatest ==
  ASSUME NEW o, o.writeTools \in Seq(Declaration), NEW n, NEW args
  PROVE  /\ \A d : LastDeclared(o.writeTools, n, d) => PathsFor(o, n, args) = Found(args, d.keys)
         /\ ~DeclaredFor(o.writeTools, n) => PathsFor(o, n, args) = Undefined
<1> DEFINE w == o.writeTools
<1>1. Len(w) \in Nat /\ DOMAIN w = 1..Len(w)
  BY LenProperties
<1> DEFINE I == {i \in 1..Len(w) : SameName(w[i].name, n)}
           last == SelectLastInSeq(w, LAMBDA e : SameName(e.name, n))
<1>2. I # {} => last = Max(I)
  BY DEF SelectLastInSeq
<1>3. IsWriteTool(o, n) <=> DeclaredFor(w, n)
  BY <1>1 DEF IsWriteTool, DeclaredFor
<1>4. PathsFor(o, n, args) = IF DeclaredFor(w, n) THEN Found(args, w[last].keys) ELSE Undefined
  BY <1>3 DEF PathsFor
<1>5. ASSUME NEW d, LastDeclared(w, n, d) PROVE DeclaredFor(w, n) /\ w[last] = d
  <2> HIDE DEF w, last
  <2>1. PICK i \in 1..Len(w) : w[i] = d /\ SameName(d.name, n)
                               /\ \A j \in 1..Len(w) : j > i => ~SameName(w[j].name, n)
    BY <1>5 DEF LastDeclared
  <2>2. i \in I /\ \A j \in I : i >= j
    BY <1>1, <2>1
  <2>3. Max(I) \in I /\ \A j \in I : Max(I) >= j
    <3> HIDE DEF I
    <3> QED BY <2>2 DEF Max
  <2>4. Max(I) = i
    BY <1>1, <2>2, <2>3
  <2> HIDE DEF I
  <2> QED BY <1>2, <2>1, <2>2, <2>4 DEF DeclaredFor
<1> HIDE DEF w, last
<1> QED BY <1>4, <1>5 DEF w

-----------------------------------------------------------------------------
(* Documents: what is accepted of a manifest, and the baseline made of it. *)

(* A list without duplicates has every value in one place.                  *)
LEMMA UniqueInPlace ==
  ASSUME NEW A, NEW s \in Seq(A), Unique(s), NEW i \in DOMAIN s, NEW j \in DOMAIN s, s[i] = s[j]
  PROVE  i = j
<1> DEFINE S == 1..Len(s)
           T == Range(s)
<1>1. Len(s) \in Nat /\ DOMAIN s = S
  BY LenProperties
<1>2. IsFiniteSet(S) /\ Cardinality(S) = Len(s)
  <2>1. \A n \in Nat : IsFiniteSet(1..n) /\ Cardinality(1..n) = n
    <3> TAKE n \in Nat
    <3>1. 1 \in Int /\ n \in Int /\ Cardinality(1..n) = IF 1 <= n THEN n - 1 + 1 ELSE 0
      BY FS_Interval
    <3> QED BY <3>1, FS_Interval
  <2> QED BY <1>1, <2>1
<1>3. s \in [S -> T]
  BY <1>1 DEF Range
<1>4. s \in Surjection(S, T)
  BY <1>1, <1>3 DEF Surjection, Range
<1> HIDE DEF S, T
<1>5. s \in Injection(S, T)
  <2>1. Cardinality(T) = Cardinality(S) <=> s \in Injection(S, T)
    BY <1>2, <1>4, FS_Surjection
  <2> QED BY <1>2, <2>1 DEF Unique, T
<1> QED BY <1>1, <1>5 DEF Injection, IsInjective

(* The ids of the cells.                                                    *)
IdsOfCells(cells) == [i \in DOMAIN cells |-> At(cells[i], "id")]
LEMMA IdsInPlace ==
  ASSUME NEW A, NEW cells \in Seq(A), Unique(IdsOfCells(cells)), NEW i \in DOMAIN cells
  PROVE  /\ \A j \in DOMAIN cells : At(cells[j], "id") = At(cells[i], "id") => j = i
         /\ Cardinality({j \in DOMAIN cells : At(cells[j], "id") = At(cells[i], "id")}) = 1
<1> DEFINE ids == IdsOfCells(cells)
           named == {j \in DOMAIN cells : At(cells[j], "id") = At(cells[i], "id")}
<1>1. Len(cells) \in Nat /\ DOMAIN cells = 1..Len(cells)
  BY LenProperties
<1>2. ids \in Seq(Range(ids)) /\ DOMAIN ids = DOMAIN cells
  <2>1. ids \in [1..Len(cells) -> Range(ids)]
    BY <1>1 DEF IdsOfCells, Range
  <2> HIDE DEF ids
  <2>2. ids \in Seq(Range(ids))
    BY <1>1, <2>1, SeqDef
  <2> QED BY <2>2 DEF ids, IdsOfCells
<1>3. \A j \in DOMAIN cells : ids[j] = At(cells[j], "id")
  BY DEF IdsOfCells
<1> HIDE DEF ids
<1>4. \A j \in DOMAIN cells : At(cells[j], "id") = At(cells[i], "id") => j = i
  <2> TAKE j \in DOMAIN cells
  <2> HAVE At(cells[j], "id") = At(cells[i], "id")
  <2>1. ids[j] = ids[i] /\ i \in DOMAIN ids /\ j \in DOMAIN ids
    BY <1>2, <1>3
  <2>2. Unique(ids)
    BY DEF ids
  <2> QED BY <1>2, <2>1, <2>2, UniqueInPlace
<1>5. named = {i}
  BY <1>4
<1> QED BY <1>4, <1>5, FS_Singleton

(* What is accepted of a manifest of which the lists come in order.         *)
ManifestTaken(v) ==
  /\ IsObject(v) /\ Given(v, "cells") /\ At(v, "cells").list \in Seq(Range(At(v, "cells").list))
  /\ Each(At(v, "cells"), ValidCell) /\ CellsAgree(At(v, "cells").list)
  /\ \A x \in Range(At(v, "cells").list) :
       /\ At(x, "ownedPaths").list \in Seq(Range(At(x, "ownedPaths").list))
       /\ At(x, "publicSymbols").list \in Seq(Range(At(x, "publicSymbols").list))
       /\ Filled(At(x, "id"))

LEMMA CellHas ==
  ASSUME NEW x, ValidCell(x)
  PROVE  /\ IsObject(x) /\ Given(x, "id") /\ CellId(At(x, "id"))
         /\ Given(x, "ownedPaths") /\ Paths(At(x, "ownedPaths"))
         /\ Given(x, "publicEntry") /\ Filled(At(x, "publicEntry"))
         /\ Given(x, "publicSymbols") /\ Distinct(At(x, "publicSymbols"))
         /\ Given(x, "consumes") => Each(At(x, "consumes"), ValidConsumer)
         /\ Given(x, "producesArtifacts") => Each(At(x, "producesArtifacts"), ValidLane)
BY Zenon DEF ValidCell, OnlyKeys, Req, Opt, EachWithId

LEMMA ManifestsAreAccepted ==
  ASSUME NEW c \in DocumentCases, c.type = "manifest", ValidManifest(c.value)
  PROVE  ManifestTaken(c.value)
<1> DEFINE v == c.value
<1>1. IsObject(v) /\ Given(v, "cells") /\ Each(At(v, "cells"), ValidCell) /\ CellsAgree(At(v, "cells").list)
  BY Zenon DEF ValidManifest, OnlyKeys, Req
<1>2. IsList(At(v, "cells")) /\ \A x \in Range(At(v, "cells").list) : ValidCell(x)
  BY <1>1, Zenon DEF Each
<1>3. /\ Ordered(v, "cells")
      /\ \A x \in Range(At(v, "cells").list) : Ordered(x, "ownedPaths") /\ Ordered(x, "publicSymbols") /\ TraitsKnown(x, "id")
  BY <1>1, <1>2, DocumentsAssumption, Zenon
<1>4. At(v, "cells").list \in Seq(Range(At(v, "cells").list))
  BY <1>1, <1>2, <1>3, Zenon DEF Ordered
<1>5. ASSUME NEW x \in Range(At(v, "cells").list)
      PROVE  /\ At(x, "ownedPaths").list \in Seq(Range(At(x, "ownedPaths").list))
             /\ At(x, "publicSymbols").list \in Seq(Range(At(x, "publicSymbols").list))
             /\ Filled(At(x, "id"))
  <2>1. ValidCell(x) /\ Ordered(x, "ownedPaths") /\ Ordered(x, "publicSymbols") /\ TraitsKnown(x, "id")
    BY <1>2, <1>3, <1>5, Zenon
  <2>2. /\ IsObject(x) /\ Given(x, "ownedPaths") /\ Given(x, "publicSymbols")
        /\ Paths(At(x, "ownedPaths")) /\ Distinct(At(x, "publicSymbols"))
        /\ Given(x, "id") /\ CellId(At(x, "id"))
    BY <2>1, CellHas, Zenon
  <2>3. IsList(At(x, "ownedPaths")) /\ IsList(At(x, "publicSymbols"))
    BY <2>2, Zenon DEF Paths, Distinct, Strings
  <2>4. Filled(At(x, "id"))
    <3>1. At(x, "id").text \in DOMAIN Traits /\ IsText(At(x, "id")) /\ "cell id" \in Traits[At(x, "id").text]
      BY <2>1, <2>2, Zenon DEF TraitsKnown, CellId, Looks
    <3>2. \A t \in DOMAIN Traits : "cell id" \in Traits[t] => "blank" \notin Traits[t]
      BY DocumentsAssumption, Zenon
    <3> QED BY <3>1, <3>2, Zenon DEF Filled, Looks
  <2> QED BY <2>1, <2>2, <2>3, <2>4, Zenon DEF Ordered
<1> QED BY <1>1, <1>4, <1>5, Zenon DEF ManifestTaken

(* The baseline that is made of an accepted manifest.                       *)

LEMMA LookOfText == \A t : IsText(Text(t)) /\ Text(t).text = t
BY DEF IsText, Text
LEMMA LookOfObject == \A f : IsObject(Object(f)) /\ Object(f).object = f
BY DEF IsObject, Object
LEMMA LookOfList == \A s : IsList(List(s)) /\ List(s).list = s
BY DEF IsList, List

LEMMA NothingListed == Strings(List(<<>>)) /\ Dependencies(List(<<>>)) /\ Range(<<>>) = {}
<1>1. Range(<<>>) = {}
  BY DEF Range
<1>2. Strings(List(<<>>))
  BY <1>1, LookOfList DEF Strings
<1>3. Unique(<<>>)
  BY <1>1, FS_EmptySet DEF Unique
<1>4. List(<<>>).list = <<>>
  BY LookOfList
<1> QED BY <1>1, <1>2, <1>3, <1>4 DEF Dependencies, Distinct

LEMMA SomeLength ==
  ASSUME NEW A, NEW s \in Seq(A)
  PROVE  Count([number |-> Len(s)])
<1>1. Len(s) \in Nat
  BY LenProperties
<1> QED BY <1>1 DEF Count

LEMMA LanesAreFilled ==
  ASSUME NEW x, ValidCell(x)
  PROVE  Strings(List([i \in DOMAIN CopyOf(x, "producesArtifacts") |-> At(CopyOf(x, "producesArtifacts")[i], "id")]))
<1> DEFINE lanes == CopyOf(x, "producesArtifacts")
           ids == [i \in DOMAIN lanes |-> At(lanes[i], "id")]
<1>1. CASE Given(x, "producesArtifacts")
  <2>1. lanes = At(x, "producesArtifacts").list
    BY <1>1 DEF CopyOf
  <2>2. \A l \in Range(lanes) : ValidLane(l)
    <3>1. Each(At(x, "producesArtifacts"), ValidLane)
      BY <1>1, CellHas, Zenon
    <3> QED BY <2>1, <3>1, Zenon DEF Each
  <2>3. \A l \in Range(lanes) : Filled(At(l, "id"))
    BY <2>2, Zenon DEF ValidLane, Req
  <2>4. \A y \in Range(ids) : Filled(y)
    BY <2>3 DEF Range
  <2> HIDE DEF ids
  <2>5. Strings(List(ids))
    BY <2>4, LookOfList DEF Strings
  <2> QED BY <2>5 DEF ids
<1>2. CASE ~Given(x, "producesArtifacts")
  <2>1. lanes = <<>>
    BY <1>2 DEF CopyOf
  <2>2. Range(ids) = {}
    BY <2>1 DEF Range
  <2> HIDE DEF ids
  <2>3. Strings(List(ids))
    BY <2>2, LookOfList DEF Strings
  <2> QED BY <2>3 DEF ids
<1> QED BY <1>1, <1>2

RecordKeys == BudgetKeys \cup {"ownedPathSet", "publicEntryPath", "publicSymbolSet", "publicSurfaceHash",
       "dependencyEdges", "artifactContracts", "resourceAccesses", "externalDependencySet"}
LEMMA RecordIsValid ==
  ASSUME NEW x, ValidCell(x), NEW A, NEW B,
         At(x, "ownedPaths").list \in Seq(A), At(x, "publicSymbols").list \in Seq(B)
  PROVE  ValidRecord(RecordOf(x))
<1> DEFINE r == RecordOf(x)
           owned == [number |-> Len(CopyOf(x, "ownedPaths"))]
           symbols == [number |-> Len(CopyOf(x, "publicSymbols"))]
           zero == [number |-> 0]
           lanes == List([i \in DOMAIN CopyOf(x, "producesArtifacts") |-> At(CopyOf(x, "producesArtifacts")[i], "id")])
<1>1. /\ Given(x, "ownedPaths") /\ Paths(At(x, "ownedPaths")) /\ Filled(At(x, "publicEntry"))
      /\ Given(x, "publicSymbols") /\ Distinct(At(x, "publicSymbols"))
  BY CellHas, Zenon
<1>2. Count(owned) /\ Count(symbols)
  <2>1. CopyOf(x, "ownedPaths") = At(x, "ownedPaths").list /\ CopyOf(x, "publicSymbols") = At(x, "publicSymbols").list
    BY <1>1 DEF CopyOf
  <2> QED BY <2>1, SomeLength
<1>3. Count(zero)
  BY DEF Count
<1>4. Strings(At(x, "ownedPaths")) /\ Strings(At(x, "publicSymbols")) /\ IsText(At(x, "publicEntry"))
  BY <1>1, Zenon DEF Paths, Distinct, Filled
<1>5. Strings(lanes)
  BY LanesAreFilled
<1>6. /\ r = Object([ownedPathPatterns |-> owned, publicSymbols |-> symbols, publicSurfaceLines |-> zero,
                     crossCellDependencies |-> zero, ownedPathSet |-> At(x, "ownedPaths"),
                     publicEntryPath |-> At(x, "publicEntry"), publicSymbolSet |-> At(x, "publicSymbols"),
                     publicSurfaceHash |-> Text("x"), dependencyEdges |-> List(<<>>), artifactContracts |-> lanes,
                     externalDependencySet |-> List(<<>>), resourceAccesses |-> List(<<>>)])
  BY DEF RecordOf
<1> HIDE DEF owned, symbols, zero, lanes, r
<1>7. /\ IsObject(r) /\ DOMAIN r.object = RecordKeys
      /\ r.object["ownedPathPatterns"] = owned /\ r.object["publicSymbols"] = symbols
      /\ r.object["publicSurfaceLines"] = zero /\ r.object["crossCellDependencies"] = zero
      /\ r.object["ownedPathSet"] = At(x, "ownedPaths") /\ r.object["publicEntryPath"] = At(x, "publicEntry")
      /\ r.object["publicSymbolSet"] = At(x, "publicSymbols") /\ r.object["publicSurfaceHash"] = Text("x")
      /\ r.object["dependencyEdges"] = List(<<>>) /\ r.object["artifactContracts"] = lanes
      /\ r.object["externalDependencySet"] = List(<<>>) /\ r.object["resourceAccesses"] = List(<<>>)
  BY <1>6, LookOfObject DEF RecordKeys, BudgetKeys
<1>8. OnlyKeys(r, RecordKeys)
  BY <1>7 DEF OnlyKeys
<1>9. \A k \in BudgetKeys : Req(r, k, Count)
  <2>1. \A k \in BudgetKeys : k \in DOMAIN r.object /\ r.object[k] \in {owned, symbols, zero}
    BY <1>7 DEF BudgetKeys, RecordKeys
  <2>2. \A k \in BudgetKeys : Given(r, k) /\ Count(At(r, k))
    BY <1>2, <1>3, <2>1 DEF Given, At
  <2> QED BY <2>2, Zenon DEF Req
<1>10. \A k \in {"ownedPathSet", "publicSymbolSet", "dependencyEdges", "artifactContracts"} : Opt(r, k, Strings)
  <2>1. \A k \in {"ownedPathSet", "publicSymbolSet", "dependencyEdges", "artifactContracts"} : Strings(At(r, k))
    BY <1>4, <1>5, <1>7, NothingListed DEF At
  <2> QED BY <2>1, Zenon DEF Opt
<1>11. Opt(r, "externalDependencySet", Dependencies)
  BY <1>7, NothingListed, Zenon DEF Opt, At
<1>12. Opt(r, "publicEntryPath", IsText) /\ Opt(r, "publicSurfaceHash", IsText)
  BY <1>4, <1>7, LookOfText, Zenon DEF Opt, At
<1>13. Each(At(r, "resourceAccesses"), LAMBDA e : ValidEntry(e, {}))
  BY <1>7, LookOfList, NothingListed DEF Each, At
<1>14. Opt(r, "resourceAccesses", LAMBDA l : Each(l, LAMBDA e : ValidEntry(e, {})))
  BY <1>13, Zenon DEF Opt
<1> QED BY <1>8, <1>9, <1>10, <1>11, <1>12, <1>14, Zenon DEF ValidRecord, RecordKeys, r

(* The seals that are put on a baseline are seals.                          *)
Seals == {[null |-> TRUE]} \cup {SealOf(a, k) : a \in {"hmac-sha256", "ed25519"}, k \in BOOLEAN}
LEMMA SealsAreValid ==
  ASSUME NEW seal \in Seals
  PROVE  IsObject(seal) => ValidSeal(seal)
<1>1. CASE seal = [null |-> TRUE]
  BY <1>1 DEF IsObject
<1>2. CASE \E a \in {"hmac-sha256", "ed25519"}, k \in BOOLEAN : seal = SealOf(a, k)
  <2>1. PICK a \in {"hmac-sha256", "ed25519"}, k \in BOOLEAN : seal = SealOf(a, k)
    BY <1>2
  <2> DEFINE proof == IF a = "ed25519" THEN "signature" ELSE "digest"
             f == seal.object
             keys == {"algorithm", "payloadVersion"} \cup (IF a = "ed25519" THEN {"signature"} ELSE {"digest"})
                       \cup (IF k THEN {"keyId"} ELSE {})
  <2>2. IsObject(seal) /\ DOMAIN f = keys
    BY <2>1, LookOfObject DEF SealOf
  <2>3. /\ f["algorithm"] = Text(a) /\ f["payloadVersion"] = Text("seal-metadata-v1")
        /\ k => f["keyId"] = Text("x")
        /\ f[proof] = Text(proof)
    BY <2>1, LookOfObject DEF SealOf
  <2> HIDE DEF f
  <2>4. OnlyKeys(seal, {"algorithm", "keyId", "payloadVersion", "digest", "signature"})
    BY <2>2 DEF OnlyKeys, f
  <2>5. Opt(seal, "keyId", IsText)
    <3>1. Given(seal, "keyId") => k
      BY <2>2 DEF Given, f
    <3>2. k => IsText(At(seal, "keyId"))
      BY <2>3, LookOfText, Zenon DEF At, f
    <3> QED BY <3>1, <3>2, Zenon DEF Opt
  <2>6. Opt(seal, "payloadVersion", LAMBDA p : p = Text("seal-metadata-v1"))
    BY <2>3, Zenon DEF Opt, At, f
  <2>7. Req(seal, "algorithm", LAMBDA x : x = Text(a))
    <3>1. Given(seal, "algorithm")
      BY <2>2 DEF Given, f
    <3> QED BY <2>3, <3>1, Zenon DEF Req, At, f
  <2>8. Given(seal, proof) /\ IsText(At(seal, proof)) /\ Looks(At(seal, proof), proof)
    <3>1. Given(seal, proof)
      BY <2>2 DEF Given, f
    <3>2. At(seal, proof) = Text(proof)
      BY <2>3 DEF At, f
    <3>3. proof \in Traits[proof]
      BY DocumentsAssumption
    <3> QED BY <3>1, <3>2, <3>3, LookOfText, Zenon DEF Looks
  <2>9. CASE a = "ed25519"
    <3>1. proof = "signature" /\ ~Given(seal, "digest")
      BY <2>2, <2>9 DEF Given, f
    <3>2. Req(seal, "signature", LAMBDA s : IsText(s) /\ Looks(s, "signature"))
      BY <2>8, <3>1, Zenon DEF Req
    <3>3. Req(seal, "algorithm", LAMBDA x : x = Text("ed25519"))
      BY <2>7, <2>9, Zenon DEF Req
    <3> QED BY <2>4, <2>5, <2>6, <3>1, <3>2, <3>3, Zenon DEF ValidSeal
  <2>10. CASE a = "hmac-sha256"
    <3>1. proof = "digest" /\ ~Given(seal, "signature")
      BY <2>2, <2>10 DEF Given, f
    <3>2. Req(seal, "digest", LAMBDA s : IsText(s) /\ Looks(s, "digest"))
      BY <2>8, <3>1, Zenon DEF Req
    <3>3. Req(seal, "algorithm", LAMBDA x : x = Text("hmac-sha256"))
      BY <2>7, <2>10, Zenon DEF Req
    <3> QED BY <2>4, <2>5, <2>6, <3>1, <3>2, <3>3, Zenon DEF ValidSeal
  <2> QED BY <2>9, <2>10
<1> QED BY <1>1, <1>2 DEF Seals

RecordsOf(cells) ==
  [k \in {i.text : i \in Range(IdsOfCells(cells))} |-> RecordOf(CHOOSE c \in Range(cells) : At(c, "id").text = k)]
LEMMA RecordsOfCells ==
  ASSUME NEW v, ManifestTaken(v)
  PROVE  LET records == Object(RecordsOf(At(v, "cells").list))
         IN IsObject(records) /\ \A k \in DOMAIN records.object : "cell id" \in Traits[k] /\ ValidRecord(At(records, k))
<1> DEFINE cells == At(v, "cells").list
           f == RecordsOf(cells)
<1>1. /\ \A x \in Range(cells) : ValidCell(x)
      /\ \A x \in Range(cells) :
           /\ At(x, "ownedPaths").list \in Seq(Range(At(x, "ownedPaths").list))
           /\ At(x, "publicSymbols").list \in Seq(Range(At(x, "publicSymbols").list))
  BY Zenon DEF ManifestTaken, Each
<1> HIDE DEF cells
<1>2. \A k \in DOMAIN f : \E c \in Range(cells) : At(c, "id").text = k
  BY DEF RecordsOf, IdsOfCells, Range
<1>3. \A k \in DOMAIN f : f[k] = RecordOf(CHOOSE c \in Range(cells) : At(c, "id").text = k)
  BY DEF RecordsOf
<1> HIDE DEF f
<1>4. ASSUME NEW k \in DOMAIN f PROVE "cell id" \in Traits[k] /\ ValidRecord(f[k])
  <2> DEFINE c == CHOOSE d \in Range(cells) : At(d, "id").text = k
  <2>1. c \in Range(cells) /\ At(c, "id").text = k /\ f[k] = RecordOf(c)
    BY <1>2, <1>3, <1>4
  <2> HIDE DEF c
  <2>2. ValidCell(c)
    BY <1>1, <2>1
  <2>3. CellId(At(c, "id"))
    BY <2>2, CellHas, Zenon
  <2>4. ValidRecord(RecordOf(c))
    BY <1>1, <2>1, <2>2, RecordIsValid
  <2> QED BY <2>1, <2>3, <2>4, Zenon DEF CellId, Looks
<1>5. IsObject(Object(f)) /\ Object(f).object = f
  BY LookOfObject
<1> QED BY <1>4, <1>5, Zenon DEF At, f, cells

LEMMA BaselineIsValid ==
  ASSUME NEW v, ManifestTaken(v), NEW seal \in Seals
  PROVE  ValidBaseline(BaselineOf(v, seal))
<1> DEFINE cells == At(v, "cells").list
           ids == IdsOfCells(cells)
           records == Object(RecordsOf(cells))
           plain == [schemaVersion |-> Text("baseline v1"), generatedAt |-> Text("date"), cellIds |-> List(ids),
                     cells |-> records]
           b == BaselineOf(v, seal)
           f == [k \in DOMAIN plain \cup (IF IsObject(seal) THEN {"seal"} ELSE {}) |->
                   IF k = "seal" THEN seal ELSE plain[k]]
<1>1. b = Object(f)
  BY DEF BaselineOf, IdsOfCells, RecordsOf
<1>2. IsObject(records) /\ \A k \in DOMAIN records.object : "cell id" \in Traits[k] /\ ValidRecord(At(records, k))
  BY RecordsOfCells, Zenon
<1>3. Distinct(List(ids)) /\ \A x \in Range(List(ids).list) : CellId(x)
  <2>1. Unique(ids) /\ \A x \in Range(cells) : ValidCell(x)
    BY Zenon DEF ManifestTaken, Each, CellsAgree, IdsOfCells
  <2>2. \A x \in Range(cells) : CellId(At(x, "id")) /\ Given(x, "id")
    BY <2>1, CellHas, Zenon
  <2>3. \A i \in Range(ids) : CellId(i)
    BY <2>2 DEF IdsOfCells, Range
  <2>4. \A i \in Range(ids) : Filled(i)
    <3>0. \A x \in Range(cells) : Filled(At(x, "id"))
      BY Zenon DEF ManifestTaken
    <3> QED BY <3>0 DEF IdsOfCells, Range
  <2> HIDE DEF ids
  <2> QED BY <2>1, <2>3, <2>4, LookOfList DEF Distinct, Strings
<1> HIDE DEF records, ids
<1>4. /\ DOMAIN f = {"schemaVersion", "generatedAt", "cellIds", "cells"} \cup (IF IsObject(seal) THEN {"seal"} ELSE {})
      /\ f["schemaVersion"] = Text("baseline v1") /\ f["generatedAt"] = Text("date")
      /\ f["cellIds"] = List(ids) /\ f["cells"] = records
      /\ IsObject(seal) => f["seal"] = seal
  OBVIOUS
<1> HIDE DEF f, plain
<1>5. IsObject(b) /\ b.object = f
  BY <1>1, LookOfObject DEF f
<1> HIDE DEF b
<1>6. /\ OnlyKeys(b, {"schemaVersion", "generatedAt", "cellIds", "seal", "cells"})
      /\ Given(b, "schemaVersion") /\ Given(b, "generatedAt") /\ Given(b, "cells")
      /\ Given(b, "seal") => IsObject(seal)
  <2>1. DOMAIN f \subseteq {"schemaVersion", "generatedAt", "cellIds", "seal", "cells"}
    BY <1>4
  <2>2. {"schemaVersion", "generatedAt", "cells"} \subseteq DOMAIN f
    BY <1>4
  <2>3. "seal" \in DOMAIN f => IsObject(seal)
    BY <1>4
  <2> QED BY <1>5, <2>1, <2>2, <2>3 DEF OnlyKeys, Given
<1>7. Req(b, "schemaVersion", LAMBDA s : s = Text("baseline v1"))
  BY <1>4, <1>5, <1>6, Zenon DEF Req, At
<1>8. Req(b, "generatedAt", LAMBDA t : IsText(t) /\ Looks(t, "date"))
  <2>1. "date" \in Traits["date"]
    BY DocumentsAssumption
  <2>2. IsText(Text("date")) /\ Looks(Text("date"), "date")
    BY <2>1, LookOfText, Zenon DEF Looks
  <2> QED BY <1>4, <1>5, <1>6, <2>2, Zenon DEF Req, At
<1>9. Opt(b, "cellIds", LAMBDA l : Distinct(l) /\ \A x \in Range(l.list) : CellId(x))
  BY <1>3, <1>4, <1>5, Zenon DEF Opt, At
<1>10. Opt(b, "seal", ValidSeal)
  BY <1>4, <1>5, <1>6, SealsAreValid, Zenon DEF Opt, At
<1>11. Req(b, "cells", LAMBDA c :
         IsObject(c) /\ \A k \in DOMAIN c.object : "cell id" \in Traits[k] /\ ValidRecord(At(c, k)))
  <2>1. At(b, "cells") = records
    BY <1>4, <1>5 DEF At
  <2> QED BY <1>2, <1>6, <2>1, Zenon DEF Req
<1> QED BY <1>6, <1>7, <1>8, <1>9, <1>10, <1>11, Zenon DEF ValidBaseline, b

-----------------------------------------------------------------------------
(* Traces: the states of the module that records accesses.                  *)
Tracing(c, state) ==
  /\ Trace(c) = state /\ state[0] = Fresh
  /\ \A i \in 1..Len(c.events) : state[i] = Step(c.env, state[i - 1], c.events[i])

LEMMA TraceSteps ==
  ASSUME NEW c, NEW A, c.events \in Seq(A)
  PROVE  Tracing(c, Trace(c))
<1> DEFINE Upto(m, g) == g = [i \in 0..m |-> IF i = 0 THEN Fresh ELSE Step(c.env, g[i - 1], c.events[i])]
           S == {m \in 0..Len(c.events) : \E g : Upto(m, g)}
           done == CHOOSE g : Upto(Len(c.events), g)
<1>1. Len(c.events) \in Nat
  BY LenProperties
<1>2. 0 \in S
  <2>1. Upto(0, [i \in 0..0 |-> Fresh])
    OBVIOUS
  <2> HIDE DEF Upto
  <2> QED BY <1>1, <2>1
<1>3. ASSUME NEW m \in 0..Len(c.events), m \in S, m < Len(c.events) PROVE m + 1 \in S
  <2>1. PICK g : Upto(m, g)
    BY <1>3
  <2> DEFINE h == [i \in 0..(m + 1) |-> IF i <= m THEN g[i] ELSE Step(c.env, g[i - 1], c.events[i])]
  <2>2. m + 1 \in 0..Len(c.events) /\ m \in Nat
    BY <1>1, <1>3
  <2>3. h = [i \in 0..(m + 1) |-> IF i = 0 THEN Fresh ELSE Step(c.env, h[i - 1], c.events[i])]
    <3>1. ASSUME NEW i \in 0..(m + 1) PROVE h[i] = IF i = 0 THEN Fresh ELSE Step(c.env, h[i - 1], c.events[i])
      <4>1. CASE i = 0
        BY <2>1, <2>2, <4>1
      <4>2. CASE i # 0
        <5>1. i - 1 \in 0..m /\ i - 1 \in 0..(m + 1) /\ i - 1 <= m
          BY <2>2, <4>2
        <5>2. h[i - 1] = g[i - 1]
          BY <5>1
        <5>3. h[i] = Step(c.env, g[i - 1], c.events[i])
          BY <2>1, <2>2, <4>2
        <5> HIDE DEF h
        <5> QED BY <4>2, <5>2, <5>3
      <4> QED BY <4>1, <4>2
    <3> QED BY <3>1
  <2>4. Upto(m + 1, h)
    BY <2>3
  <2> HIDE DEF Upto, h
  <2> QED BY <2>2, <2>4
<1>4. Upto(Len(c.events), done)
  <2> HIDE DEF S
  <2>1. Len(c.events) \in S
    <3>1. \A m \in 0..Len(c.events) : m \in S
      BY <1>1, <1>2, <1>3, Climb
    <3> QED BY <1>1, <3>1
  <2> HIDE DEF Upto
  <2> QED BY <2>1 DEF S
<1>5. Trace(c) = done
  BY DEF Trace
<1> HIDE DEF done
<1>6. done[0] = Fresh /\ \A i \in 1..Len(c.events) : done[i] = Step(c.env, done[i - 1], c.events[i])
  BY <1>1, <1>4
<1> QED BY <1>5, <1>6 DEF Tracing

(* The state is a record, and its accesses are filed under their keys, no   *)
(* more of them than the cap.                                               *)
IsTrace(s) ==
  /\ s = [installed |-> s.installed, hooked |-> s.hooked, flushed |-> s.flushed, full |-> s.full,
          accesses |-> s.accesses, written |-> s.written]
  /\ s.accesses = [k \in DOMAIN s.accesses |-> s.accesses[k]]
  /\ s.installed \in BOOLEAN /\ s.flushed \in BOOLEAN /\ s.full \in BOOLEAN
Filed(cap, accesses) ==
  /\ IsFiniteSet(DOMAIN accesses) /\ Cardinality(DOMAIN accesses) <= cap
  /\ \A k \in DOMAIN accesses : accesses[k] \in Access /\ AccessKeyOf(accesses[k]) = k

Later(s, r) ==
  /\ (s.installed => r.installed) /\ (r.flushed <=> s.flushed) /\ r.written = s.written
  /\ s.full => r.full
  /\ Range(s.accesses) \subseteq Range(r.accesses)

LEMMA RecordedIsFiled ==
  ASSUME NEW env, env.cap \in Nat \ {0}, env.cell \in STRING, NEW s, NEW a \in Access, IsTrace(s), Filed(env.cap, s.accesses)
  PROVE  LET r == Record(env, s, a)
         IN /\ IsTrace(r) /\ Filed(env.cap, r.accesses) /\ Later(s, r) /\ r.hooked = TRUE
            /\ r.full = TRUE \/ Resolved(env, a) \in Range(r.accesses)
            /\ DOMAIN r.accesses # {}
<1> DEFINE x == Resolved(env, a)
           k == AccessKeyOf(x)
           r == Record(env, s, a)
<1>1. x \in Access
  BY DEF Resolved, Access
<1>2. CASE k \notin DOMAIN s.accesses /\ Cardinality(DOMAIN s.accesses) >= env.cap
  <2>1. r = [s EXCEPT !.hooked = TRUE, !.full = TRUE]
    BY <1>2 DEF Record
  <2>2. DOMAIN s.accesses # {}
    <3>1. Cardinality({}) = 0 /\ ~(0 >= env.cap)
      BY FS_EmptySet
    <3> QED BY <1>2, <3>1
  <2> HIDE DEF r, k, x
  <2>3. r.accesses = s.accesses /\ r.full = TRUE /\ IsTrace(r) /\ Later(s, r) /\ r.hooked = TRUE
    BY <2>1 DEF IsTrace, Later
  <2> QED BY <2>2, <2>3 DEF r
<1>3. CASE ~(k \notin DOMAIN s.accesses /\ Cardinality(DOMAIN s.accesses) >= env.cap)
  <2> DEFINE f == [y \in DOMAIN s.accesses \cup {k} |-> IF y = k THEN x ELSE s.accesses[y]]
  <2>1. r = [s EXCEPT !.hooked = TRUE, !.accesses = f]
    BY <1>3 DEF Record
  <2>2. DOMAIN f = DOMAIN s.accesses \cup {k} /\ f[k] = x /\ f = [y \in DOMAIN f |-> f[y]]
        /\ \A y \in DOMAIN s.accesses : y # k => f[y] = s.accesses[y]
    OBVIOUS
  <2>3. Filed(env.cap, f)
    <3>1. IsFiniteSet(DOMAIN f) /\ Cardinality(DOMAIN f) <= env.cap
      <4>1. Cardinality(DOMAIN s.accesses) \in Nat
        BY FS_CardinalityType DEF Filed
      <4>2. CASE k \in DOMAIN s.accesses
        <5>1. DOMAIN f = DOMAIN s.accesses
          BY <2>2, <4>2
        <5> HIDE DEF f
        <5> QED BY <5>1 DEF Filed
      <4>3. CASE k \notin DOMAIN s.accesses
        <5>1. Cardinality(DOMAIN s.accesses) < env.cap
          BY <1>3, <4>1, <4>3
        <5> DEFINE old == DOMAIN s.accesses
        <5>2. IsFiniteSet(old) /\ k \notin old /\ DOMAIN f = old \cup {k}
          BY <2>2, <4>3 DEF Filed
        <5> HIDE DEF f, k, old
        <5>3. IsFiniteSet(DOMAIN f) /\ Cardinality(DOMAIN f) = Cardinality(old) + 1
          BY <5>2, FS_AddElement
        <5> QED BY <4>1, <5>1, <5>3 DEF old
      <4> QED BY <4>2, <4>3
    <3> HIDE DEF f, x
    <3>2. ASSUME NEW y \in DOMAIN f PROVE f[y] \in Access /\ AccessKeyOf(f[y]) = y
      BY <1>1, <2>2 DEF Filed
    <3> QED BY <3>1, <3>2 DEF Filed
  <2>4. Range(s.accesses) \subseteq Range(f)
    <3>1. ASSUME NEW y \in DOMAIN s.accesses PROVE f[y] = s.accesses[y]
      <4>1. s.accesses[y] \in Access /\ AccessKeyOf(s.accesses[y]) = y
        BY DEF Filed
      <4>2. CASE y = k
        <5>1. AccessKeyOf(s.accesses[y]) = AccessKeyOf(x)
          BY <4>1, <4>2
        <5> DEFINE z == s.accesses[y]
        <5> HIDE DEF x, k, f, z
        <5>2. z.cell = x.cell /\ z.kind = x.kind /\ z.access = x.access /\ z.selector = x.selector
          BY <5>1 DEF AccessKeyOf, z
        <5>3. z \in Access /\ x \in Access
          BY <1>1, <4>1 DEF z
        <5>4. z = x
          BY <5>2, <5>3 DEF Access
        <5> QED BY <2>2, <4>2, <5>4 DEF z
      <4> QED BY <2>2, <4>2
    <3> HIDE DEF f
    <3> QED BY <2>2, <3>1 DEF Range
  <2>5. x \in Range(f) /\ DOMAIN f # {}
    BY <2>2 DEF Range
  <2> HIDE DEF r, f, x, k
  <2>6. r.accesses = f /\ IsTrace(r) /\ r.hooked = TRUE /\ r.installed = s.installed /\ r.flushed = s.flushed
        /\ r.written = s.written /\ r.full = s.full
    BY <2>1, <2>2 DEF IsTrace
  <2> QED BY <2>3, <2>4, <2>5, <2>6 DEF Later, r, x
<1> QED BY <1>2, <1>3

(* What the states up to the i-th know, of which noted(j) says whether the  *)
(* j-th event is recorded.                                                  *)
NotedAt(c, state, j) == Noted(state[j - 1], c.events[j])
AccessAt(c, j) == Resolved(c.env, AccessBy(c.events[j]))

WrittenHolds(c, state, i, w) ==
  /\ w = [cell |-> c.env.cell, commit |-> c.env.commit, status |-> w.status, accesses |-> w.accesses]
  /\ w.accesses \subseteq Access /\ IsFiniteSet(w.accesses) /\ Cardinality(w.accesses) <= c.env.cap
  /\ w.status = "active" => ~c.env.disabled
  /\ w.status = "inactive" => c.env.disabled
  /\ w.status \in {"active", "inactive", "incomplete"}
  /\ w.status = "active" =>
       \A j \in 1..i : NotedAt(c, state, j) /\ ~state[j - 1].flushed => AccessAt(c, j) \in w.accesses
TraceHolds(c, state, i) ==
  LET s == state[i]
      noted == {j \in 1..i : NotedAt(c, state, j)}
  IN /\ IsTrace(s) /\ Filed(c.env.cap, s.accesses)
     /\ ~s.flushed => /\ s.written = <<>>
                      /\ \A j \in noted : s.full \/ AccessAt(c, j) \in Range(s.accesses)
     /\ s.flushed => WrittenHolds(c, state, i, s.written)
     /\ noted # {} => s.hooked /\ (s.flushed \/ s.installed \/ DOMAIN s.accesses # {})
     /\ \A j \in noted : \A k \in (j + 1)..i : c.events[k].do \in {"beforeExit", "exit"} => s.flushed

(* A file that is flushed holds what was filed.                             *)
LEMMA FlushedHolds ==
  ASSUME NEW env, NEW s, IsTrace(s), Filed(env.cap, s.accesses), env.cap \in Nat,
         env.disabled \in BOOLEAN, s.full \in BOOLEAN
  PROVE  LET w == [cell |-> env.cell, commit |-> env.commit, status |-> TranscriptStatus(env, s), accesses |-> Range(s.accesses)]
         IN /\ w = [cell |-> env.cell, commit |-> env.commit, status |-> w.status, accesses |-> w.accesses]
            /\ w.accesses \subseteq Access /\ IsFiniteSet(w.accesses) /\ Cardinality(w.accesses) <= env.cap
            /\ w.status = "active" => ~env.disabled /\ ~s.full
            /\ w.status = "inactive" => env.disabled
            /\ w.status \in {"active", "inactive", "incomplete"}
<1> DEFINE w == [cell |-> env.cell, commit |-> env.commit, status |-> TranscriptStatus(env, s), accesses |-> Range(s.accesses)]
           f == s.accesses
<1>1. Range(f) \subseteq Access /\ IsFiniteSet(Range(f)) /\ Cardinality(Range(f)) <= env.cap
  <2>1. f \in [DOMAIN f -> Range(f)] /\ Range(f) = {f[k] : k \in DOMAIN f}
    BY DEF IsTrace, Range
  <2>2. IsFiniteSet(DOMAIN f) /\ Cardinality(DOMAIN f) <= env.cap /\ \A k \in DOMAIN f : f[k] \in Access
    BY DEF Filed
  <2> HIDE DEF f
  <2>3. f \in Surjection(DOMAIN f, Range(f))
    BY <2>1 DEF Surjection
  <2>4. IsFiniteSet(Range(f)) /\ Cardinality(Range(f)) <= Cardinality(DOMAIN f)
    BY <2>2, <2>3, FS_Surjection
  <2>5. Cardinality(DOMAIN f) \in Nat /\ Cardinality(Range(f)) \in Nat
    BY <2>2, <2>4, FS_CardinalityType
  <2> QED BY <2>1, <2>2, <2>4, <2>5
<1>2. w.accesses = Range(f) /\ w.status = TranscriptStatus(env, s) /\ w.cell = env.cell /\ w.commit = env.commit
  OBVIOUS
<1>3. /\ TranscriptStatus(env, s) = "active" => ~env.disabled /\ ~s.full
      /\ TranscriptStatus(env, s) = "inactive" => env.disabled
      /\ TranscriptStatus(env, s) \in {"active", "inactive", "incomplete"}
  BY DEF TranscriptStatus
<1> QED BY <1>1, <1>2, <1>3

(* One more event is recorded or makes no difference to what was.           *)
Onward(c, state, i) ==
  LET s == state[i]
      r == state[i + 1]
  IN /\ IsTrace(r) /\ Filed(c.env.cap, r.accesses) /\ Later(s, r)
     /\ s.hooked => r.hooked
     /\ DOMAIN s.accesses # {} => DOMAIN r.accesses # {}
     /\ NotedAt(c, state, i + 1) =>
          /\ r.hooked /\ DOMAIN r.accesses # {}
          /\ r.full \/ AccessAt(c, i + 1) \in Range(r.accesses)
     /\ c.events[i + 1].do \notin {"beforeExit", "exit"}

LEMMA TraceGoesOn ==
  ASSUME NEW c, NEW state, NEW i \in Nat, TraceHolds(c, state, i), Onward(c, state, i)
  PROVE  TraceHolds(c, state, i + 1)
<1> DEFINE s == state[i]
           r == state[i + 1]
           noted == {j \in 1..i : NotedAt(c, state, j)}
           more == {j \in 1..(i + 1) : NotedAt(c, state, j)}
<1>0. /\ IsTrace(r) /\ Filed(c.env.cap, r.accesses) /\ Later(s, r)
      /\ s.hooked => r.hooked
      /\ DOMAIN s.accesses # {} => DOMAIN r.accesses # {}
      /\ NotedAt(c, state, i + 1) =>
           /\ r.hooked /\ DOMAIN r.accesses # {}
           /\ r.full \/ AccessAt(c, i + 1) \in Range(r.accesses)
      /\ c.events[i + 1].do \notin {"beforeExit", "exit"}
  BY Zenon DEF Onward
<1>1. /\ \A j \in more : j \in noted \/ (j = i + 1 /\ NotedAt(c, state, i + 1))
      /\ \A j \in noted : j \in 1..i
  OBVIOUS
<1>2. /\ (s.installed => r.installed) /\ (r.flushed <=> s.flushed) /\ r.written = s.written
      /\ s.full => r.full
      /\ Range(s.accesses) \subseteq Range(r.accesses)
  BY <1>0, Zenon DEF Later
<1>3. /\ ~s.flushed => /\ s.written = <<>>
                       /\ \A j \in noted : s.full \/ AccessAt(c, j) \in Range(s.accesses)
      /\ s.flushed => WrittenHolds(c, state, i, s.written)
      /\ noted # {} => s.hooked /\ (s.flushed \/ s.installed \/ DOMAIN s.accesses # {})
      /\ \A j \in noted : \A k \in (j + 1)..i : c.events[k].do \in {"beforeExit", "exit"} => s.flushed
  BY DEF TraceHolds
<1> DEFINE at(j) == AccessAt(c, j)
<1> HIDE DEF noted, more, at
<1>4. ~r.flushed => /\ r.written = <<>>
                    /\ \A j \in more : r.full \/ AccessAt(c, j) \in Range(r.accesses)
  <2> SUFFICES ASSUME ~r.flushed PROVE r.written = <<>> /\ \A j \in more : r.full \/ AccessAt(c, j) \in Range(r.accesses)
    BY <1>0, Zenon
  <2>1. ~s.flushed
    BY <1>2
  <2>2. \A j \in noted : r.full \/ AccessAt(c, j) \in Range(r.accesses)
    BY <2>1, <1>2, <1>3, Zenon
  <2>3. NotedAt(c, state, i + 1) => r.full \/ AccessAt(c, i + 1) \in Range(r.accesses)
    BY <1>0, Zenon
  <2>4. r.written = <<>>
    BY <2>1, <1>2, <1>3
  <2> HIDE DEF r, s
  <2> QED BY <1>1, <2>2, <2>3, <2>4, Zenon
<1>5. r.flushed => WrittenHolds(c, state, i + 1, r.written)
  <2> SUFFICES ASSUME r.flushed PROVE WrittenHolds(c, state, i + 1, r.written)
    OBVIOUS
  <2>1. s.flushed /\ WrittenHolds(c, state, i, r.written)
    BY <1>2, <1>3, Zenon
  <2>2. \A j \in 1..(i + 1) : ~state[j - 1].flushed => j \in 1..i
    BY <2>1
  <2> QED BY <2>1, <2>2 DEF WrittenHolds
<1>6. more # {} => r.hooked /\ (r.flushed \/ r.installed \/ DOMAIN r.accesses # {})
  <2>1. noted # {} => r.hooked /\ (r.flushed \/ r.installed \/ DOMAIN r.accesses # {})
    BY <1>0, <1>2, <1>3, Zenon
  <2>2. NotedAt(c, state, i + 1) => r.hooked /\ DOMAIN r.accesses # {}
    BY <1>0, Zenon
  <2> HIDE DEF r
  <2> QED BY <1>1, <2>1, <2>2, Zenon
<1>7. \A j \in more : \A k \in (j + 1)..(i + 1) : c.events[k].do \in {"beforeExit", "exit"} => r.flushed
  <2> SUFFICES ASSUME NEW j \in more, NEW k \in (j + 1)..(i + 1), c.events[k].do \in {"beforeExit", "exit"} PROVE r.flushed
    OBVIOUS
  <2>1. k # i + 1 /\ k \in (j + 1)..i /\ j \in noted
    <3>1. k # i + 1 /\ (j \in noted \/ j = i + 1)
      BY <1>0, <1>1
    <3> HIDE DEF r, s
    <3> QED BY <1>1, <3>1
  <2> QED BY <1>2, <1>3, <2>1, Zenon
<1> QED BY <1>0, <1>4, <1>5, <1>6, <1>7, Zenon DEF TraceHolds, more

(* The hooks are called when there is nothing to write, or nothing more.    *)
LEMMA TraceIdles ==
  ASSUME NEW c, NEW state, NEW i \in Nat, TraceHolds(c, state, i), state[i + 1] = state[i], ~NotedAt(c, state, i + 1),
         state[i].flushed \/ \A j \in 1..i : ~NotedAt(c, state, j)
  PROVE  TraceHolds(c, state, i + 1)
<1> DEFINE s == state[i]
           noted == {j \in 1..i : NotedAt(c, state, j)}
           more == {j \in 1..(i + 1) : NotedAt(c, state, j)}
<1>1. more = noted /\ noted \subseteq 1..i /\ (s.flushed \/ noted = {})
  <2>1. \A j \in 1..(i + 1) : j \in 1..i \/ j = i + 1
    OBVIOUS
  <2> QED BY <2>1
<1>2. IsTrace(s) /\ Filed(c.env.cap, s.accesses)
  BY DEF TraceHolds
<1>3. /\ ~s.flushed => /\ s.written = <<>>
                       /\ \A j \in noted : s.full \/ AccessAt(c, j) \in Range(s.accesses)
      /\ s.flushed => WrittenHolds(c, state, i, s.written)
      /\ noted # {} => s.hooked /\ (s.flushed \/ s.installed \/ DOMAIN s.accesses # {})
  BY Zenon DEF TraceHolds
<1>4. s.flushed => WrittenHolds(c, state, i + 1, s.written)
  <2> SUFFICES ASSUME s.flushed PROVE WrittenHolds(c, state, i + 1, s.written)
    OBVIOUS
  <2>1. WrittenHolds(c, state, i, s.written)
    BY <1>3, Zenon
  <2>2. \A j \in 1..(i + 1) : NotedAt(c, state, j) => j \in 1..i
    BY <1>1
  <2> QED BY <2>1, <2>2 DEF WrittenHolds
<1>5. \A j \in noted : \A k \in (j + 1)..(i + 1) : c.events[k].do \in {"beforeExit", "exit"} => s.flushed
  BY <1>1, Zenon
<1> HIDE DEF noted, more
<1> QED BY <1>1, <1>2, <1>3, <1>4, <1>5, Zenon DEF TraceHolds, more

(* The evidence is written.                                                 *)
LEMMA TraceFlushes ==
  ASSUME NEW c \in TraceCases, NEW state, NEW i \in Nat, TraceHolds(c, state, i), ~NotedAt(c, state, i + 1),
         ~state[i].flushed, state[i].hooked,
         LET s == state[i]
         IN state[i + 1] = [s EXCEPT !.flushed = TRUE,
                              !.written = [cell |-> c.env.cell, commit |-> c.env.commit,
                                           status |-> TranscriptStatus(c.env, s), accesses |-> Range(s.accesses)]]
  PROVE  TraceHolds(c, state, i + 1)
<1> DEFINE s == state[i]
           r == state[i + 1]
           w == [cell |-> c.env.cell, commit |-> c.env.commit, status |-> TranscriptStatus(c.env, s), accesses |-> Range(s.accesses)]
           noted == {j \in 1..i : NotedAt(c, state, j)}
           more == {j \in 1..(i + 1) : NotedAt(c, state, j)}
<1>1. more = noted /\ noted \subseteq 1..i
  <2>1. \A j \in 1..(i + 1) : j \in 1..i \/ j = i + 1
    OBVIOUS
  <2> QED BY <2>1
<1>2. IsTrace(s) /\ Filed(c.env.cap, s.accesses) /\ c.env.cap \in Nat /\ c.env.disabled \in BOOLEAN
  BY TraceAssumption DEF TraceHolds
<1>3. \A j \in noted : s.full \/ AccessAt(c, j) \in Range(s.accesses)
  BY Zenon DEF TraceHolds
<1>4. /\ w = [cell |-> c.env.cell, commit |-> c.env.commit, status |-> w.status, accesses |-> w.accesses]
      /\ w.accesses \subseteq Access /\ IsFiniteSet(w.accesses) /\ Cardinality(w.accesses) <= c.env.cap
      /\ w.status = "active" => ~c.env.disabled /\ ~s.full
      /\ w.status = "inactive" => c.env.disabled
      /\ w.status \in {"active", "inactive", "incomplete"}
  <2>1. s.full \in BOOLEAN
    BY <1>2 DEF IsTrace
  <2> HIDE DEF s
  <2> QED BY <1>2, <2>1, FlushedHolds
<1>5. w.accesses = Range(s.accesses)
  OBVIOUS
<1>6. IsTrace(r) /\ r.written = w /\ r.flushed = TRUE /\ r.accesses = s.accesses /\ (s.hooked => r.hooked)
  <2>1. r = [s EXCEPT !.flushed = TRUE, !.written = w]
    OBVIOUS
  <2> HIDE DEF r, w, s
  <2> QED BY <1>2, <2>1 DEF IsTrace
<1>7. WrittenHolds(c, state, i + 1, w)
  <2>1. w.status = "active" => \A j \in more : AccessAt(c, j) \in w.accesses
    <3> HIDE DEF w, noted, more, s
    <3> QED BY <1>1, <1>3, <1>4, <1>5, Zenon
  <2>2. w.status = "active" => \A j \in 1..(i + 1) : NotedAt(c, state, j) => AccessAt(c, j) \in w.accesses
    <3> HIDE DEF w, s
    <3> QED BY <2>1
  <2> HIDE DEF w, s, noted, more
  <2> QED BY <1>4, <2>2, Zenon DEF WrittenHolds
<1>8. Filed(c.env.cap, r.accesses) /\ r.hooked /\ r.flushed
  BY <1>2, <1>6
<1> HIDE DEF r, w, s, noted
<1> QED BY <1>6, <1>7, <1>8, Zenon DEF TraceHolds, r

LEMMA TraceNext ==
  ASSUME NEW c \in TraceCases, NEW i \in Nat, i < Len(c.events), Tracing(c, Trace(c)), TraceHolds(c, Trace(c), i)
  PROVE  TraceHolds(c, Trace(c), i + 1)
<1> DEFINE state == Trace(c)
           env == c.env
           s == state[i]
           r == state[i + 1]
           e == c.events[i + 1]
<1>1. /\ env.cap \in Nat \ {0} /\ env.cell \in STRING /\ env.disabled \in BOOLEAN
      /\ Len(c.events) \in Nat /\ i + 1 \in 1..Len(c.events) /\ i + 1 \in DOMAIN c.events
  BY TraceAssumption, LenProperties
<1>2. e.do \in {"file", "fetch", "record"} => AccessBy(e) \in Access
  BY <1>1, TraceAssumption
<1>3. (i + 1) - 1 = i
  OBVIOUS
<1>4. r = Step(env, s, e)
  BY <1>1, <1>3 DEF Tracing
<1>5. IsTrace(s) /\ Filed(env.cap, s.accesses)
  BY DEF TraceHolds
<1>6. NotedAt(c, state, i + 1) <=> Noted(s, e)
  BY <1>3 DEF NotedAt
<1>0. TraceHolds(c, state, i)
  OBVIOUS
<1> HIDE DEF state
<1>7. CASE e.do = "install"
  <2>1. r = s \/ r = [s EXCEPT !.installed = TRUE, !.hooked = TRUE]
    BY <1>4, <1>7 DEF Step
  <2>2. ~NotedAt(c, state, i + 1)
    BY <1>6, <1>7 DEF Noted
  <2> HIDE DEF r, s, e
  <2>3. /\ r.flushed = s.flushed /\ r.written = s.written /\ r.full = s.full /\ r.accesses = s.accesses
        /\ s.installed => r.installed
        /\ s.hooked => r.hooked
        /\ IsTrace(r)
    BY <1>5, <2>1 DEF IsTrace
  <2>4. IsTrace(r) /\ Filed(env.cap, r.accesses) /\ Later(s, r)
    BY <1>5, <2>3 DEF Later
  <2>5. c.events[i + 1].do \notin {"beforeExit", "exit"} /\ r.accesses = s.accesses /\ (s.hooked => r.hooked)
    BY <1>7, <2>3 DEF e
  <2>6. Onward(c, state, i)
    BY <2>2, <2>4, <2>5, Zenon DEF Onward, r, s
  <2> QED BY <1>0, <2>6, TraceGoesOn DEF state
<1>8. CASE e.do \in {"beforeExit", "exit"}
  <2>1. ~NotedAt(c, state, i + 1)
    BY <1>6, <1>8 DEF Noted
  <2>2. \A j \in 1..i : NotedAt(c, state, j) => s.hooked /\ (s.flushed \/ s.installed \/ DOMAIN s.accesses # {})
    BY <1>0, Zenon DEF TraceHolds
  <2>3. CASE s.hooked /\ ~s.flushed /\ (s.installed \/ DOMAIN s.accesses # {})
    <3>1. r = [s EXCEPT !.flushed = TRUE,
                !.written = [cell |-> env.cell, commit |-> env.commit, status |-> TranscriptStatus(env, s),
                             accesses |-> Range(s.accesses)]]
      BY <1>4, <1>8, <2>3 DEF Step, Flush
    <3> QED BY <1>0, <2>1, <2>3, <3>1, TraceFlushes DEF state
  <2>4. CASE ~(s.hooked /\ ~s.flushed /\ (s.installed \/ DOMAIN s.accesses # {}))
    <3>1. r = s
      BY <1>4, <1>8, <2>4 DEF Step, Flush
    <3>2. s.flushed \/ \A j \in 1..i : ~NotedAt(c, state, j)
      BY <2>2, <2>4, Zenon
    <3> QED BY <1>0, <2>1, <3>1, <3>2, TraceIdles DEF state
  <2> QED BY <2>3, <2>4
<1>9. CASE e.do \notin {"install", "beforeExit", "exit"}
  <2>1. CASE Noted(s, e)
    <3>1. AccessBy(e) \in Access
      <4>1. e.do \in {"file", "fetch", "record"}
        BY <2>1 DEF Noted
      <4> QED BY <1>2, <4>1
    <3>2. r = Record(env, s, AccessBy(e))
      BY <1>4, <1>9, <2>1 DEF Step
    <3>3. /\ IsTrace(r) /\ Filed(env.cap, r.accesses) /\ Later(s, r) /\ r.hooked = TRUE
          /\ r.full = TRUE \/ Resolved(env, AccessBy(e)) \in Range(r.accesses)
          /\ DOMAIN r.accesses # {}
      <4> DEFINE a == AccessBy(e)
      <4>1. a \in Access /\ r = Record(env, s, a)
        BY <3>1, <3>2
      <4> HIDE DEF a, env, s, r
      <4>2. LET q == Record(env, s, a)
            IN /\ IsTrace(q) /\ Filed(env.cap, q.accesses) /\ Later(s, q) /\ q.hooked = TRUE
               /\ q.full = TRUE \/ Resolved(env, a) \in Range(q.accesses)
               /\ DOMAIN q.accesses # {}
        BY <1>1, <1>5, <4>1, RecordedIsFiled
      <4> QED BY <4>1, <4>2 DEF a
    <3>4. r.full \/ AccessAt(c, i + 1) \in Range(r.accesses)
      BY <3>3 DEF AccessAt
    <3>5. r.hooked
      BY <3>3
    <3>6. Onward(c, state, i)
      BY <1>9, <3>3, <3>4, <3>5, Zenon DEF Onward
    <3> QED BY <1>0, <3>6, TraceGoesOn DEF state
  <2>2. CASE ~Noted(s, e)
    <3>1. r = s
      BY <1>4, <1>9, <2>2 DEF Step
    <3>2. Later(s, r) /\ IsTrace(r) /\ Filed(env.cap, r.accesses)
      BY <1>5, <3>1 DEF Later
    <3> HIDE DEF r, s
    <3>3. /\ DOMAIN s.accesses # {} => DOMAIN r.accesses # {}
          /\ s.hooked => r.hooked
      BY <3>1
    <3>4. Onward(c, state, i)
      BY <1>6, <1>9, <2>2, <3>2, <3>3, Zenon DEF Onward, r, s
    <3> QED BY <1>0, <3>4, TraceGoesOn DEF state
  <2> QED BY <2>1, <2>2
<1> QED BY <1>7, <1>8, <1>9

(* The elements of a finite set, in some order.                             *)
LEMMA SequenceOfSet ==
  ASSUME NEW S, IsFiniteSet(S)
  PROVE  SetToSeq(S) \in [1..Cardinality(S) -> S]
<1>1. PICK f : f \in Bijection(1..Cardinality(S), S)
  BY FS_CardinalityType DEF ExistsBijection
<1>2. f \in [1..Cardinality(S) -> S] /\ IsInjective(f)
  BY <1>1 DEF Bijection, Injection, IsInjective
<1> QED BY <1>2 DEF SetToSeq

LEMMA ImageIsFinite ==
  ASSUME NEW S, IsFiniteSet(S), NEW f, DOMAIN f = S
  PROVE  IsFiniteSet({f[x] : x \in S})
<1> DEFINE g == [x \in S |-> f[x]]
           T == {f[x] : x \in S}
<1>1. g \in Surjection(S, T)
  <2>1. g \in [S -> T]
    OBVIOUS
  <2>2. \A t \in T : \E x \in S : g[x] = t
    OBVIOUS
  <2> QED BY <2>1, <2>2 DEF Surjection
<1> HIDE DEF g, T
<1>2. IsFiniteSet(T)
  BY <1>1, FS_Surjection
<1> QED BY <1>2 DEF T

(* What is written of one access.                                           *)
PresentAccess(a) ==
  Present([kind |-> Text(a.kind), access |-> Text(a.access), selector |-> Text(a.selector),
           cellId |-> IfAny(a.cell), detectedBy |-> Text("a"), confidence |-> Text("runtime")])

LEMMA TextFacts ==
  /\ \A t : Text(t).text = t /\ IsText(Text(t)) /\ Text(t) # Missing
  /\ \A l : List(l).list = l /\ IsList(List(l)) /\ List(l) # Missing
  /\ \A f : Object(f).object = f /\ IsObject(Object(f))
<1>1. ASSUME NEW t PROVE Text(t) # Missing
  <2>1. DOMAIN Text(t) = {"text"} /\ DOMAIN Missing = {"null"}
    BY DEF Text, Missing
  <2> QED BY <2>1
<1>2. ASSUME NEW l PROVE List(l) # Missing
  <2>1. DOMAIN List(l) = {"list"} /\ DOMAIN Missing = {"null"}
    BY DEF List, Missing
  <2> QED BY <2>1
<1> QED BY <1>1, <1>2 DEF Text, List, Object, IsText, IsList, IsObject

LEMMA AccessIsValid ==
  ASSUME NEW a, a.kind \in ResourceContractKind, a.access \in ResourceAccessMode,
         a.cell # NoText, "cell id" \in Traits[a.cell], "blank" \notin Traits[a.selector]
  PROVE  ValidAccess(PresentAccess(a)) /\ Given(PresentAccess(a), "cellId")
<1> DEFINE f == [kind |-> Text(a.kind), access |-> Text(a.access), selector |-> Text(a.selector),
                 cellId |-> IfAny(a.cell), detectedBy |-> Text("a"), confidence |-> Text("runtime")]
           v == PresentAccess(a)
           keys == {"kind", "access", "selector", "cellId", "detectedBy", "confidence"}
<1>1. DOMAIN f = keys /\ f["kind"] = Text(a.kind) /\ f["access"] = Text(a.access) /\ f["selector"] = Text(a.selector)
      /\ f["cellId"] = Text(a.cell) /\ f["detectedBy"] = Text("a") /\ f["confidence"] = Text("runtime")
  BY DEF IfAny
<1>2. v = Object([k \in {x \in DOMAIN f : f[x] # Missing} |-> f[k]])
  BY DEF PresentAccess, Present
<1> HIDE DEF f, v
<1>3. {x \in DOMAIN f : f[x] # Missing} = keys
  <2>1. /\ Text(a.kind) # Missing /\ Text(a.access) # Missing /\ Text(a.selector) # Missing
        /\ Text(a.cell) # Missing /\ Text("a") # Missing /\ Text("runtime") # Missing
    BY TextFacts
  <2>2. ASSUME NEW x \in keys PROVE f[x] # Missing
    BY <1>1, <2>1
  <2> QED BY <1>1, <2>2
<1>4. IsObject(v) /\ DOMAIN v.object = keys /\ \A k \in keys : At(v, k) = f[k]
  <2> DEFINE d == [k \in keys |-> f[k]]
  <2>1. v = Object(d) /\ DOMAIN d = keys /\ \A k \in keys : d[k] = f[k]
    BY <1>2, <1>3
  <2> HIDE DEF d
  <2>2. v.object = d /\ IsObject(v)
    BY <2>1, TextFacts
  <2> QED BY <2>1, <2>2 DEF At
<1>5. At(v, "kind") = Text(a.kind) /\ At(v, "access") = Text(a.access) /\ At(v, "selector") = Text(a.selector)
      /\ At(v, "cellId") = Text(a.cell) /\ At(v, "detectedBy") = Text("a") /\ At(v, "confidence") = Text("runtime")
  BY <1>1, <1>4
<1>6. OnlyKeys(v, {"kind", "access", "selector", "detectedBy", "confidence"} \cup {"cellId", "observedAt"})
  BY <1>4 DEF OnlyKeys
<1>7. \A k \in keys : Given(v, k)
  BY <1>4 DEF Given
<1>8. ~Given(v, "observedAt")
  BY <1>4 DEF Given
<1>9. SpelledIn(At(v, "kind"), ResourceContractKind) /\ SpelledIn(At(v, "access"), ResourceAccessMode)
      /\ SpelledIn(At(v, "confidence"), ResourceAccessConfidence)
  BY <1>5, TextFacts DEF SpelledIn, ResourceAccessConfidence
<1>10. Filled(At(v, "selector")) /\ IsText(At(v, "detectedBy")) /\ CellId(At(v, "cellId"))
  BY <1>5, TextFacts DEF Filled, Looks, CellId
<1>11. ValidEntry(v, {"cellId", "observedAt"})
  BY <1>6, <1>7, <1>9, <1>10 DEF ValidEntry, Req, Opt
<1> QED BY <1>7, <1>8, <1>10, <1>11 DEF ValidAccess, Opt, v

(* What is written of a trace or of spans is accepted when it is read.      *)
LEMMA WrittenIsValid ==
  ASSUME NEW e, WellNamed(e), IsFiniteSet(e.accesses), e.status \in {"active", "inactive", "incomplete"},
         \A a \in e.accesses : a.kind \in ResourceContractKind /\ a.access \in ResourceAccessMode
  PROVE  ValidEvidence(Written(e))
<1> DEFINE present == {PresentAccess(a) : a \in e.accesses}
           list == SetToSeq(present)
           f == [schemaVersion |-> Text("evidence v2"), generatedAt |-> Text("date"), commitSha |-> Text(e.commit),
                 cellId |-> IfAny(e.cell), transcriptStatus |-> Text(e.status), accesses |-> List(list)]
           v == Written(e)
           all == {"schemaVersion", "commitSha", "generatedAt", "cellId", "accesses", "transcriptStatus"}
           keys == all \ {"cellId"}
<1>1. \A x \in Range(list) : x \in present
  <2>1. IsFiniteSet(present)
    <3> DEFINE g == [a \in e.accesses |-> PresentAccess(a)]
    <3>1. DOMAIN g = e.accesses /\ present = {g[a] : a \in e.accesses}
      OBVIOUS
    <3> HIDE DEF g, present
    <3> QED BY <3>1, ImageIsFinite
  <2> HIDE DEF present
  <2>2. list \in [1..Cardinality(present) -> present]
    BY <2>1, SequenceOfSet
  <2> HIDE DEF list
  <2> QED BY <2>2 DEF Range
<1>2. \A x \in Range(list) : ValidAccess(x) /\ Given(x, "cellId")
  <2>1. ASSUME NEW a \in e.accesses PROVE ValidAccess(PresentAccess(a)) /\ Given(PresentAccess(a), "cellId")
    BY AccessIsValid DEF WellNamed
  <2> HIDE DEF list
  <2> QED BY <1>1, <2>1
<1>3. v = Object([k \in {x \in DOMAIN f : f[x] # Missing} |-> f[k]])
  BY DEF Written, Present, PresentAccess
<1>4. /\ DOMAIN f = all /\ f["schemaVersion"] = Text("evidence v2") /\ f["generatedAt"] = Text("date")
      /\ f["commitSha"] = Text(e.commit) /\ f["cellId"] = IfAny(e.cell) /\ f["transcriptStatus"] = Text(e.status)
      /\ f["accesses"] = List(list)
  <2> HIDE DEF list
  <2> QED OBVIOUS
<1> DEFINE given == {x \in DOMAIN f : f[x] # Missing}
<1> HIDE DEF f, v, list
<1>5. given \subseteq all /\ keys \subseteq given
  <2>1. Text("evidence v2") # Missing /\ Text("date") # Missing /\ Text(e.commit) # Missing /\ Text(e.status) # Missing
        /\ List(list) # Missing
    BY TextFacts
  <2>2. ASSUME NEW x \in keys PROVE f[x] # Missing
    BY <1>4, <2>1
  <2> QED BY <1>4, <2>2
<1>6. "cellId" \in given => e.cell # NoText /\ f["cellId"] = Text(e.cell)
  BY <1>4 DEF IfAny
<1>7. IsObject(v) /\ DOMAIN v.object = given /\ \A k \in given : At(v, k) = f[k]
  <2> DEFINE d == [k \in given |-> f[k]]
  <2>1. v = Object(d) /\ DOMAIN d = given /\ \A k \in given : d[k] = f[k]
    BY <1>3
  <2> HIDE DEF d, given
  <2>2. v.object = d /\ IsObject(v)
    BY <2>1, TextFacts
  <2> QED BY <2>1, <2>2 DEF At
<1> HIDE DEF given
<1>8. OnlyKeys(v, all) /\ \A k \in keys : Given(v, k) /\ At(v, k) = f[k]
  BY <1>5, <1>7 DEF OnlyKeys, Given
<1>9. /\ At(v, "schemaVersion") = Text("evidence v2") /\ At(v, "generatedAt") = Text("date")
      /\ At(v, "commitSha") = Text(e.commit) /\ At(v, "transcriptStatus") = Text(e.status)
      /\ At(v, "accesses") = List(list)
  BY <1>4, <1>8
<1>10. Opt(v, "cellId", CellId)
  <2>1. Given(v, "cellId") => At(v, "cellId") = Text(e.cell) /\ e.cell # NoText
    BY <1>6, <1>7 DEF Given
  <2> QED BY <2>1, TextFacts DEF Opt, CellId, Looks, WellNamed
<1>11. Filled(At(v, "commitSha")) /\ DateTime(At(v, "generatedAt"))
  BY <1>9, TextFacts, DocumentsAssumption, ZenonT(60) DEF Filled, DateTime, Looks, WellNamed
<1>12. At(v, "transcriptStatus") \in Within({"active", "inactive", "incomplete"})
  BY <1>9 DEF Within, Text
<1>13. Each(At(v, "accesses"), ValidAccess) /\ \A x \in Range(At(v, "accesses").list) : Given(x, "cellId")
  <2>1. At(v, "accesses").list = list /\ IsList(At(v, "accesses"))
    BY <1>9, TextFacts
  <2> QED BY <1>2, <2>1 DEF Each
<1> QED BY <1>8, <1>9, <1>10, <1>11, <1>12, <1>13 DEF ValidEvidence, Req, Opt, v

LEMMA TraceStarts ==
  ASSUME NEW c \in TraceCases, NEW state, state[0] = Fresh
  PROVE  TraceHolds(c, state, 0)
<1>1. IsTrace(Fresh)
  BY DEF IsTrace, Fresh
<1>2. DOMAIN Fresh.accesses = {} /\ Fresh.flushed = FALSE /\ Fresh.written = <<>>
  BY DEF Fresh
<1>3. c.env.cap \in Nat
  BY TraceAssumption
<1>4. Filed(c.env.cap, Fresh.accesses)
  <2> DEFINE f == Fresh.accesses
  <2>1. DOMAIN f = {}
    BY <1>2
  <2> HIDE DEF f
  <2>2. IsFiniteSet(DOMAIN f) /\ Cardinality(DOMAIN f) = 0
    BY <2>1, FS_EmptySet
  <2> QED BY <1>3, <2>1, <2>2 DEF Filed, f
<1>5. {j \in 1..0 : NotedAt(c, state, j)} = {}
  OBVIOUS
<1> QED BY <1>1, <1>2, <1>4, <1>5 DEF TraceHolds

LEMMA TraceAlwaysHolds ==
  ASSUME NEW c \in TraceCases
  PROVE  Len(c.events) \in Nat /\ DOMAIN c.events = 1..Len(c.events) /\ TraceHolds(c, Trace(c), Len(c.events))
<1>1. c.events \in Seq(Range(c.events)) /\ Len(c.events) \in Nat /\ DOMAIN c.events = 1..Len(c.events)
  BY TraceAssumption, LenProperties
<1>2. Tracing(c, Trace(c))
  BY <1>1, TraceSteps
<1> DEFINE S == {i \in 0..Len(c.events) : TraceHolds(c, Trace(c), i)}
<1>3. 0 \in S
  BY <1>1, <1>2, TraceStarts DEF Tracing
<1>4. \A i \in 0..Len(c.events) : i \in S /\ i < Len(c.events) => i + 1 \in S
  BY <1>1, <1>2, TraceNext
<1> HIDE DEF S
<1>5. Len(c.events) \in S
  <2>1. \A i \in 0..Len(c.events) : i \in S
    BY <1>1, <1>3, <1>4, Climb
  <2> QED BY <1>1, <2>1
<1> QED BY <1>1, <1>5 DEF S

-----------------------------------------------------------------------------
(* Spans                                                                   *)

(* The first text that is there.                                            *)
LEMMA FirstOfFacts ==
  ASSUME NEW A, NEW t \in Seq(A)
  PROVE  /\ \A i \in 1..Len(t) : t[i] # NoText /\ (\A j \in 1..(i - 1) : t[j] = NoText) => FirstOf(t) = t[i]
         /\ (\A i \in 1..Len(t) : t[i] = NoText) => FirstOf(t) = NoText
<1> DEFINE I == {i \in 1..Len(t) : t[i] # NoText}
           first == SelectInSeq(t, LAMBDA x : x # NoText)
<1>1. first = IF I # {} THEN Min(I) ELSE 0
  BY DEF SelectInSeq
<1>2. FirstOf(t) = IF first = 0 THEN NoText ELSE t[first]
  BY DEF FirstOf, SelectInSeq
<1>3. Len(t) \in Nat
  BY LenProperties
<1> HIDE DEF first
<1>4. ASSUME NEW i \in 1..Len(t), t[i] # NoText, \A j \in 1..(i - 1) : t[j] = NoText PROVE FirstOf(t) = t[i]
  <2>1. i \in I /\ \A j \in I : i <= j
    BY <1>3, <1>4
  <2>2. Min(I) \in I /\ \A j \in I : Min(I) <= j
    <3> HIDE DEF I
    <3> QED BY <2>1 DEF Min
  <2>3. Min(I) = i /\ i # 0
    BY <1>3, <2>1, <2>2
  <2> HIDE DEF I
  <2> QED BY <1>1, <1>2, <2>1, <2>3
<1>5. (\A i \in 1..Len(t) : t[i] = NoText) => FirstOf(t) = NoText
  BY <1>1, <1>2
<1> QED BY <1>4, <1>5

LEMMA FirstOfTwo ==
  ASSUME NEW a, NEW b
  PROVE  FirstOf(<<a, b>>) = IF a # NoText THEN a ELSE b
<1> DEFINE t == <<a, b>>
<1>1. t \in Seq({a, b}) /\ Len(t) = 2 /\ t[1] = a /\ t[2] = b
  OBVIOUS
<1> HIDE DEF t
<1>2. CASE a # NoText
  <2>1. 1 \in 1..Len(t) /\ \A j \in 1..(1 - 1) : t[j] = NoText
    BY <1>1
  <2> QED BY <1>1, <1>2, <2>1, FirstOfFacts DEF t
<1>3. CASE a = NoText /\ b # NoText
  <2>1. 2 \in 1..Len(t) /\ \A j \in 1..(2 - 1) : t[j] = NoText
    BY <1>1, <1>3
  <2> QED BY <1>1, <1>3, <2>1, FirstOfFacts DEF t
<1>4. CASE a = NoText /\ b = NoText
  <2>1. \A j \in 1..Len(t) : t[j] = NoText
    BY <1>1, <1>4
  <2> QED BY <1>1, <1>4, <2>1, FirstOfFacts DEF t
<1> QED BY <1>2, <1>3, <1>4

(* The first of more texts is the first of those left when one is taken.    *)
LEMMA FirstOfMore ==
  ASSUME NEW A, NEW t \in Seq(A), t # <<>>
  PROVE  FirstOf(t) = IF Head(t) # NoText THEN Head(t) ELSE FirstOf(Tail(t))
<1>1. /\ Len(t) \in Nat \ {0} /\ Head(t) = t[1] /\ Tail(t) \in Seq(A) /\ Len(Tail(t)) = Len(t) - 1
      /\ \A i \in 1..Len(Tail(t)) : Tail(t)[i] = t[i + 1]
  BY LenProperties, HeadTailProperties, EmptySeq
<1> DEFINE u == Tail(t)
<1> HIDE DEF u
<1>2. CASE t[1] # NoText
  <2>1. 1 \in 1..Len(t) /\ \A j \in 1..(1 - 1) : t[j] = NoText
    BY <1>1
  <2> QED BY <1>1, <1>2, <2>1, FirstOfFacts
<1>3. CASE t[1] = NoText
  <2>1. CASE \A i \in 1..Len(t) : t[i] = NoText
    <3>1. \A i \in 1..Len(u) : u[i] = NoText
      BY <1>1, <2>1 DEF u
    <3> QED BY <1>1, <1>3, <2>1, <3>1, FirstOfFacts DEF u
  <2>2. CASE ~\A i \in 1..Len(t) : t[i] = NoText
    <3> DEFINE I == {i \in 1..Len(t) : t[i] # NoText}
    <3>1. I # {} /\ I \in SUBSET Nat
      BY <2>2
    <3>2. PICK i \in I : \A j \in I : i <= j
      <4> HIDE DEF I
      <4> QED BY <3>1, LeastNumber
    <3>3. i \in 2..Len(t) /\ t[i] # NoText /\ \A j \in 1..(i - 1) : t[j] = NoText
      BY <1>1, <1>3, <3>2
    <3>4. FirstOf(t) = t[i]
      BY <3>3, FirstOfFacts
    <3>5. i - 1 \in 1..Len(u) /\ u[i - 1] = t[i] /\ \A j \in 1..((i - 1) - 1) : u[j] = NoText
      BY <1>1, <3>3 DEF u
    <3>6. FirstOf(u) = t[i]
      BY <1>1, <3>3, <3>5, FirstOfFacts DEF u
    <3> QED BY <1>1, <1>3, <3>4, <3>6 DEF u
  <2> QED BY <2>1, <2>2
<1> QED BY <1>2, <1>3

LEMMA FirstOfFour ==
  ASSUME NEW a, NEW b, NEW c, NEW d
  PROVE  FirstOf(<<a, b, c, d>>) = IF a # NoText THEN a ELSE IF b # NoText THEN b ELSE IF c # NoText THEN c ELSE d
<1>1. <<a, b, c, d>> \in Seq({a, b, c, d}) /\ <<a, b, c, d>> # <<>> /\ Head(<<a, b, c, d>>) = a /\ Tail(<<a, b, c, d>>) = <<b, c, d>>
  OBVIOUS
<1>2. <<b, c, d>> \in Seq({b, c, d}) /\ <<b, c, d>> # <<>> /\ Head(<<b, c, d>>) = b /\ Tail(<<b, c, d>>) = <<c, d>>
  OBVIOUS
<1>3. FirstOf(<<a, b, c, d>>) = IF a # NoText THEN a ELSE FirstOf(<<b, c, d>>)
  BY <1>1, FirstOfMore
<1>4. FirstOf(<<b, c, d>>) = IF b # NoText THEN b ELSE FirstOf(<<c, d>>)
  BY <1>2, FirstOfMore
<1> QED BY <1>3, <1>4, FirstOfTwo

LEMMA FirstOfFive ==
  ASSUME NEW a, NEW b, NEW c, NEW d, NEW e
  PROVE  FirstOf(<<a, b, c, d, e>>) = IF FirstOf(<<a, b, c, d>>) # NoText THEN FirstOf(<<a, b, c, d>>) ELSE e
<1>1. <<a, b, c, d, e>> \in Seq({a, b, c, d, e}) /\ <<a, b, c, d, e>> # <<>> /\ Head(<<a, b, c, d, e>>) = a
      /\ Tail(<<a, b, c, d, e>>) = <<b, c, d, e>>
  OBVIOUS
<1>2. FirstOf(<<a, b, c, d, e>>) = IF a # NoText THEN a ELSE FirstOf(<<b, c, d, e>>)
  BY <1>1, FirstOfMore
<1> QED BY <1>2, FirstOfFour

(* A span is of a known kind or of none, and its access is one that can be. *)
LEMMA SpanFacts ==
  ASSUME NEW s
  PROVE  /\ KindOfSpan(s) \in ResourceContractKind \cup {NoText}
         /\ s.table # NoText \/ s.destination # NoText \/ s.route # NoText => KindOfSpan(s) # NoText
         /\ s.table # NoText /\ s.system \notin {"queue", "messaging", "http", "rpc", "file"} => KindOfSpan(s) = "database"
         /\ LET first == FirstOf(<<s.selector, s.table, s.destination, s.route>>)
            IN SelectorOfSpan(s) = IF first # NoText THEN first ELSE s.name
<1> DEFINE kind == NormalizeKind(s.system)
           byTable == IF s.table # NoText THEN "database" ELSE NoText
           byDestination == IF s.destination # NoText THEN "queue" ELSE NoText
           byRoute == IF s.route # NoText THEN "http" ELSE NoText
<1>1. KindOfSpan(s) = IF kind # NoText THEN kind ELSE IF byTable # NoText THEN byTable
                      ELSE IF byDestination # NoText THEN byDestination ELSE byRoute
  BY FirstOfFour DEF KindOfSpan
<1>2. NoText \notin ResourceContractKind /\ {"database", "queue", "http"} \subseteq ResourceContractKind
  BY DEF NoText, ResourceContractKind
<1>3. kind \in ResourceContractKind \cup {NoText}
  BY <1>2 DEF NormalizeKind
<1>4. s.system \notin {"queue", "messaging", "http", "rpc", "file"} => kind \in {"database", NoText}
  BY DEF NormalizeKind, ResourceContractKind
<1>5. /\ s.table # NoText => byTable = "database"
      /\ s.table = NoText => byTable = NoText
      /\ s.destination # NoText => byDestination = "queue"
      /\ s.destination = NoText => byDestination = NoText
      /\ s.route # NoText => byRoute = "http"
      /\ s.route = NoText => byRoute = NoText
  OBVIOUS
<1>6. SelectorOfSpan(s) = IF FirstOf(<<s.selector, s.table, s.destination, s.route>>) # NoText
                            THEN FirstOf(<<s.selector, s.table, s.destination, s.route>>) ELSE s.name
  BY FirstOfFive DEF SelectorOfSpan
<1> HIDE DEF kind, byTable, byDestination, byRoute
<1> QED BY <1>1, <1>2, <1>3, <1>4, <1>5, <1>6

LEMMA ModeOfOperation ==
  ASSUME NEW kind \in ResourceContractKind, NEW operation
  PROVE  /\ NormalizeOperation(kind, operation) \in ResourceAccessMode
         /\ kind = "database" /\ operation \in ChangingWords => NormalizeOperation(kind, operation) = "write"
  BY DEF NormalizeOperation, ResourceContractKind, ResourceAccessMode, ChangingWords

-----------------------------------------------------------------------------
(* What a check observes and which severity it gives                       *)

(* The first of some positions exists: the natural numbers are well-ordered.*)
LEMMA FirstIsFirst ==
  ASSUME NEW S \in SUBSET Nat, S # {}
  PROVE  First(S) \in S /\ \A j \in S : First(S) <= j
<1>1. PICK i \in S : \A j \in S : ~(<<j, i>> \in OpToRel(<, Nat))
  BY NatLessThanWellFounded, WFMin
<1>2. \A j \in S : i <= j
  <2>1. ASSUME NEW j \in S, ~(i <= j) PROVE FALSE
    <3>1. j < i /\ <<j, i>> \in Nat \X Nat
      BY <2>1
    <3>2. <<j, i>> \in OpToRel(<, Nat)
      BY <3>1 DEF OpToRel
    <3> QED BY <1>1, <3>2
  <2> QED BY <2>1
<1> QED BY <1>2 DEF First

(* And so does the last of the first n. *)
LEMMA LastExists ==
  ASSUME NEW n \in Nat, NEW S \in SUBSET (1..n), S # {}
  PROVE  \E i \in S : \A j \in S : j <= i
<1> DEFINE T == {n - i : i \in S}
<1>1. T \in SUBSET Nat /\ T # {}
  <2>1. \A i \in S : n - i \in Nat
    OBVIOUS
  <2>2. PICK i \in S : TRUE
    OBVIOUS
  <2>3. n - i \in T
    BY <2>2
  <2> QED BY <2>1, <2>3
<1>2. PICK i \in S : First(T) = n - i
  BY <1>1, FirstIsFirst
<1>3. \A j \in S : n - i <= n - j
  BY <1>1, <1>2, FirstIsFirst
<1> QED BY <1>3

(* What the manifest sets for a finding is a severity or nothing: of the    *)
(* overrides that apply the last counts.                                    *)
LEMMA ConfiguredIsSeverity ==
  ASSUME NEW c, Configured(c), NEW f \in Range(c.found)
  PROVE  ConfiguredSeverity(c, f) \in Severities \cup {Absent}
<1> DEFINE given == {i \in DOMAIN c.overrides : f.file \in c.overrides[i].files /\ f.rule \in DOMAIN c.overrides[i].rules}
           last == CHOOSE i \in given : \A j \in given : j <= i
<1>1. c.overrides \in Seq(Range(c.overrides))
  BY DEF Configured
<1>2. given # {} => last \in given
  <2>1. DOMAIN c.overrides = 1..Len(c.overrides) /\ Len(c.overrides) \in Nat
    BY <1>1
  <2> QED BY <2>1, LastExists
<1>3. given # {} => c.overrides[last].rules[f.rule] \in Severities
  <2>1. ASSUME given # {} PROVE c.overrides[last] \in Range(c.overrides) /\ f.rule \in DOMAIN c.overrides[last].rules
    BY <1>2, <2>1 DEF Range
  <2> QED BY <2>1 DEF Configured, Settings
<1>4. /\ f.rule \in DOMAIN c.cli => c.cli[f.rule] \in Severities
      /\ f.rule \in DOMAIN c.repo => c.repo[f.rule] \in Severities
      /\ f.rule \in DOMAIN c.cells[f.cell] => c.cells[f.cell][f.rule] \in Severities
  BY DEF Configured, Settings
<1> QED BY <1>3, <1>4 DEF ConfiguredSeverity

(* Evidence without defects: every file and family that is required was     *)
(* observed, and no observation failed.                                     *)
LEMMA NoDefects ==
  ASSUME NEW w, NEW observations, EvidenceDefects(w, observations) = {}
  PROVE  /\ \A o \in observations : o.status \notin {"parse-error", "unsupported"}
         /\ \A r \in RequiredObservations(w) :
              \E o \in observations : o.status # "not-applicable" /\ o.file = r[1] /\ o.family = r[2]
<1> DEFINE done == {o \in observations : o.status # "not-applicable"}
           open == {<<o.status, o.file>> : o \in {x \in observations : x.status \in {"parse-error", "unsupported"}}}
           missing == {<<"missing observation", r[1]>> : r \in {x \in RequiredObservations(w) : ~\E o \in done : o.file = x[1] /\ o.family = x[2]}}
<1>1. open = {} /\ missing = {}
  BY Zenon DEF EvidenceDefects
<1>2. \A o \in observations : o.status \notin {"parse-error", "unsupported"}
  BY <1>1
<1>3. \A r \in RequiredObservations(w) : \E o \in done : o.file = r[1] /\ o.family = r[2]
  BY <1>1
<1> QED BY <1>2, <1>3

(* A source file is observed once for each of three families. *)
LEMMA SourceObservations ==
  ASSUME NEW w, NEW raw, NEW p \in SubjectFiles(w), RoleOf(w, p) = "source"
  PROVE  /\ \A f \in {"imports", "public-surface", "resources"} : Observed(p, f, SourceStatus(w, p, f, raw)) \in Observations(w, raw)
         /\ \A o \in Observations(w, raw) :
              o.file = p => o \in {Observed(p, f, SourceStatus(w, p, f, raw)) : f \in {"imports", "public-surface", "resources"}}
<1> DEFINE at(q) ==
      LET role == RoleOf(w, q) IN
         CASE role = "manifest" -> {Observed(q, "manifest", "processed"), Observed(q, "ownership", "processed")}
           [] role = "baseline" -> {Observed(q, "baseline", "processed")}
           [] role = "runtime-evidence" -> {Observed(q, "resources", DiagnosedStatus(q, "resources", raw))}
           [] role = "config" -> {Observed(q, "imports", "not-applicable")}
           [] role = "source" -> {Observed(q, f, SourceStatus(w, q, f, raw)) : f \in {"imports", "public-surface", "resources"}}
<1>1. Observations(w, raw) = UNION {at(q) : q \in SubjectFiles(w)}
  BY DEF Observations
<1>2. at(p) = {Observed(p, f, SourceStatus(w, p, f, raw)) : f \in {"imports", "public-surface", "resources"}}
  OBVIOUS
<1>3. \A q : RoleOf(w, q) \in {"manifest", "baseline", "config", "runtime-evidence", "source"}
  BY DEF RoleOf
<1>4. \A q, o : o \in at(q) => o.file = q
  BY <1>3 DEF Observed
<1> HIDE DEF at
<1> QED BY <1>1, <1>2, <1>4

-----------------------------------------------------------------------------
(* Where a path leads                                                      *)

Resolving(s, done) ==
  /\ ResolvePath(s) = done[Len(s)] /\ done[0] = <<>>
  /\ \A k \in 1..Len(s) : done[k] = ResolveStep(done[k - 1], s[k])

LEMMA ResolveSteps ==
  ASSUME NEW A, NEW s \in Seq(A)
  PROVE  \E done \in [0..Len(s) -> Seq(A)] : Resolving(s, done)
<1> DEFINE V == Seq(A)
           step == [x \in (1..Len(s)) \X V |-> ResolveStep(x[2], s[x[1]])]
           Solves(g) == g = [k \in 0..Len(s) |-> IF k = 0 THEN <<>> ELSE ResolveStep(g[k - 1], s[k])]
           done == CHOOSE g : Solves(g)
<1>1. Len(s) \in Nat /\ <<>> \in V
  BY EmptySeq
<1>2. ASSUME NEW k \in 1..Len(s), NEW v \in V PROVE ResolveStep(v, s[k]) \in V
  <2>1. (v # <<>> => Front(v) \in V) /\ Append(v, s[k]) \in V
    BY EndFacts, ElementOfSeq
  <2> HIDE DEF V
  <2> QED BY <2>1 DEF ResolveStep
<1>3. \A k \in 1..Len(s) : \A v \in V : step[<<k, v>>] \in V
  <2> HIDE DEF V
  <2> QED BY <1>2
<1>4. PICK g : GoesOn(g, Len(s), V, <<>>, step)
  <2> HIDE DEF V, step
  <2> QED BY <1>1, <1>3, Recursion
<1>5. Solves(g)
  <2>1. ASSUME NEW k \in 1..Len(s) PROVE g[k] = ResolveStep(g[k - 1], s[k])
    <3>1. g[k - 1] \in V
      BY <1>1, <1>4 DEF GoesOn
    <3> HIDE DEF V
    <3> QED BY <1>4, <3>1 DEF GoesOn
  <2> HIDE DEF V
  <2> QED BY <1>1, <1>4, <2>1 DEF GoesOn
<1>6. Solves(done)
  <2> HIDE DEF Solves
  <2> QED BY <1>5
<1>7. ResolvePath(s) = done[Len(s)]
  BY DEF ResolvePath
<1> HIDE DEF done
<1>8. done[0] = <<>> /\ \A k \in 1..Len(s) : done[k] = ResolveStep(done[k - 1], s[k])
  BY <1>1, <1>6
<1>9. \A k \in 0..Len(s) : done[k] \in V
  <2> DEFINE S == {k \in 0..Len(s) : done[k] \in V}
  <2>1. 0 \in S
    <3>1. 0 \in 0..Len(s) /\ done[0] \in V
      BY <1>1, <1>8
    <3> HIDE DEF V
    <3> QED BY <3>1
  <2>2. ASSUME NEW k \in 0..Len(s), k \in S, k < Len(s) PROVE k + 1 \in S
    <3>1. k + 1 \in 1..Len(s) /\ (k + 1) - 1 = k /\ k + 1 \in 0..Len(s)
      BY <1>1, <2>2
    <3>2. done[k + 1] = ResolveStep(done[k], s[k + 1])
      BY <1>8, <3>1
    <3> HIDE DEF V
    <3> QED BY <1>2, <2>2, <3>1, <3>2
  <2> HIDE DEF S
  <2>3. \A k \in 0..Len(s) : k \in S
    BY <1>1, <2>1, <2>2, Climb
  <2> QED BY <2>3 DEF S
<1>10. done \in [0..Len(s) -> V]
  BY <1>6, <1>9
<1> QED BY <1>7, <1>8, <1>10 DEF Resolving

Beginning == [at |-> <<>>, missing |-> FALSE]
Walking(tree, s, done) ==
  /\ CanonicalWalk(tree, s) = done[Len(s)] /\ done[0] = Beginning
  /\ \A k \in 1..Len(s) : done[k] = WalkStep(tree, done[k - 1], s[k])

LEMMA WalkSteps ==
  ASSUME NEW A, NEW tree, tree \in [DOMAIN tree -> Seq(A)], NEW s \in Seq(A)
  PROVE  \E done \in [0..Len(s) -> [at : Seq(A), missing : BOOLEAN]] : Walking(tree, s, done)
<1> DEFINE V == [at : Seq(A), missing : BOOLEAN]
           step == [x \in (1..Len(s)) \X V |-> WalkStep(tree, x[2], s[x[1]])]
           Solves(g) == g = [k \in 0..Len(s) |-> IF k = 0 THEN Beginning ELSE WalkStep(tree, g[k - 1], s[k])]
           done == CHOOSE g : Solves(g)
<1>1. Len(s) \in Nat /\ Beginning \in V
  BY EmptySeq DEF Beginning
<1>2. ASSUME NEW k \in 1..Len(s), NEW v \in V PROVE WalkStep(tree, v, s[k]) \in V
  <2>1. v.at \in Seq(A) /\ Append(v.at, s[k]) \in Seq(A)
    BY EndFacts, ElementOfSeq
  <2>2. \A p : PathExists(tree, p) => tree[p] \in Seq(A)
    BY DEF PathExists
  <2> QED BY <2>1, <2>2 DEF WalkStep
<1>3. \A k \in 1..Len(s) : \A v \in V : step[<<k, v>>] \in V
  <2> HIDE DEF V
  <2> QED BY <1>2
<1>4. PICK g : GoesOn(g, Len(s), V, Beginning, step)
  <2> HIDE DEF V, step
  <2> QED BY <1>1, <1>3, Recursion
<1>5. Solves(g)
  <2>1. ASSUME NEW k \in 1..Len(s) PROVE g[k] = WalkStep(tree, g[k - 1], s[k])
    <3>1. g[k - 1] \in V
      BY <1>1, <1>4 DEF GoesOn
    <3> HIDE DEF V
    <3> QED BY <1>4, <3>1 DEF GoesOn
  <2> HIDE DEF V
  <2> QED BY <1>1, <1>4, <2>1 DEF GoesOn
<1>6. Solves(done)
  <2> HIDE DEF Solves
  <2> QED BY <1>5
<1>7. CanonicalWalk(tree, s) = done[Len(s)]
  BY DEF CanonicalWalk, Beginning
<1> HIDE DEF done
<1>8. done[0] = Beginning /\ \A k \in 1..Len(s) : done[k] = WalkStep(tree, done[k - 1], s[k])
  BY <1>1, <1>6
<1>9. \A k \in 0..Len(s) : done[k] \in V
  <2> DEFINE S == {k \in 0..Len(s) : done[k] \in V}
  <2>1. 0 \in S
    <3>1. 0 \in 0..Len(s) /\ done[0] \in V
      BY <1>1, <1>8
    <3> HIDE DEF V
    <3> QED BY <3>1
  <2>2. ASSUME NEW k \in 0..Len(s), k \in S, k < Len(s) PROVE k + 1 \in S
    <3>1. k + 1 \in 1..Len(s) /\ (k + 1) - 1 = k /\ k + 1 \in 0..Len(s)
      <4> HIDE DEF V, S
      <4> QED BY <1>1, <2>2
    <3>2. done[k + 1] = WalkStep(tree, done[k], s[k + 1])
      BY <1>8, <3>1
    <3> HIDE DEF V
    <3> QED BY <1>2, <2>2, <3>1, <3>2
  <2> HIDE DEF S
  <2>3. \A k \in 0..Len(s) : k \in S
    BY <1>1, <2>1, <2>2, Climb
  <2> QED BY <2>3 DEF S
<1>10. done \in [0..Len(s) -> V]
  BY <1>6, <1>9
<1> QED BY <1>7, <1>8, <1>10 DEF Walking


Reaching(tree, s, done) ==
  /\ Reached(tree, s) = done[Len(s)] /\ done[0] = <<>>
  /\ \A k \in 1..Len(s) : done[k] = ReachStep(tree, done[k - 1], s[k])

LEMMA ReachSteps ==
  ASSUME NEW A, NEW tree, tree \in [DOMAIN tree -> Seq(A)], NEW s \in Seq(A)
  PROVE  \E done \in [0..Len(s) -> Seq(A)] : Reaching(tree, s, done)
<1> DEFINE V == Seq(A)
           step == [x \in (1..Len(s)) \X V |-> ReachStep(tree, x[2], s[x[1]])]
           Solves(g) == g = [k \in 0..Len(s) |-> IF k = 0 THEN <<>> ELSE ReachStep(tree, g[k - 1], s[k])]
           done == CHOOSE g : Solves(g)
<1>1. Len(s) \in Nat /\ <<>> \in V
  BY EmptySeq
<1>2. ASSUME NEW k \in 1..Len(s), NEW v \in V PROVE ReachStep(tree, v, s[k]) \in V
  <2>1. (v # <<>> => Front(v) \in V) /\ Append(v, s[k]) \in V
    BY EndFacts, ElementOfSeq
  <2>2. \A p \in DOMAIN tree : tree[p] \in V
    OBVIOUS
  <2> HIDE DEF V
  <2> QED BY <2>1, <2>2 DEF ReachStep
<1>3. \A k \in 1..Len(s) : \A v \in V : step[<<k, v>>] \in V
  <2> HIDE DEF V
  <2> QED BY <1>2
<1>4. PICK g : GoesOn(g, Len(s), V, <<>>, step)
  <2> HIDE DEF V, step
  <2> QED BY <1>1, <1>3, Recursion
<1>5. Solves(g)
  <2>1. ASSUME NEW k \in 1..Len(s) PROVE g[k] = ReachStep(tree, g[k - 1], s[k])
    <3>1. g[k - 1] \in V
      BY <1>1, <1>4 DEF GoesOn
    <3> HIDE DEF V
    <3> QED BY <1>4, <3>1 DEF GoesOn
  <2> HIDE DEF V
  <2> QED BY <1>1, <1>4, <2>1 DEF GoesOn
<1>6. Solves(done)
  <2> HIDE DEF Solves
  <2> QED BY <1>5
<1>7. Reached(tree, s) = done[Len(s)]
  BY DEF Reached
<1> HIDE DEF done
<1>8. done[0] = <<>> /\ \A k \in 1..Len(s) : done[k] = ReachStep(tree, done[k - 1], s[k])
  BY <1>1, <1>6
<1>9. \A k \in 0..Len(s) : done[k] \in V
  <2> DEFINE S == {k \in 0..Len(s) : done[k] \in V}
  <2>1. 0 \in S
    <3>1. 0 \in 0..Len(s) /\ done[0] \in V
      BY <1>1, <1>8
    <3> HIDE DEF V
    <3> QED BY <3>1
  <2>2. ASSUME NEW k \in 0..Len(s), k \in S, k < Len(s) PROVE k + 1 \in S
    <3>1. k + 1 \in 1..Len(s) /\ (k + 1) - 1 = k /\ k + 1 \in 0..Len(s)
      BY <1>1, <2>2
    <3>2. done[k + 1] = ReachStep(tree, done[k], s[k + 1])
      BY <1>8, <3>1
    <3> HIDE DEF V
    <3> QED BY <1>2, <2>2, <3>1, <3>2
  <2> HIDE DEF S
  <2>3. \A k \in 0..Len(s) : k \in S
    BY <1>1, <2>1, <2>2, Climb
  <2> QED BY <2>3 DEF S
<1>10. done \in [0..Len(s) -> V]
  BY <1>6, <1>9
<1> QED BY <1>7, <1>8, <1>10 DEF Reaching

LEMMA ReachedType ==
  ASSUME NEW A, NEW tree, tree \in [DOMAIN tree -> Seq(A)], NEW s \in Seq(A)
  PROVE  Reached(tree, s) \in Seq(A)
<1>1. PICK at \in [0..Len(s) -> Seq(A)] : Reaching(tree, s, at)
  BY ReachSteps
<1>2. Len(s) \in 0..Len(s)
  OBVIOUS
<1> QED BY <1>1, <1>2 DEF Reaching

(* The walk along a longer path goes on from where the shorter one ended.  *)
LEMMA WalkGoesOn ==
  ASSUME NEW A, NEW tree, tree \in [DOMAIN tree -> Seq(A)], NEW s \in Seq(A), NEW x \in A
  PROVE  CanonicalWalk(tree, Append(s, x)) = WalkStep(tree, CanonicalWalk(tree, s), x)
<1> DEFINE longer == Append(s, x)
           n == Len(s)
<1>1. /\ longer \in Seq(A) /\ Len(longer) = n + 1 /\ longer[n + 1] = x /\ n \in Nat
      /\ \A i \in 1..n : longer[i] = s[i]
  BY EndFacts
<1>2. PICK v : Walking(tree, s, v)
  BY WalkSteps
<1>3. PICK w : Walking(tree, longer, w)
  BY <1>1, WalkSteps
<1> DEFINE S == {k \in 0..n : v[k] = w[k]}
<1> HIDE DEF longer
<1>4. 0 \in S
  BY <1>1, <1>2, <1>3 DEF Walking
<1>5. ASSUME NEW k \in 0..n, k \in S, k < n PROVE k + 1 \in S
  <2>1. k + 1 \in 1..n /\ k + 1 \in 1..(n + 1) /\ (k + 1) - 1 = k /\ k + 1 \in 0..n
    BY <1>1, <1>5
  <2>2. v[k + 1] = WalkStep(tree, v[k], s[k + 1]) /\ w[k + 1] = WalkStep(tree, w[k], longer[k + 1])
    BY <1>1, <1>2, <1>3, <2>1 DEF Walking
  <2> QED BY <1>1, <1>5, <2>1, <2>2
<1>6. \A k \in 0..n : k \in S
  <2> HIDE DEF S
  <2> QED BY <1>1, <1>4, <1>5, Climb
<1>7. v[n] = w[n]
  BY <1>1, <1>6
<1>8. n + 1 \in 1..(n + 1) /\ (n + 1) - 1 = n
  BY <1>1
<1>9. w[n + 1] = WalkStep(tree, w[n], longer[n + 1])
  BY <1>1, <1>3, <1>8 DEF Walking
<1>10. CanonicalWalk(tree, longer) = w[n + 1] /\ CanonicalWalk(tree, s) = v[n]
  BY <1>1, <1>2, <1>3 DEF Walking
<1>11. CanonicalWalk(tree, longer) = WalkStep(tree, CanonicalWalk(tree, s), x)
  BY <1>1, <1>7, <1>9, <1>10
<1> QED BY <1>11 DEF longer

(* A tree of directories: what is below a path is there only if the path   *)
(* is, and no link dangles.                                                *)
IsWholeTree(tree, A) ==
  /\ tree \in [DOMAIN tree -> Seq(A)]
  /\ \A p \in DOMAIN tree : Len(p) > 1 => Front(p) \in DOMAIN tree
  /\ \A p \in DOMAIN tree : PathExists(tree, p)

(* Where the walk stands is where the operating system does; once something*)
(* is missing nothing below it is there.                                   *)
StandsThere(tree, walk, at) ==
  /\ walk.at = at
  /\ walk.missing => at # <<>> /\ at \notin DOMAIN tree

LEMMA FrontOfAppend ==
  ASSUME NEW A, NEW s \in Seq(A), NEW x \in A
  PROVE  Front(Append(s, x)) = s
<1>1. Append(s, x) \in Seq(A) /\ Len(Append(s, x)) = Len(s) + 1 /\ Len(s) \in Nat
  BY EndFacts
<1>2. Front(Append(s, x)) = SubSeq(Append(s, x), 1, Len(s))
  BY <1>1 DEF Front
<1>3. SubSeq(Append(s, x), 1, Len(s)) \in Seq(A) /\ Len(SubSeq(Append(s, x), 1, Len(s))) = Len(s)
  BY <1>1, SubSeqProperties
<1>4. \A i \in 1..Len(s) : SubSeq(Append(s, x), 1, Len(s))[i] = s[i]
  BY <1>1, SubSeqProperties, EndFacts
<1> QED BY <1>2, <1>3, <1>4, SeqEqual

LEMMA SameStep ==
  ASSUME NEW A, NEW tree, IsWholeTree(tree, A), NEW part \in A, part # Dot, part # DotDot,
         NEW at \in Seq(A), NEW walk \in [at : Seq(A), missing : BOOLEAN], StandsThere(tree, walk, at)
  PROVE  StandsThere(tree, WalkStep(tree, walk, part), ReachStep(tree, at, part))
<1> DEFINE next == Append(at, part)
<1>1. Front(next) = at
  BY FrontOfAppend
<1>2. next \in Seq(A) /\ Len(next) = Len(at) + 1 /\ Len(at) \in Nat
  BY EndFacts
<1>3. next # <<>>
  BY <1>2
<1>4. at # <<>> => Len(next) > 1
  BY <1>2
<1>5. at # <<>> /\ at \notin DOMAIN tree => next \notin DOMAIN tree
  <2> HIDE DEF next
  <2> QED BY <1>1, <1>4 DEF IsWholeTree
<1>6. \A p : PathExists(tree, p) <=> p \in DOMAIN tree
  BY DEF IsWholeTree, PathExists
<1>7. WalkStep(tree, walk, part) = IF ~walk.missing /\ next \in DOMAIN tree THEN [at |-> tree[next], missing |-> FALSE]
                                   ELSE [at |-> next, missing |-> TRUE]
  BY <1>6 DEF WalkStep, StandsThere
<1>8. ReachStep(tree, at, part) = IF next \in DOMAIN tree THEN tree[next] ELSE next
  BY DEF ReachStep
<1> HIDE DEF next
<1> QED BY <1>3, <1>5, <1>7, <1>8 DEF StandsThere

LEMMA CanonicalIsReached ==
  ASSUME NEW A, NEW tree, IsWholeTree(tree, A), NEW s \in Seq(A), \A i \in 1..Len(s) : s[i] # DotDot
  PROVE  CanonicalPath(tree, ResolvePath(s)) = Reached(tree, s)
<1> DEFINE n == Len(s)
<1>1. tree \in [DOMAIN tree -> Seq(A)] /\ n \in Nat
  BY DEF IsWholeTree
<1>2. PICK done \in [0..n -> Seq(A)] : Resolving(s, done)
  BY ResolveSteps
<1>3. PICK at \in [0..n -> Seq(A)] : Reaching(tree, s, at)
  BY <1>1, ReachSteps
<1> DEFINE S == {k \in 0..n : StandsThere(tree, CanonicalWalk(tree, done[k]), at[k])}
<1>4. \A p \in Seq(A) : CanonicalWalk(tree, p) \in [at : Seq(A), missing : BOOLEAN]
  <2>1. ASSUME NEW p \in Seq(A) PROVE CanonicalWalk(tree, p) \in [at : Seq(A), missing : BOOLEAN]
    <3>1. PICK w \in [0..Len(p) -> [at : Seq(A), missing : BOOLEAN]] : Walking(tree, p, w)
      BY <1>1, WalkSteps
    <3>2. Len(p) \in 0..Len(p)
      OBVIOUS
    <3> QED BY <3>1, <3>2 DEF Walking
  <2> QED BY <2>1
<1>5. 0 \in S
  <2>1. CanonicalWalk(tree, <<>>) = Beginning
    <3>1. <<>> \in Seq(A) /\ Len(<<>>) = 0
      BY EmptySeq
    <3>2. PICK w : Walking(tree, <<>>, w)
      BY <1>1, <3>1, WalkSteps
    <3> QED BY <3>1, <3>2 DEF Walking
  <2>2. done[0] = <<>> /\ at[0] = <<>>
    BY <1>2, <1>3 DEF Resolving, Reaching
  <2> QED BY <1>1, <2>1, <2>2 DEF StandsThere, Beginning
<1>6. ASSUME NEW k \in 0..n, k \in S, k < n PROVE k + 1 \in S
  <2>1. k + 1 \in 1..n /\ (k + 1) - 1 = k /\ k + 1 \in 0..n
    BY <1>1, <1>6
  <2>2. /\ done[k + 1] = ResolveStep(done[k], s[k + 1])
        /\ at[k + 1] = ReachStep(tree, at[k], s[k + 1])
        /\ done[k] \in Seq(A) /\ at[k] \in Seq(A) /\ s[k + 1] \in A /\ s[k + 1] # DotDot
    BY <1>2, <1>3, <2>1, ElementOfSeq DEF Resolving, Reaching
  <2>3. StandsThere(tree, CanonicalWalk(tree, done[k]), at[k])
    BY <1>6
  <2>4. ASSUME s[k + 1] = Dot PROVE StandsThere(tree, CanonicalWalk(tree, done[k + 1]), at[k + 1])
    BY <2>2, <2>3, <2>4 DEF ResolveStep, ReachStep
  <2>5. ASSUME s[k + 1] # Dot PROVE StandsThere(tree, CanonicalWalk(tree, done[k + 1]), at[k + 1])
    <3>1. done[k + 1] = Append(done[k], s[k + 1])
      BY <2>2, <2>5 DEF ResolveStep
    <3>2. \A p \in Seq(A), x \in A : CanonicalWalk(tree, Append(p, x)) = WalkStep(tree, CanonicalWalk(tree, p), x)
      BY <1>1, WalkGoesOn
    <3>3. CanonicalWalk(tree, done[k + 1]) = WalkStep(tree, CanonicalWalk(tree, done[k]), s[k + 1])
      BY <2>2, <3>1, <3>2
    <3> QED BY <1>4, <2>2, <2>3, <2>5, <3>3, SameStep
  <2> QED BY <2>1, <2>4, <2>5
<1>7. \A k \in 0..n : k \in S
  <2> HIDE DEF S
  <2> QED BY <1>1, <1>5, <1>6, Climb
<1>8. CanonicalWalk(tree, done[n]).at = at[n]
  BY <1>1, <1>7 DEF StandsThere
<1> QED BY <1>2, <1>3, <1>8 DEF CanonicalPath, Resolving, Reaching

(* A path without "." and ".." is resolved as it stands.                   *)
LEMMA PlainPathStays ==
  ASSUME NEW A, NEW s \in Seq(A), \A i \in 1..Len(s) : s[i] \notin {Dot, DotDot}
  PROVE  ResolvePath(s) = s
<1>1. PICK done : Resolving(s, done)
  BY ResolveSteps
<1>2. \A k \in 1..Len(s) : done[k] = Append(done[k - 1], s[k])
  BY <1>1 DEF Resolving, ResolveStep
<1>3. done[Len(s)] = s
  <2>1. done[0] = <<>>
    BY <1>1 DEF Resolving
  <2> QED BY <1>2, <2>1, Beginnings
<1> QED BY <1>1, <1>3 DEF Resolving

LEMMA RestOfPath ==
  ASSUME NEW A, NEW s \in Seq(A), NEW r \in Seq(A), Len(s) > Len(r), SubSeq(s, 1, Len(r)) = r
  PROVE  s = r \o SubSeq(s, Len(r) + 1, Len(s))
<1>1. Len(s) \in Nat /\ Len(r) \in Nat
  OBVIOUS
<1>2. 1 \in 1..(Len(s) + 1) /\ Len(r) \in (1 - 1)..Len(s) /\ Len(s) \in Len(r)..Len(s)
  BY <1>1
<1>3. SubSeq(s, 1, Len(r)) \o SubSeq(s, Len(r) + 1, Len(s)) = SubSeq(s, 1, Len(s))
  BY <1>2, ConcatAdjacentSubSeq
<1> QED BY <1>3, SubSeqFull

-----------------------------------------------------------------------------
(* Labels and the claim made of them                                       *)

(* What a row that holds says of itself: it is of a blind round, and then   *)
(* its rater saw no label, or it settles a difference (validateLabelRows).  *)
LEMMA RowSays ==
  ASSUME NEW l, NEW known, NEW studyId, RowHolds(l, known, studyId)
  PROVE  /\ l.reasoned
         /\ IsAdjudication(l) => l.round = "adjudication"
         /\ ~IsAdjudication(l) => l.round \in BlindRounds /\ ~l.sawPeerLabels /\ ~l.sourceHasLabels
BY DEF RowHolds, MetadataHolds

LEMMA RoundsApart == "adjudication" \notin BlindRounds /\ BlindRounds = {"blind_first", "blind_second"}
BY DEF BlindRounds

(* The raters of some rows are finitely many. *)
LEMMA RatersAreFinite ==
  ASSUME NEW labels, labels \in Seq(Range(labels)), NEW rows \in SUBSET DOMAIN labels
  PROVE  /\ IsFiniteSet(rows) /\ IsFiniteSet(RatersOf(labels, rows)) /\ IsFiniteSet(SaidIn(labels, rows))
         /\ Cardinality(RatersOf(labels, rows)) = 0 <=> rows = {}
         /\ Cardinality(SaidIn(labels, rows)) = 0 <=> rows = {}
<1>1. IsFiniteSet(rows)
  <2>1. DOMAIN labels = 1..Len(labels) /\ Len(labels) \in Nat
    OBVIOUS
  <2>2. IsFiniteSet(DOMAIN labels)
    BY <2>1, FS_Interval
  <2> QED BY <2>2, FS_Subset
<1>2. IsFiniteSet(RatersOf(labels, rows))
  <2> DEFINE f == [i \in rows |-> labels[i].rater]
  <2>1. f \in Surjection(rows, RatersOf(labels, rows))
    BY DEF Surjection, RatersOf
  <2> QED BY <1>1, <2>1, FS_Surjection
<1>3. IsFiniteSet(SaidIn(labels, rows))
  <2> DEFINE f == [i \in rows |-> labels[i].label]
  <2>1. f \in Surjection(rows, SaidIn(labels, rows))
    BY DEF Surjection, SaidIn
  <2> QED BY <1>1, <2>1, FS_Surjection
<1>4. (RatersOf(labels, rows) = {} <=> rows = {}) /\ (SaidIn(labels, rows) = {} <=> rows = {})
  BY DEF RatersOf, SaidIn
<1> QED BY <1>1, <1>2, <1>3, <1>4, FS_EmptySet

(* Rows of one rater on one finding, both independent, are one row. *)
LEMMA OneRow ==
  ASSUME NEW labels, NEW known, NEW studyId, RowsHold(labels, known, studyId), NEW id,
         NEW i \in Independent(labels, id), NEW k \in Independent(labels, id),
         labels[i].rater = labels[k].rater
  PROVE  i = k
<1>1. i \in DOMAIN labels /\ k \in DOMAIN labels /\ labels[i].findingId = id /\ labels[k].findingId = id
  BY DEF Independent
<1>2. IsAdjudication(labels[i]) = FALSE /\ IsAdjudication(labels[k]) = FALSE
  BY DEF Independent, IsAdjudication
<1>3. RowKey(labels[i]) = RowKey(labels[k])
  BY <1>1, <1>2 DEF RowKey
<1> QED BY <1>1, <1>3 DEF RowsHold

(* A finding that has a final label has two independent rows, one in each   *)
(* blind round and by different raters (finalLabelForFinding).              *)
LEMMA BlindPair ==
  ASSUME NEW labels, labels \in Seq(Range(labels)), NEW known, NEW studyId, RowsHold(labels, known, studyId),
         NEW id,
         Cardinality(RatersOf(labels, InRound(labels, Independent(labels, id), "blind_first"))) = 1,
         Cardinality(RatersOf(labels, InRound(labels, Independent(labels, id), "blind_second"))) = 1,
         RatersOf(labels, InRound(labels, Independent(labels, id), "blind_first"))
           \cap RatersOf(labels, InRound(labels, Independent(labels, id), "blind_second")) = {}
  PROVE  \E i, j \in DOMAIN labels :
           /\ Independent(labels, id) = {i, j}
           /\ labels[i].round = "blind_first" /\ labels[j].round = "blind_second"
           /\ labels[i].rater # labels[j].rater
<1> DEFINE own == Independent(labels, id)
           first == InRound(labels, own, "blind_first")
           second == InRound(labels, own, "blind_second")
<1>1. own \subseteq DOMAIN labels /\ first \subseteq own /\ second \subseteq own
  BY DEF Independent, InRound
<1>2. PICK a : RatersOf(labels, first) = {a}
  BY <1>1, RatersAreFinite, FS_Singleton
<1>3. PICK d : RatersOf(labels, second) = {d}
  BY <1>1, RatersAreFinite, FS_Singleton
<1>4. PICK i \in first : labels[i].rater = a
  BY <1>2 DEF RatersOf
<1>5. PICK j \in second : labels[j].rater = d
  BY <1>3 DEF RatersOf
<1>6. a # d
  BY <1>2, <1>3
<1>7. ASSUME NEW k \in own PROVE k = i \/ k = j
  <2>1. labels[k].round \in BlindRounds
    BY <1>1, RowSays DEF Independent, RowsHold
  <2>2. CASE labels[k].round = "blind_first"
    <3>1. labels[k].rater = a
      BY <1>2, <2>2 DEF RatersOf, InRound
    <3> QED BY <1>1, <1>4, <3>1, OneRow
  <2>3. CASE labels[k].round = "blind_second"
    <3>1. labels[k].rater = d
      BY <1>3, <2>3 DEF RatersOf, InRound
    <3> QED BY <1>1, <1>5, <3>1, OneRow
  <2> QED BY <2>1, <2>2, <2>3, RoundsApart
<1>8. labels[i].round = "blind_first" /\ labels[j].round = "blind_second"
  BY <1>4, <1>5 DEF InRound
<1>9. own = {i, j}
  BY <1>1, <1>7
<1> QED BY <1>1, <1>4, <1>5, <1>6, <1>8, <1>9

(* Rows i and j are the blind ones of a finding, and v is its final label.  *)
SettledBy(labels, id, minimum, i, j, v) ==
  /\ Independent(labels, id) = {i, j}
  /\ labels[i].round = "blind_first" /\ labels[j].round = "blind_second"
  /\ labels[i].rater # labels[j].rater
  /\ FinalLabels(labels, id, minimum) = {v}
  /\ \/ labels[i].label = v /\ labels[j].label = v /\ Adjudicating(labels, id) = {}
     \/ labels[i].label # labels[j].label /\ SaidIn(labels, Adjudicating(labels, id)) = {v}

(* The final label of a finding is what its two raters said alike, and then *)
(* nobody settled anything, or what those who settled the difference said.  *)
LEMMA FinalLabel ==
  ASSUME NEW labels, labels \in Seq(Range(labels)), NEW known, NEW studyId, RowsHold(labels, known, studyId),
         NEW id, NEW minimum, FinalLabels(labels, id, minimum) # {}
  PROVE  \E i, j \in DOMAIN labels : \E v : SettledBy(labels, id, minimum, i, j, v)
<1> DEFINE own == Independent(labels, id)
           settled == Adjudicating(labels, id)
           first == RatersOf(labels, InRound(labels, own, "blind_first"))
           second == RatersOf(labels, InRound(labels, own, "blind_second"))
<1>1. /\ Cardinality(first) = 1 /\ Cardinality(second) = 1 /\ first \cap second = {}
      /\ ~(Cardinality(SaidIn(labels, own)) = 1 /\ settled # {})
      /\ ~(Cardinality(SaidIn(labels, settled)) > 1)
      /\ FinalLabels(labels, id, minimum) = IF Cardinality(SaidIn(labels, own)) = 1 THEN SaidIn(labels, own) ELSE SaidIn(labels, settled)
  BY DEF FinalLabels
<1>2. PICK i \in DOMAIN labels, j \in DOMAIN labels :
         /\ own = {i, j}
         /\ labels[i].round = "blind_first" /\ labels[j].round = "blind_second"
         /\ labels[i].rater # labels[j].rater
  BY <1>1, BlindPair
<1>3. SaidIn(labels, own) = {labels[i].label, labels[j].label}
  BY <1>2 DEF SaidIn
<1>4. own \subseteq DOMAIN labels /\ settled \subseteq DOMAIN labels
  BY DEF Independent, Adjudicating
<1>5. CASE labels[i].label = labels[j].label
  <2>1. SaidIn(labels, own) = {labels[i].label}
    BY <1>3, <1>5
  <2>3. Cardinality({labels[i].label}) = 1
    BY FS_Singleton
  <2>2. settled = {} /\ FinalLabels(labels, id, minimum) = {labels[i].label}
    BY <1>1, <2>1, <2>3
  <2> HIDE DEF own, settled, SettledBy
  <2> QED BY <1>2, <1>5, <2>2 DEF own, settled, SettledBy
<1>6. CASE labels[i].label # labels[j].label
  <2>1. Cardinality(SaidIn(labels, own)) # 1
    <3>1. IsFiniteSet(SaidIn(labels, own))
      BY <1>4, RatersAreFinite
    <3>2. ~\E x : SaidIn(labels, own) = {x}
      BY <1>3, <1>6
    <3> QED BY <3>1, <3>2, FS_Singleton
  <2>2. FinalLabels(labels, id, minimum) = SaidIn(labels, settled)
    BY <1>1, <2>1
  <2>3. IsFiniteSet(SaidIn(labels, settled)) /\ SaidIn(labels, settled) # {}
    BY <1>4, <2>2, RatersAreFinite
  <2>4. Cardinality(SaidIn(labels, settled)) = 1
    <3>1. Cardinality(SaidIn(labels, settled)) \in Nat /\ Cardinality(SaidIn(labels, settled)) # 0
      BY <2>3, FS_CardinalityType, FS_EmptySet
    <3> QED BY <1>1, <3>1
  <2>5. PICK v : SaidIn(labels, settled) = {v}
    BY <2>3, <2>4, FS_Singleton
  <2> HIDE DEF own, settled, SettledBy
  <2> QED BY <1>2, <1>6, <2>2, <2>5 DEF own, settled, SettledBy
<1> QED BY <1>5, <1>6

(* A row that a worklist gives out is blank but for its finding, its rater  *)
(* and its round (labelTemplate).                                           *)
LEMMA TemplateSays ==
  ASSUME NEW study, NEW e, NEW hasLabels
  PROVE  /\ TemplateOf(study, e, hasLabels).rater = e.rater
         /\ TemplateOf(study, e, hasLabels).round = e.round
         /\ {"rater", "round"} \subseteq DOMAIN TemplateOf(study, e, hasLabels)
<1>1. \A s, x, h : TemplateOf(s, x, h).rater = x.rater
  BY Zenon DEF TemplateOf
<1>2. \A s, x, h : TemplateOf(s, x, h).round = x.round
  BY Zenon DEF TemplateOf
<1>3. \A s, x, h : "rater" \in DOMAIN TemplateOf(s, x, h)
  BY Zenon DEF TemplateOf
<1>4. \A s, x, h : "round" \in DOMAIN TemplateOf(s, x, h)
  BY Zenon DEF TemplateOf
<1> QED BY <1>1, <1>2, <1>3, <1>4, Zenon

(* A row of a round that a worklist covers is one that it assigned, to this *)
(* rater; one that is blind was assigned before there was a label.          *)
LEMMA AssignedRow ==
  ASSUME NEW dir, NEW labels, NEW ctx, WorklistVerifies(dir, labels, ctx),
         NEW i \in DOMAIN labels, labels[i].round \in RoundsOf(dir)
  PROVE  /\ ctx.digest # <<>> => dir.seal = ctx.digest
         /\ MetadataHolds(labels[i], TRUE)
         /\ AssignedBy(dir, labels[i])
<1> DEFINE l == labels[i]
           m == ManifestOf(dir)
<1>1. /\ ManifestPath \in DOMAIN dir.files /\ dir.intact /\ (ctx.digest # <<>> => dir.seal = ctx.digest)
      /\ ManifestConsistent(m) /\ RowIsAssigned(dir, l)
      /\ \A e \in m.assignments : AssignmentHolds(dir.files[e.path], e, m, ctx, labels)
  BY DEF WorklistVerifies
<1>2. AssignedIn(dir) = m.assignments
  BY <1>1 DEF AssignedIn
<1>3. PICK e \in m.assignments :
        LET t == dir.files[e.path].template
        IN /\ e.assignmentId = l.assignmentId
           /\ [l EXCEPT !.studyId = t.studyId, !.worklist = <<>>, !.label = "", !.reasoned = FALSE, !.flagged = FALSE] = t
  BY <1>1, <1>2 DEF RowIsAssigned
<1>4. dir.files[e.path].template = TemplateOf(m.studyId, e, e.round = "adjudication")
  BY <1>1 DEF AssignmentHolds
<1>5. e.rater = l.rater /\ e.round = l.round
  <2> DEFINE t == dir.files[e.path].template
  <2>1. t.rater = e.rater /\ t.round = e.round /\ {"rater", "round"} \subseteq DOMAIN t
    <3>1. \E h : t = TemplateOf(m.studyId, e, h)
      BY <1>4, Zenon
    <3>2. PICK h : t = TemplateOf(m.studyId, e, h)
      BY <3>1
    <3> HIDE DEF t
    <3> QED BY <3>2, TemplateSays
  <2>2. DOMAIN t = DOMAIN l
    BY <1>3
  <2> HIDE DEF l, t
  <2>3. t.rater = l.rater /\ t.round = l.round
    BY <1>3, <2>1, <2>2 DEF t
  <2> QED BY <2>1, <2>3
<1>6. l.round # "adjudication" => m.existing = 0
  <2>1. e.round \in RequiredRounds(m) /\ (m.mode # "adjudication" => m.existing = 0)
    BY <1>1 DEF ManifestConsistent
  <2>2. m.mode = "adjudication" => e.round = "adjudication"
    BY <2>1 DEF RequiredRounds
  <2> QED BY <1>5, <2>1, <2>2
<1>7. MetadataHolds(l, TRUE)
  BY <1>1 DEF RowIsAssigned
<1>8. AssignedBy(dir, l)
  BY <1>1, <1>3, <1>5, <1>6 DEF AssignedBy
<1> QED BY <1>1, <1>7, <1>8

(* Where worklists cover both blind rounds, and that of adjudication if any *)
(* row needs it, every row is one that a worklist of the protocol assigned. *)
LEMMA EveryRowAssigned ==
  ASSUME NEW b, NEW p, NEW dirs, NEW known, WorklistsHold(b, p, dirs),
         BlindRounds \subseteq UNION {RoundsOf(dirs[k]) : k \in DOMAIN dirs},
         RowsHold(b.labels, known, p.studyId),
         dirs \in Seq(Range(dirs)), p.worklists \in Seq(Range(p.worklists)), <<>> \notin Range(p.worklists),
         NEW i \in DOMAIN b.labels
  PROVE  /\ MetadataHolds(b.labels[i], TRUE) /\ RowHolds(b.labels[i], known, p.studyId)
         /\ \E k \in DOMAIN dirs : p.worklists[k] = dirs[k].seal /\ AssignedBy(dirs[k], b.labels[i])
<1> DEFINE l == b.labels[i]
<1>1. RowHolds(l, known, p.studyId)
  BY DEF RowsHold
<1>2. dirs # <<>>
  BY RoundsApart
<1>3. PICK k \in DOMAIN dirs : l.round \in RoundsOf(dirs[k])
  <2>1. CASE IsAdjudication(l)
    <3>1. l.round = "adjudication"
      BY <1>1, <2>1, RowSays
    <3>2. \E x \in DOMAIN b.labels : IsAdjudication(b.labels[x])
      BY <2>1
    <3>3. \E x \in DOMAIN dirs : "adjudication" \in RoundsOf(dirs[x])
      BY <1>2, <3>2 DEF WorklistsHold
    <3> QED BY <3>1, <3>3
  <2>2. CASE ~IsAdjudication(l)
    <3>1. l.round \in BlindRounds
      BY <1>1, <2>2, RowSays
    <3> QED BY <3>1
  <2> QED BY <2>1, <2>2
<1> DEFINE ctx == [bundle |-> b, studyId |-> p.studyId, artifactSet |-> <<>>, protocol |-> <<p>>, digest |-> p.worklists[k]]
<1>4. WorklistVerifies(dirs[k], b.labels, ctx)
  BY DEF WorklistsHold
<1>5. ctx.digest = p.worklists[k]
  OBVIOUS
<1>6. p.worklists[k] # <<>>
  <2>1. DOMAIN dirs = 1..Len(dirs) /\ DOMAIN p.worklists = 1..Len(p.worklists) /\ Len(dirs) = Len(p.worklists)
    BY DEF WorklistsHold
  <2> QED BY <2>1 DEF Range
<1> HIDE DEF ctx
<1>7. /\ ctx.digest # <<>> => dirs[k].seal = ctx.digest
      /\ MetadataHolds(l, TRUE) /\ AssignedBy(dirs[k], l)
  BY <1>3, <1>4, AssignedRow
<1>8. p.worklists[k] = dirs[k].seal
  BY <1>5, <1>6, <1>7
<1> QED BY <1>1, <1>7, <1>8

(* The pairs of the members of a set and their images are as many as the    *)
(* members.                                                                 *)
LEMMA PairsCount ==
  ASSUME NEW T, IsFiniteSet(T), NEW v
  PROVE  Cardinality({<<f, v[f]>> : f \in T}) = Cardinality(T)
<1> DEFINE image == {<<f, v[f]>> : f \in T}
           g == [f \in T |-> <<f, v[f]>>]
<1>1. g \in [T -> image]
  OBVIOUS
<1>2. \A a, c \in T : g[a] = g[c] => a = c
  OBVIOUS
<1>3. \A y \in image : \E x \in T : g[x] = y
  OBVIOUS
<1> HIDE DEF g, image
<1>4. g \in Bijection(T, image)
  BY <1>1, <1>2, <1>3 DEF Bijection, Injection, IsInjective, Surjection
<1>5. Cardinality(image) = Cardinality(T)
  BY <1>4, FS_Bijection DEF ExistsBijection
<1> QED BY <1>5 DEF image

LEMMA RepositoryCount ==
  ASSUME NEW S, IsFiniteSet(S), NEW v, NEW r
  PROVE  Cardinality(OfRepository({<<f, v[f]>> : f \in S}, r)) = Cardinality({f \in S : RepositoryOf(f) = r})
<1> DEFINE T == {f \in S : RepositoryOf(f) = r}
<1>1. OfRepository({<<f, v[f]>> : f \in S}, r) = {<<f, v[f]>> : f \in T}
  BY DEF OfRepository
<1>2. T \subseteq S
  OBVIOUS
<1> HIDE DEF T
<1>3. Cardinality({<<f, v[f]>> : f \in T}) = Cardinality(T)
  BY <1>2, FS_Subset, PairsCount
<1> QED BY <1>1, <1>3 DEF T

(* Rows i and j are all that is blind of a finding, and v is what those rows, *)
(* or those that settle them, say.                                          *)
RowsSettle(labels, id, minimum, i, j, v) ==
  /\ Independent(labels, id) = {i, j} /\ BlindOn(labels, id) = {labels[i], labels[j]}
  /\ labels[i].round = "blind_first" /\ labels[j].round = "blind_second"
  /\ labels[i].rater # labels[j].rater
  /\ FinalLabels(labels, id, minimum) = {v}
  /\ \/ labels[i].label = v /\ labels[j].label = v /\ RowsOn(labels, id) = {labels[i], labels[j]}
     \/ /\ labels[i].label # labels[j].label
        /\ Adjudicating(labels, id) # {}
        /\ \A k \in Adjudicating(labels, id) : labels[k].label = v

LEMMA RowsOfFinding ==
  ASSUME NEW labels, labels \in Seq(Range(labels)), NEW known, NEW studyId, RowsHold(labels, known, studyId),
         NEW id, NEW minimum, FinalLabels(labels, id, minimum) # {}
  PROVE  \E i, j \in DOMAIN labels : \E v : RowsSettle(labels, id, minimum, i, j, v)
<1>0. PICK i \in DOMAIN labels, j \in DOMAIN labels : \E v : SettledBy(labels, id, minimum, i, j, v)
  BY FinalLabel
<1>1. PICK v : SettledBy(labels, id, minimum, i, j, v)
  BY <1>0
<1> USE DEF SettledBy
<1>2. \A k \in DOMAIN labels : labels[k].findingId = id =>
        k \in Independent(labels, id) \/ k \in Adjudicating(labels, id)
  BY DEF Independent, Adjudicating
<1>3. \A k \in Adjudicating(labels, id) : k \in DOMAIN labels /\ labels[k].round = "adjudication"
  BY RowSays DEF Adjudicating, RowsHold
<1>4. labels[i].findingId = id /\ labels[j].findingId = id
  <2>1. i \in Independent(labels, id) /\ j \in Independent(labels, id)
    BY <1>1
  <2> QED BY <2>1 DEF Independent
<1>5. Range(labels) = {labels[k] : k \in DOMAIN labels}
  BY DEF Range
<1>6. BlindOn(labels, id) = {labels[i], labels[j]}
  <2>1. ASSUME NEW l \in BlindOn(labels, id) PROVE l \in {labels[i], labels[j]}
    <3>1. PICK k \in DOMAIN labels : l = labels[k] /\ labels[k].findingId = id /\ labels[k].round \in BlindRounds
      BY <1>5, <2>1 DEF BlindOn, RowsOn
    <3>2. k \in Independent(labels, id)
      BY <1>2, <1>3, <3>1, RoundsApart
    <3> QED BY <1>1, <3>1, <3>2
  <2>2. labels[i] \in BlindOn(labels, id) /\ labels[j] \in BlindOn(labels, id)
    BY <1>1, <1>4, <1>5, RoundsApart DEF BlindOn, RowsOn
  <2> QED BY <2>1, <2>2
<1>7. Adjudicating(labels, id) = {} => RowsOn(labels, id) = {labels[i], labels[j]}
  <2>1. ASSUME Adjudicating(labels, id) = {}, NEW l \in RowsOn(labels, id) PROVE l \in {labels[i], labels[j]}
    <3>1. PICK k \in DOMAIN labels : l = labels[k] /\ labels[k].findingId = id
      BY <1>5, <2>1 DEF RowsOn
    <3>2. k \in Independent(labels, id)
      BY <1>2, <2>1, <3>1
    <3> QED BY <1>1, <3>1, <3>2
  <2>2. labels[i] \in RowsOn(labels, id) /\ labels[j] \in RowsOn(labels, id)
    BY <1>4, <1>5 DEF RowsOn
  <2> QED BY <2>1, <2>2
<1>8. SaidIn(labels, Adjudicating(labels, id)) = {v} =>
        /\ Adjudicating(labels, id) # {}
        /\ \A k \in Adjudicating(labels, id) : labels[k].label = v
  BY DEF SaidIn
<1> QED BY <1>1, <1>6, <1>7, <1>8 DEF RowsSettle

(* Two different things are two. *)
LEMMA TwoAreTwo ==
  ASSUME NEW x, NEW y, x # y
  PROVE  IsFiniteSet({x, y}) /\ Cardinality({x, y}) = 2
<1>1. IsFiniteSet({x}) /\ Cardinality({x}) = 1
  BY FS_Singleton
<1>2. IsFiniteSet({x} \cup {y}) /\ Cardinality({x} \cup {y}) = Cardinality({x}) + 1
  BY <1>1, FS_AddElement
<1>3. {x} \cup {y} = {x, y}
  OBVIOUS
<1> QED BY <1>1, <1>2, <1>3

(* What a passing claim asks of its bundle, its protocol and its worklists. *)
ClaimStands(b, p, dirs, known) ==
  /\ b.labels \in Seq(Range(b.labels)) /\ dirs \in Seq(Range(dirs))
  /\ p.worklists \in Seq(Range(p.worklists)) /\ <<>> \notin Range(p.worklists)
  /\ p.minimumExternal \in Int
  /\ RowsHold(b.labels, known, p.studyId) /\ WorklistsHold(b, p, dirs)
  /\ BlindRounds \subseteq UNION {RoundsOf(dirs[k]) : k \in DOMAIN dirs}

(* The final label of a finding is that of its decisive rows.               *)
LEMMA DecisiveRows ==
  ASSUME NEW labels, labels \in Seq(Range(labels)), NEW known, NEW studyId, RowsHold(labels, known, studyId),
         NEW id, NEW minimum, FinalLabels(labels, id, minimum) # {}
  PROVE  \E v : FinalLabels(labels, id, minimum) = {v} /\ {l.label : l \in DecisiveOn(labels, id)} = {v}
<1>0. PICK i \in DOMAIN labels, j \in DOMAIN labels : \E v : RowsSettle(labels, id, minimum, i, j, v)
  BY RowsOfFinding
<1>1. PICK v : RowsSettle(labels, id, minimum, i, j, v)
  BY <1>0
<1> USE DEF RowsSettle
<1>2. {x.label : x \in BlindOn(labels, id)} = {labels[i].label, labels[j].label}
  BY <1>1
<1>3. CASE labels[i].label = v /\ labels[j].label = v /\ RowsOn(labels, id) = {labels[i], labels[j]}
  <2>1. DecisiveOn(labels, id) = {labels[i], labels[j]}
    BY <1>1, <1>2, <1>3 DEF DecisiveOn
  <2> QED BY <1>1, <1>3, <2>1
<1>4. CASE /\ labels[i].label # labels[j].label
           /\ Adjudicating(labels, id) # {}
           /\ \A k \in Adjudicating(labels, id) : labels[k].label = v
  <2>1. DecisiveOn(labels, id) = {labels[k] : k \in Adjudicating(labels, id)}
    <3>1. ASSUME NEW l \in DecisiveOn(labels, id) PROVE \E k \in Adjudicating(labels, id) : l = labels[k]
      <4>1. l \in RowsOn(labels, id) /\ l.round = "adjudication"
        BY <1>2, <1>4 DEF DecisiveOn
      <4>2. PICK k \in DOMAIN labels : l = labels[k] /\ labels[k].findingId = id
        BY <4>1 DEF RowsOn, Range
      <4>3. k \in Adjudicating(labels, id)
        BY <4>1, <4>2 DEF Adjudicating, IsAdjudication
      <4> QED BY <4>2, <4>3
    <3>2. ASSUME NEW k \in Adjudicating(labels, id) PROVE labels[k] \in DecisiveOn(labels, id)
      <4>1. k \in DOMAIN labels /\ labels[k].findingId = id /\ IsAdjudication(labels[k])
        BY DEF Adjudicating
      <4>2. labels[k].round = "adjudication"
        BY <4>1, RowSays DEF RowsHold
      <4> QED BY <4>1, <4>2 DEF DecisiveOn, RowsOn, Range
    <3> QED BY <3>1, <3>2
  <2>2. {l.label : l \in DecisiveOn(labels, id)} = {v}
    BY <1>4, <2>1
  <2> QED BY <1>1, <2>2
<1> QED BY <1>1, <1>3, <1>4

(* The two rows of a counted finding, and what they say of themselves.      *)
LEMMA BlindRowsSay ==
  ASSUME NEW b, NEW p, NEW dirs, NEW known, ClaimStands(b, p, dirs, known),
         NEW id, FinalLabels(b.labels, id, p.raters) # {}
  PROVE  LET blind == BlindOn(b.labels, id)
         IN /\ Cardinality({l.rater : l \in blind}) = 2 /\ Cardinality(blind) = 2
            /\ {l.round : l \in blind} = BlindRounds
            /\ \A l \in RowsOn(b.labels, id) :
                 /\ \E k \in DOMAIN dirs : p.worklists[k] = dirs[k].seal /\ AssignedBy(dirs[k], l)
                 /\ l.reasoned /\ MetadataHolds(l, TRUE)
            /\ \A l \in blind : ~l.sawPeerLabels /\ ~l.sourceHasLabels
<1> DEFINE labels == b.labels
           blind == BlindOn(b.labels, id)
<1>1. /\ labels \in Seq(Range(labels)) /\ RowsHold(labels, known, p.studyId)
      /\ WorklistsHold(b, p, dirs) /\ dirs \in Seq(Range(dirs))
      /\ p.worklists \in Seq(Range(p.worklists)) /\ <<>> \notin Range(p.worklists)
      /\ BlindRounds \subseteq UNION {RoundsOf(dirs[k]) : k \in DOMAIN dirs}
  BY DEF ClaimStands
<1>2. PICK i \in DOMAIN labels, j \in DOMAIN labels : \E v : RowsSettle(labels, id, p.raters, i, j, v)
  BY <1>1, RowsOfFinding
<1>3. /\ blind = {labels[i], labels[j]} /\ labels[i].rater # labels[j].rater
      /\ labels[i].round = "blind_first" /\ labels[j].round = "blind_second"
      /\ Independent(labels, id) = {i, j}
  BY <1>2 DEF RowsSettle
<1>4. labels[i] # labels[j]
  BY <1>3
<1>5. Cardinality(blind) = 2
  <2>1. Cardinality({labels[i], labels[j]}) = 2
    BY <1>4, TwoAreTwo
  <2> QED BY <1>3, <2>1
<1>6. {l.rater : l \in blind} = {labels[i].rater, labels[j].rater}
  BY <1>3
<1>7. Cardinality({l.rater : l \in blind}) = 2
  <2>1. Cardinality({labels[i].rater, labels[j].rater}) = 2
    BY <1>3, TwoAreTwo
  <2> QED BY <1>6, <2>1
<1>8. {l.round : l \in blind} = BlindRounds
  BY <1>3, RoundsApart
<1>9. ASSUME NEW l \in RowsOn(labels, id)
      PROVE  /\ \E k \in DOMAIN dirs : p.worklists[k] = dirs[k].seal /\ AssignedBy(dirs[k], l)
             /\ l.reasoned /\ MetadataHolds(l, TRUE)
  <2>1. PICK x \in DOMAIN labels : l = labels[x]
    BY DEF RowsOn, Range
  <2>2. /\ MetadataHolds(labels[x], TRUE) /\ RowHolds(labels[x], known, p.studyId)
        /\ \E k \in DOMAIN dirs : p.worklists[k] = dirs[k].seal /\ AssignedBy(dirs[k], labels[x])
    BY <1>1, EveryRowAssigned
  <2>3. labels[x].reasoned
    BY <2>2, RowSays
  <2> QED BY <2>1, <2>2, <2>3
<1>10. ASSUME NEW x \in {i, j} PROVE ~labels[x].sawPeerLabels /\ ~labels[x].sourceHasLabels
  <2>1. x \in DOMAIN labels /\ ~IsAdjudication(labels[x])
    BY <1>3 DEF Independent
  <2>2. RowHolds(labels[x], known, p.studyId)
    BY <1>1, <2>1 DEF RowsHold
  <2> QED BY <2>1, <2>2, RowSays
<1>11. \A l \in blind : ~l.sawPeerLabels /\ ~l.sourceHasLabels
  BY <1>3, <1>10
<1> HIDE DEF labels, blind
<1> QED BY <1>5, <1>7, <1>8, <1>9, <1>11 DEF labels, blind

(* Where two raters differ, a third person who has what they said before    *)
(* him decided; where the protocol asks for it, one of the two is external. *)
LEMMA OthersSay ==
  ASSUME NEW b, NEW p, NEW dirs, NEW known, ClaimStands(b, p, dirs, known),
         NEW id, FinalLabels(b.labels, id, p.raters) # {}, AdjudicatorsApart(b.labels, id)
  PROVE  LET blind == BlindOn(b.labels, id)
         IN /\ Cardinality({l.label : l \in blind}) = 2 =>
                 \E l \in RowsOn(b.labels, id) \ blind : l.sawPeerLabels /\ l.rater \notin {x.rater : x \in blind}
            /\ ExternallyCovered(b.labels, id, p) => \E l \in blind : l.raterType \in p.externalTypes
<1> DEFINE labels == b.labels
           blind == BlindOn(b.labels, id)
<1>1. labels \in Seq(Range(labels)) /\ RowsHold(labels, known, p.studyId) /\ p.minimumExternal \in Int
  BY DEF ClaimStands
<1>2. PICK i \in DOMAIN labels, j \in DOMAIN labels : \E v : RowsSettle(labels, id, p.raters, i, j, v)
  BY <1>1, RowsOfFinding
<1>3. blind = {labels[i], labels[j]} /\ Independent(labels, id) = {i, j}
  BY <1>2 DEF RowsSettle
<1>4. ASSUME Cardinality({l.label : l \in blind}) = 2
      PROVE  \E l \in RowsOn(labels, id) \ blind : l.sawPeerLabels /\ l.rater \notin {x.rater : x \in blind}
  <2>1. labels[i].label # labels[j].label
    <3>1. {l.label : l \in blind} = {labels[i].label, labels[j].label}
      BY <1>3
    <3>2. SUFFICES ASSUME labels[i].label = labels[j].label PROVE FALSE
      OBVIOUS
    <3>3. {l.label : l \in blind} = {labels[i].label}
      BY <3>1, <3>2
    <3>4. Cardinality({labels[i].label}) = 1
      BY FS_Singleton
    <3>5. Cardinality({l.label : l \in blind}) = 1
      BY <3>3, <3>4
    <3> QED BY <1>4, <3>5
  <2>2. PICK k \in Adjudicating(labels, id) : TRUE
    BY <1>2, <2>1 DEF RowsSettle
  <2>3. k \in DOMAIN labels /\ labels[k].findingId = id /\ IsAdjudication(labels[k])
    BY DEF Adjudicating
  <2>4. labels[k].round = "adjudication"
    BY <1>1, <2>3, RowSays DEF RowsHold
  <2>5. labels[k] \in RowsOn(labels, id) \ blind
    BY <2>3, <2>4, RoundsApart DEF RowsOn, BlindOn, Range
  <2>6. labels[k].sawPeerLabels
    <3>1. MetadataHolds(labels[k], TRUE)
      BY <2>5, BlindRowsSay
    <3> QED BY <2>3, <3>1 DEF MetadataHolds
  <2>7. labels[k].rater \notin {x.rater : x \in blind}
    <3>1. labels[k].rater \in RatersOf(labels, Adjudicating(labels, id))
      BY DEF RatersOf
    <3>2. {x.rater : x \in blind} = RatersOf(labels, Independent(labels, id))
      BY <1>3 DEF RatersOf
    <3> QED BY <3>1, <3>2 DEF AdjudicatorsApart
  <2> QED BY <2>5, <2>6, <2>7
<1>5. ASSUME ExternallyCovered(labels, id, p)
      PROVE  \E l \in blind : l.raterType \in p.externalTypes
  <2> DEFINE external == {x \in Independent(labels, id) : IsExternal(labels[x], p)}
  <2>1. external # {}
    <3>1. SUFFICES ASSUME external = {} PROVE FALSE
      OBVIOUS
    <3>2. RatersOf(labels, external) = {}
      BY <3>1 DEF RatersOf
    <3>3. Cardinality(RatersOf(labels, external)) = 0
      BY <3>2, FS_EmptySet
    <3>4. \E required \in Int : required >= 1 /\ Cardinality(RatersOf(labels, external)) >= required
      <4>1. (IF p.minimumExternal < 1 THEN 1 ELSE p.minimumExternal) \in Int
        BY <1>1
      <4>2. (IF p.minimumExternal < 1 THEN 1 ELSE p.minimumExternal) >= 1
        BY <1>1
      <4> QED BY <1>5, <4>1, <4>2 DEF ExternallyCovered
    <3> QED BY <3>3, <3>4
  <2>2. PICK x \in {i, j} : IsExternal(labels[x], p)
    BY <1>3, <2>1
  <2> QED BY <1>3, <2>2 DEF IsExternal
<1> HIDE DEF labels, blind
<1> QED BY <1>4, <1>5 DEF labels, blind

(* A tenth of a share is no more than a tenth of all.                       *)
LEMMA ATenth ==
  ASSUME NEW n \in Int, NEW of \in Int, NEW share \in Int \X Int,
         0 < share[1], AtLeast(<<1, 10>>, share), ~OverShare(n, of, share), n >= 0
  PROVE  10 * n <= of
<1> DEFINE x == share[1]
           y == share[2]
<1>1. x \in Int /\ y \in Int /\ x > 0
  OBVIOUS
<1>2. y >= 10 * x
  BY DEF AtLeast
<1>3. n * y <= of * x
  BY DEF OverShare
<1> HIDE DEF x, y
<1>4. n * (10 * x) <= n * y
  BY <1>1, <1>2
<1>5. (10 * n) * x <= of * x
  BY <1>1, <1>3, <1>4
<1> QED BY <1>1, <1>5

(* A claim that passes is valid and meets every gate (evaluateClaim).       *)
LEMMA PassMeans ==
  ASSUME NEW c, EvaluateClaim(c) = "pass"
  PROVE  LET p == NormalizeProtocol(c.protocol)
         IN ClaimIsValid(c.protocol, p, c.bundle, c.worklists) /\ ClaimGates(p, c.bundle, c.worklists)
BY DEF EvaluateClaim

LEMMA PassStands ==
  ASSUME NEW c \in PrecisionCases, EvaluateClaim(c) = "pass"
  PROVE  ClaimStands(c.bundle, NormalizeProtocol(c.protocol), c.worklists, {f.findingId : f \in c.bundle.findings})
<1> DEFINE p == NormalizeProtocol(c.protocol)
           b == c.bundle
<1>1. ClaimIsValid(c.protocol, p, b, c.worklists) /\ ClaimGates(p, b, c.worklists)
  BY PassMeans
<1>2. /\ b.labels \in Seq(Range(b.labels)) /\ c.worklists \in Seq(Range(c.worklists))
      /\ p.worklists \in Seq(Range(p.worklists)) /\ p.minimumExternal \in Int
  BY PrecisionAssumption
<1> HIDE DEF p
<1>3. <<>> \notin Range(p.worklists)
  BY <1>1 DEF ClaimIsValid, ProtocolHolds, p
<1>4. RowsHold(b.labels, {f.findingId : f \in b.findings}, p.studyId)
  BY <1>1 DEF ClaimIsValid, BundleMeetsProtocol
<1>5. WorklistsHold(b, p, c.worklists)
  BY <1>1 DEF ClaimIsValid
<1>6. BlindRounds \subseteq UNION {RoundsOf(c.worklists[k]) : k \in DOMAIN c.worklists}
  BY <1>1 DEF ClaimGates
<1> QED BY <1>2, <1>3, <1>4, <1>5, <1>6 DEF ClaimStands, p

(* The numbers of a passing claim: the findings that its decisive rows call *)
(* true positives are enough of those that they call anything that blocks.  *)
LEMMA PassCounts ==
  ASSUME NEW c \in PrecisionCases, EvaluateClaim(c) = "pass"
  PROVE  LET p == NormalizeProtocol(c.protocol)
             counted == ClaimFindings(c.bundle, p)
             judged(labels) == {f \in counted : \E l \in DecisiveOn(c.bundle.labels, f.findingId) : l.label \in labels}
         IN /\ Cardinality(judged({"true_positive"})) * p.minimum[2] >= p.minimum[1] * Cardinality(judged(BlockingLabels))
            /\ \A f \in counted :
                 10 * Cardinality({g \in counted : RepositoryOf(g) = RepositoryOf(f)}) <= Cardinality(counted)
<1> DEFINE b == c.bundle
           p == NormalizeProtocol(c.protocol)
           counted == ClaimFindings(b, p)
           known == {f.findingId : f \in b.findings}
           judged(labels) == {f \in counted : \E l \in DecisiveOn(b.labels, f.findingId) : l.label \in labels}
           final == [f \in counted |-> CHOOSE l \in FinalLabels(b.labels, f.findingId, p.raters) : TRUE]
           finals == {<<f, final[f]>> : f \in counted}
<1>1. ClaimIsValid(c.protocol, p, b, c.worklists) /\ ClaimGates(p, b, c.worklists)
  BY PassMeans
<1>2. ClaimStands(b, p, c.worklists, known)
  BY PassStands
<1>3. IsFiniteSet(b.findings) /\ p.minimum \in Int \X Int /\ p.share \in Int \X Int
  BY PrecisionAssumption
<1>4. IsFiniteSet(counted)
  <2>1. counted \subseteq b.findings
    BY DEF ClaimFindings
  <2> HIDE DEF counted
  <2> QED BY <1>3, <2>1, FS_Subset
<1>5. ASSUME NEW f \in counted, NEW labels
      PROVE  final[f] \in labels <=> \E l \in DecisiveOn(b.labels, f.findingId) : l.label \in labels
  <2>1. FinalLabels(b.labels, f.findingId, p.raters) # {}
    BY <1>1 DEF ClaimIsValid
  <2>2. b.labels \in Seq(Range(b.labels)) /\ RowsHold(b.labels, known, p.studyId)
    BY <1>2 DEF ClaimStands
  <2> HIDE DEF known, p, b
  <2>3. PICK v : FinalLabels(b.labels, f.findingId, p.raters) = {v} /\ {l.label : l \in DecisiveOn(b.labels, f.findingId)} = {v}
    BY <2>1, <2>2, DecisiveRows
  <2>4. final[f] = v
    BY <2>3
  <2> HIDE DEF final
  <2> QED BY <2>3, <2>4
<1>6. ASSUME NEW labels PROVE Cardinality({x \in finals : x[2] \in labels}) = Cardinality(judged(labels))
  <2> DEFINE T == judged(labels)
  <2>1. T \subseteq counted /\ \A f \in counted : f \in T <=> final[f] \in labels
    <3> HIDE DEF final, counted, b
    <3> QED BY <1>5
  <2> HIDE DEF T, final, counted
  <2>2. {x \in finals : x[2] \in labels} = {<<f, final[f]>> : f \in T}
    BY <2>1
  <2>3. Cardinality({<<f, final[f]>> : f \in T}) = Cardinality(T)
    BY <1>4, <2>1, FS_Subset, PairsCount
  <2> QED BY <2>2, <2>3 DEF T
<1>7. MetricReaches(finals, p) /\ \A r \in {RepositoryOf(f) : f \in counted} : ~OverShare(Cardinality(OfRepository(finals, r)), Cardinality(counted), p.share)
  <2>1. finals = {<<f, CHOOSE l \in FinalLabels(b.labels, f.findingId, p.raters) : TRUE>> : f \in counted}
    OBVIOUS
  <2> HIDE DEF finals, p, b, final
  <2> QED BY <1>1, <2>1 DEF ClaimGates
<1> HIDE DEF final
<1>8. Trials(finals) = Cardinality(judged(BlockingLabels)) /\ Successes(finals) = Cardinality(judged({"true_positive"}))
  <2>1. Trials(finals) = Cardinality({x \in finals : x[2] \in BlockingLabels})
    BY DEF Trials
  <2>2. {x \in finals : x[2] = "true_positive"} = {x \in finals : x[2] \in {"true_positive"}}
    OBVIOUS
  <2>3. Successes(finals) = Cardinality({x \in finals : x[2] \in {"true_positive"}})
    BY <2>2, Zenon DEF Successes
  <2> HIDE DEF finals, judged
  <2> QED BY <1>6, <2>1, <2>3
<1>9. Cardinality(judged(BlockingLabels)) \in Nat /\ Cardinality(judged({"true_positive"})) \in Nat /\ Cardinality(counted) \in Nat
  <2>1. judged(BlockingLabels) \subseteq counted /\ judged({"true_positive"}) \subseteq counted
    OBVIOUS
  <2> HIDE DEF judged, counted
  <2> QED BY <1>4, <2>1, FS_Subset, FS_CardinalityType
<1>10. Cardinality(judged({"true_positive"})) * p.minimum[2] >= p.minimum[1] * Cardinality(judged(BlockingLabels))
  <2>1. Successes(finals) * p.minimum[2] >= Trials(finals) * p.minimum[1]
    BY <1>7 DEF MetricReaches, BoundReaches
  <2>2. p.minimum[1] \in Int /\ p.minimum[2] \in Int
    BY <1>3
  <2> HIDE DEF judged, finals, p
  <2> QED BY <1>8, <1>9, <2>1, <2>2
<1>11. ASSUME NEW f \in counted
       PROVE  10 * Cardinality({g \in counted : RepositoryOf(g) = RepositoryOf(f)}) <= Cardinality(counted)
  <2> DEFINE r == RepositoryOf(f)
             same == {g \in counted : RepositoryOf(g) = r}
  <2>1. Cardinality(OfRepository(finals, r)) = Cardinality(same)
    <3> HIDE DEF counted
    <3> QED BY <1>4, RepositoryCount
  <2>2. 0 < p.share[1] /\ AtLeast(<<1, 10>>, p.share)
    BY <1>1 DEF ClaimIsValid, ProtocolHolds
  <2>3. ~OverShare(Cardinality(OfRepository(finals, r)), Cardinality(counted), p.share)
    <3> HIDE DEF finals, counted, p
    <3> QED BY <1>7
  <2>4. Cardinality(same) \in Nat
    <3>1. same \subseteq counted
      OBVIOUS
    <3> HIDE DEF same, counted
    <3> QED BY <1>4, <3>1, FS_Subset, FS_CardinalityType
  <2>5. ~OverShare(Cardinality(same), Cardinality(counted), p.share)
    <3> HIDE DEF finals, same, counted, p, r
    <3> QED BY <2>1, <2>3
  <2> HIDE DEF same, counted, p
  <2>6. 10 * Cardinality(same) <= Cardinality(counted)
    BY <1>3, <1>9, <2>2, <2>4, <2>5, ATenth
  <2> QED BY <2>6 DEF same
<1> HIDE DEF judged, counted, p
<1> QED BY <1>10, <1>11 DEF judged, counted, p

(* A finding with a final label and an adjudicator apart is one that        *)
(* readiness takes for labelled, whatever the protocol's minimum.           *)
LEMMA SettledIsLabeled ==
  ASSUME NEW labels, labels \in Seq(Range(labels)), NEW known, NEW studyId, RowsHold(labels, known, studyId),
         NEW id, NEW minimum, FinalLabels(labels, id, minimum) # {}, AdjudicatorsApart(labels, id)
  PROVE  FindingIsLabeled(labels, id, 2)
<1> DEFINE own == Independent(labels, id)
           settled == Adjudicating(labels, id)
           first == RatersOf(labels, InRound(labels, own, "blind_first"))
           second == RatersOf(labels, InRound(labels, own, "blind_second"))
<1>1. /\ Cardinality(first) = 1 /\ Cardinality(second) = 1 /\ first \cap second = {}
      /\ Cardinality(own) = Cardinality(RatersOf(labels, own))
      /\ ~(Cardinality(SaidIn(labels, own)) = 1 /\ settled # {})
  BY DEF FinalLabels
<1>2. PICK i \in DOMAIN labels, j \in DOMAIN labels : \E v : SettledBy(labels, id, minimum, i, j, v)
  BY FinalLabel
<1>3. own = {i, j} /\ labels[i].rater # labels[j].rater
  BY <1>2 DEF SettledBy
<1>4. Cardinality(RatersOf(labels, own)) = 2
  <2>1. RatersOf(labels, own) = {labels[i].rater, labels[j].rater}
    BY <1>3 DEF RatersOf
  <2>2. Cardinality({labels[i].rater, labels[j].rater}) = 2
    BY <1>3, TwoAreTwo
  <2> QED BY <2>1, <2>2
<1>5. ASSUME Cardinality(SaidIn(labels, own)) > 1
      PROVE  /\ settled # {} /\ Cardinality(SaidIn(labels, settled)) = 1
             /\ RatersOf(labels, settled) \cap RatersOf(labels, own) = {}
  <2>1. PICK v : SettledBy(labels, id, minimum, i, j, v)
    BY <1>2
  <2>2. SaidIn(labels, settled) = {v}
    <3>1. SUFFICES ASSUME labels[i].label = v, labels[j].label = v PROVE FALSE
      BY <2>1 DEF SettledBy
    <3>2. SaidIn(labels, own) = {v}
      BY <1>3, <3>1 DEF SaidIn
    <3>3. Cardinality({v}) = 1
      BY FS_Singleton
    <3>4. Cardinality(SaidIn(labels, own)) = 1
      BY <3>2, <3>3
    <3> HIDE DEF own
    <3> QED BY <1>5, <3>4
  <2>3. settled # {}
    BY <2>2 DEF SaidIn
  <2>4. Cardinality({v}) = 1
    BY FS_Singleton
  <2>5. Cardinality(SaidIn(labels, settled)) = 1
    BY <2>2, <2>4
  <2> QED BY <2>3, <2>5 DEF AdjudicatorsApart
<1> HIDE DEF own, settled, first, second
<1>6. Cardinality(RatersOf(labels, own)) >= 2
  BY <1>4
<1> QED BY <1>1, <1>5, <1>6 DEF FindingIsLabeled, own, settled, first, second

(* What readiness takes for labelled has a final label for two raters, and  *)
(* an adjudicator apart.                                                    *)
LEMMA LabeledIsSettled ==
  ASSUME NEW labels, labels \in Seq(Range(labels)), NEW id, FindingIsLabeled(labels, id, 2)
  PROVE  FinalLabels(labels, id, 2) # {} /\ AdjudicatorsApart(labels, id)
<1> DEFINE own == Independent(labels, id)
           settled == Adjudicating(labels, id)
           first == RatersOf(labels, InRound(labels, own, "blind_first"))
           second == RatersOf(labels, InRound(labels, own, "blind_second"))
           said == SaidIn(labels, own)
<1>1. /\ Cardinality(RatersOf(labels, own)) >= 2 /\ Cardinality(own) = Cardinality(RatersOf(labels, own))
      /\ Cardinality(first) = 1 /\ Cardinality(second) = 1 /\ first \cap second = {}
      /\ Cardinality(said) > 1 => /\ settled # {} /\ Cardinality(SaidIn(labels, settled)) = 1
                                  /\ RatersOf(labels, settled) \cap RatersOf(labels, own) = {}
  BY DEF FindingIsLabeled
<1>2. Cardinality(said) = 1 => settled = {}
  BY DEF FindingIsLabeled
<1>3. own \subseteq DOMAIN labels /\ settled \subseteq DOMAIN labels
  BY DEF Independent, Adjudicating
<1> HIDE DEF own, settled, first, second
<1>4. Cardinality(said) # 0
  BY <1>1, <1>3, RatersAreFinite
<1>5. Cardinality(said) \in Nat
  BY <1>3, RatersAreFinite, FS_CardinalityType
<1>6. settled = {} => SaidIn(labels, settled) = {} /\ RatersOf(labels, settled) = {}
  BY DEF SaidIn, RatersOf
<1>7. Cardinality(SaidIn(labels, settled)) \in {0, 1}
  BY <1>1, <1>2, <1>4, <1>5, <1>6, FS_EmptySet
<1>8. said # {}
  BY <1>4, FS_EmptySet
<1>9. Cardinality(said) # 1 => SaidIn(labels, settled) # {}
  <2>1. SaidIn(labels, settled) = {} => Cardinality(SaidIn(labels, settled)) = 0
    BY FS_EmptySet
  <2> QED BY <1>1, <1>4, <1>5, <2>1
<1>10. RatersOf(labels, settled) \cap RatersOf(labels, own) = {}
  BY <1>1, <1>2, <1>4, <1>5, <1>6
<1> HIDE DEF said
<1>11. FinalLabels(labels, id, 2) = IF Cardinality(said) = 1 THEN said ELSE SaidIn(labels, settled)
  <2>1. ~(Cardinality(RatersOf(labels, own)) < 2)
    <3>1. Cardinality(RatersOf(labels, own)) \in Nat
      BY <1>3, RatersAreFinite, FS_CardinalityType
    <3> QED BY <1>1, <3>1
  <2>2. ~(Cardinality(SaidIn(labels, settled)) > 1)
    BY <1>7
  <2> QED BY <1>1, <1>2, <2>1, <2>2 DEF FinalLabels, own, settled, first, second, said
<1> QED BY <1>8, <1>9, <1>10, <1>11 DEF AdjudicatorsApart, own, settled

(* A worklist that verifies for a claim verifies for readiness, which knows *)
(* neither the protocol nor its digests.                                    *)
LEMMA VerifiesWithLess ==
  ASSUME NEW dir, NEW labels, NEW b, NEW p, NEW digest, p.studyId = b.studyId,
         WorklistVerifies(dir, labels,
           [bundle |-> b, studyId |-> p.studyId, artifactSet |-> <<>>, protocol |-> <<p>>, digest |-> digest])
  PROVE  WorklistVerifies(dir, labels, Context(b))
<1> DEFINE ctx == [bundle |-> b, studyId |-> p.studyId, artifactSet |-> <<>>, protocol |-> <<p>>, digest |-> digest]
           m == ManifestOf(dir)
<1>1. /\ ctx.bundle = b /\ ctx.studyId = b.studyId
      /\ Context(b).bundle = b /\ Context(b).studyId = b.studyId
      /\ Context(b).artifactSet = <<>> /\ Context(b).protocol = <<>> /\ Context(b).digest = <<>>
  BY DEF Context
<1>2. ProtocolBound(m, <<>>)
  BY DEF ProtocolBound
<1> HIDE DEF ctx
<1>3. WorklistVerifies(dir, labels, ctx)
  BY DEF ctx
<1>4. ASSUME NEW e \in m.assignments PROVE AssignmentHolds(dir.files[e.path], e, m, Context(b), labels)
  <2>1. AssignmentHolds(dir.files[e.path], e, m, ctx, labels)
    BY <1>3 DEF WorklistVerifies
  <2> QED BY <1>1, <2>1, Zenon DEF AssignmentHolds
<1>5. /\ ManifestPath \in DOMAIN dir.files /\ dir.intact /\ dir.sums = DOMAIN dir.files
      /\ ShapeHolds(m) /\ m.studyId = b.studyId /\ m.bundle.preLabel = b.preLabel
      /\ ManifestConsistent(m) /\ DeclaredFiles(dir)
      /\ \A i \in DOMAIN labels : labels[i].round \in RoundsOf(dir) => RowIsAssigned(dir, labels[i])
  BY <1>1, <1>3, Zenon DEF WorklistVerifies
<1> QED BY <1>1, <1>2, <1>4, <1>5, Zenon DEF WorklistVerifies

LEMMA LeastIsMin ==
  ASSUME NEW S, S \subseteq Int, NEW m \in S, \A y \in S : m <= y
  PROVE  Min(S) = m
<1>1. m \in S /\ \A y \in S : m =< y
  OBVIOUS
<1>2. Min(S) \in S /\ \A y \in S : Min(S) =< y
  BY <1>1, Zenon DEF Min
<1>3. Min(S) \in Int /\ m \in Int /\ m <= Min(S) /\ Min(S) <= m
  BY <1>1, <1>2
<1> QED BY <1>3

(* The first of two places, and of one, that has a key.                     *)
LEMMA SettingOfTwo ==
  ASSUME NEW x, NEW y, NEW key, NEW default
  PROVE  Setting(<<x, y>>, key, default)
           = IF key \in DOMAIN x THEN x[key] ELSE IF key \in DOMAIN y THEN y[key] ELSE default
<1> DEFINE places == <<x, y>>
           having == {i \in DOMAIN places : key \in DOMAIN places[i]}
<1>1. DOMAIN places = {1, 2} /\ places[1] = x /\ places[2] = y
  OBVIOUS
<1> HIDE DEF places
<1>2. having \subseteq {1, 2} /\ (1 \in having <=> key \in DOMAIN x) /\ (2 \in having <=> key \in DOMAIN y)
  BY <1>1
<1> HIDE DEF having
<1>3. 1 \in having => Min(having) = 1
  <2>1. having \subseteq Int /\ \A i \in having : 1 <= i
    BY <1>2
  <2> QED BY <2>1, LeastIsMin
<1>4. 1 \notin having /\ 2 \in having => Min(having) = 2
  <2>1. having \subseteq Int /\ (1 \notin having => \A i \in having : 2 <= i)
    BY <1>2
  <2> QED BY <2>1, LeastIsMin
<1>5. Setting(places, key, default) = IF having = {} THEN default ELSE places[Min(having)][key]
  BY DEF Setting, having
<1>6. CASE key \in DOMAIN x
  BY <1>1, <1>2, <1>3, <1>5, <1>6 DEF places
<1>7. CASE key \notin DOMAIN x /\ key \in DOMAIN y
  BY <1>1, <1>2, <1>4, <1>5, <1>7 DEF places
<1>8. CASE key \notin DOMAIN x /\ key \notin DOMAIN y
  <2>1. having = {}
    BY <1>2, <1>8
  <2> QED BY <1>5, <1>8, <2>1 DEF places
<1> QED BY <1>6, <1>7, <1>8

LEMMA SettingOfOne ==
  ASSUME NEW x, NEW key, NEW default
  PROVE  Setting(<<x>>, key, default) = IF key \in DOMAIN x THEN x[key] ELSE default
<1> DEFINE places == <<x>>
           having == {i \in DOMAIN places : key \in DOMAIN places[i]}
<1>1. DOMAIN places = {1} /\ places[1] = x
  OBVIOUS
<1> HIDE DEF places
<1>2. having \subseteq {1} /\ (1 \in having <=> key \in DOMAIN x)
  BY <1>1
<1> HIDE DEF having
<1>3. 1 \in having => Min(having) = 1
  <2>1. having \subseteq Int /\ \A i \in having : 1 <= i
    BY <1>2
  <2> QED BY <2>1, LeastIsMin
<1>4. Setting(places, key, default) = IF having = {} THEN default ELSE places[Min(having)][key]
  BY DEF Setting, having
<1> QED BY <1>1, <1>2, <1>3, <1>4 DEF places

(* The first of three places has it.                                        *)
LEMMA SettingOfFirst ==
  ASSUME NEW x, NEW y, NEW z, NEW key \in DOMAIN x, NEW default
  PROVE  Setting(<<x, y, z>>, key, default) = x[key]
<1> DEFINE places == <<x, y, z>>
           having == {i \in DOMAIN places : key \in DOMAIN places[i]}
<1>1. DOMAIN places = 1..3 /\ places[1] = x
  OBVIOUS
<1> HIDE DEF places
<1>2. having \subseteq 1..3 /\ 1 \in having
  BY <1>1
<1> HIDE DEF having
<1>3. Min(having) = 1
  <2>1. having \subseteq Int /\ \A i \in having : 1 <= i
    BY <1>2
  <2> QED BY <1>2, <2>1, LeastIsMin
<1>4. Setting(places, key, default) = IF having = {} THEN default ELSE places[Min(having)][key]
  BY DEF Setting, having
<1> QED BY <1>1, <1>2, <1>3, <1>4 DEF places

(* What binding leaves where it was: every setting that is not a digest.    *)
LEMMA BoundKeeps ==
  ASSUME NEW p, NEW digests,
         {"schema", "studyId", "claim", "top", "plan", "review", "share", "exclusions"} \subseteq DOMAIN p
  PROVE  LET q == BindWorklists(p, digests)
         IN /\ q.schema = p.schema /\ q.studyId = p.studyId /\ q.review = p.review /\ q.share = p.share
            /\ q.exclusions = p.exclusions
            /\ \A key, default : key \notin DigestKeys => Claimed(q, key, default) = Claimed(p, key, default)
            /\ \A key, default :
                 key \notin DigestKeys => Setting(<<q.plan>>, key, default) = Setting(<<p.plan>>, key, default)
            /\ WorklistDigests(q) = digests
<1> DEFINE q == BindWorklists(p, digests)
           claim == IF p.claim = <<>> THEN <<>> ELSE p.claim[1]
           part == [k \in (DOMAIN claim \ DigestKeys) \cup {"worklists"} |-> IF k = "worklists" THEN digests ELSE claim[k]]
<1>1. /\ q.schema = p.schema /\ q.studyId = p.studyId /\ q.review = p.review /\ q.share = p.share
      /\ q.exclusions = p.exclusions
  BY DEF BindWorklists
<1>2. /\ q.claim = <<part>> /\ q.top = WithoutKeys(p.top, DigestKeys) /\ q.plan = WithoutKeys(p.plan, DigestKeys)
  BY DEF BindWorklists
<1> HIDE DEF q
<1>3. ClaimPart(q) = part
  BY <1>2 DEF ClaimPart
<1>4. ASSUME NEW r, NEW key, key \notin DigestKeys
      PROVE  (key \in DOMAIN WithoutKeys(r, DigestKeys) <=> key \in DOMAIN r)
             /\ (key \in DOMAIN r => WithoutKeys(r, DigestKeys)[key] = r[key])
  BY <1>4 DEF WithoutKeys
<1>5. ASSUME NEW key, key \notin DigestKeys
      PROVE  (key \in DOMAIN part <=> key \in DOMAIN claim) /\ (key \in DOMAIN claim => part[key] = claim[key])
  <2>1. key # "worklists"
    BY <1>5 DEF DigestKeys
  <2> QED BY <1>5, <2>1
<1>6. "worklists" \in DOMAIN part /\ part["worklists"] = digests
  OBVIOUS
<1>7. DOMAIN <<>> = {}
  OBVIOUS
<1> HIDE DEF part
<1>8. ASSUME NEW key, NEW default, key \notin DigestKeys
      PROVE  Claimed(q, key, default) = Claimed(p, key, default)
  <2>1. Claimed(q, key, default)
          = IF key \in DOMAIN claim THEN claim[key] ELSE IF key \in DOMAIN p.top THEN p.top[key] ELSE default
    BY <1>2, <1>3, <1>4, <1>5, <1>8, SettingOfTwo DEF Claimed
  <2>2. CASE p.claim = <<>>
    <3>1. ClaimPart(p) = p.top /\ key \notin DOMAIN claim
      BY <1>7, <2>2 DEF ClaimPart
    <3> QED BY <2>1, <3>1, SettingOfTwo DEF Claimed
  <2>3. CASE p.claim # <<>>
    <3>1. ClaimPart(p) = claim
      BY <2>3 DEF ClaimPart
    <3> QED BY <2>1, <3>1, SettingOfTwo DEF Claimed
  <2> QED BY <2>2, <2>3
<1>9. ASSUME NEW key, NEW default, key \notin DigestKeys
      PROVE  Setting(<<q.plan>>, key, default) = Setting(<<p.plan>>, key, default)
  BY <1>2, <1>4, <1>9, SettingOfOne
<1>10. WorklistDigests(q) = digests
  BY <1>3, <1>6, SettingOfFirst DEF WorklistDigests
<1> QED BY <1>1, <1>8, <1>9, <1>10, Zenon DEF q

(* Whether a protocol demands an external rater, and how it reads with the  *)
(* digests of some worklists (normalizeProtocol).                           *)
Demanded(p) == Setting(<<p.plan>>, "external", AtLeast(Claimed(p, "minimum", <<99, 100>>), <<99, 100>>))
ReadsWith(p, digests) ==
  [studyId |-> p.studyId, metric |-> Claimed(p, "metric", "blocking_precision"),
   toolCommit |-> Claimed(p, "toolCommit", ""), artifactSet |-> Claimed(p, "artifactSet", <<>>),
   preLabel |-> Claimed(p, "preLabel", <<>>), rules |-> Claimed(p, "includedRules", {}),
   severities |-> Claimed(p, "blockingSeverities", {"error"}), exclusions |-> NormalRules(p.exclusions),
   minimum |-> Claimed(p, "minimum", <<99, 100>>), confidence |-> Claimed(p, "confidence", <<95, 100>>),
   raters |-> Setting(<<p.plan>>, "raters", 2), types |-> Setting(<<p.plan>>, "types", {}),
   nonHuman |-> Setting(<<p.plan>>, "nonHuman", TRUE), known |-> Setting(<<p.plan>>, "known", FALSE),
   external |-> Demanded(p),
   externalTypes |-> Setting(<<p.plan>>, "externalTypes", {"human", "organization"}),
   minimumExternal |-> Setting(<<p.plan>>, "minimumExternal", IF Demanded(p) THEN 1 ELSE 0),
   worklists |-> digests, manifestReview |-> Setting(<<p.review>>, "required", FALSE),
   reviewerTypes |-> Setting(<<p.review>>, "types", {"human", "organization"}),
   share |-> IF p.share = <<>> THEN <<1, 10>> ELSE p.share[1]]

LEMMA ReadsAnew ==
  ASSUME NEW p, NEW old, NEW new
  PROVE  [ReadsWith(p, old) EXCEPT !.worklists = new] = ReadsWith(p, new)
<1> DEFINE x1 == p.studyId
           x2 == Claimed(p, "metric", "blocking_precision")
           x3 == Claimed(p, "toolCommit", "")
           x4 == Claimed(p, "artifactSet", <<>>)
           x5 == Claimed(p, "preLabel", <<>>)
           x6 == Claimed(p, "includedRules", {})
           x7 == Claimed(p, "blockingSeverities", {"error"})
           x8 == NormalRules(p.exclusions)
           x9 == Claimed(p, "minimum", <<99, 100>>)
           x10 == Claimed(p, "confidence", <<95, 100>>)
           x11 == Setting(<<p.plan>>, "raters", 2)
           x12 == Setting(<<p.plan>>, "types", {})
           x13 == Setting(<<p.plan>>, "nonHuman", TRUE)
           x14 == Setting(<<p.plan>>, "known", FALSE)
           x15 == Demanded(p)
           x16 == Setting(<<p.plan>>, "externalTypes", {"human", "organization"})
           x17 == Setting(<<p.plan>>, "minimumExternal", IF Demanded(p) THEN 1 ELSE 0)
           x18 == Setting(<<p.review>>, "required", FALSE)
           x19 == Setting(<<p.review>>, "types", {"human", "organization"})
           x20 == IF p.share = <<>> THEN <<1, 10>> ELSE p.share[1]
<1>1. \A w : ReadsWith(p, w) =
        [studyId |-> x1, metric |-> x2, toolCommit |-> x3, artifactSet |-> x4, preLabel |-> x5,
         rules |-> x6, severities |-> x7, exclusions |-> x8, minimum |-> x9, confidence |-> x10,
         raters |-> x11, types |-> x12, nonHuman |-> x13, known |-> x14, external |-> x15,
         externalTypes |-> x16, minimumExternal |-> x17, worklists |-> w, manifestReview |-> x18,
         reviewerTypes |-> x19, share |-> x20]
  BY Zenon DEF ReadsWith
<1> HIDE DEF x1, x2, x3, x4, x5, x6, x7, x8, x9, x10, x11, x12, x13, x14, x15, x16, x17, x18, x19,
             x20
<1>2. [[studyId |-> x1, metric |-> x2, toolCommit |-> x3, artifactSet |-> x4, preLabel |-> x5,
        rules |-> x6, severities |-> x7, exclusions |-> x8, minimum |-> x9, confidence |-> x10,
        raters |-> x11, types |-> x12, nonHuman |-> x13, known |-> x14, external |-> x15,
        externalTypes |-> x16, minimumExternal |-> x17, worklists |-> old, manifestReview |-> x18,
        reviewerTypes |-> x19, share |-> x20]
         EXCEPT !.worklists = new]
        = [studyId |-> x1, metric |-> x2, toolCommit |-> x3, artifactSet |-> x4, preLabel |-> x5,
           rules |-> x6, severities |-> x7, exclusions |-> x8, minimum |-> x9, confidence |-> x10,
           raters |-> x11, types |-> x12, nonHuman |-> x13, known |-> x14, external |-> x15,
           externalTypes |-> x16, minimumExternal |-> x17, worklists |-> new, manifestReview |-> x18,
           reviewerTypes |-> x19, share |-> x20]
  OBVIOUS
<1> QED BY <1>1, <1>2, Zenon

LEMMA ProtocolReads ==
  ASSUME NEW p
  PROVE  NormalizeProtocol(p) = ReadsWith(p, WorklistDigests(p))
BY Zenon DEF NormalizeProtocol, ReadsWith, Demanded

(* A protocol that was bound reads as it did, but for its digests.          *)
LEMMA BoundReads ==
  ASSUME NEW p, NEW digests,
         {"schema", "studyId", "claim", "top", "plan", "review", "share", "exclusions"} \subseteq DOMAIN p
  PROVE  NormalizeProtocol(BindWorklists(p, digests)) = [NormalizeProtocol(p) EXCEPT !.worklists = digests]
<1> DEFINE q == BindWorklists(p, digests)
<1>1. /\ q.studyId = p.studyId /\ q.review = p.review /\ q.share = p.share /\ q.exclusions = p.exclusions
      /\ WorklistDigests(q) = digests
  BY BoundKeeps, Zenon
<1>2. \A key, default : key \notin DigestKeys => Claimed(q, key, default) = Claimed(p, key, default)
  BY BoundKeeps, Zenon
<1>3. \A key, default : key \notin DigestKeys => Setting(<<q.plan>>, key, default) = Setting(<<p.plan>>, key, default)
  BY BoundKeeps, Zenon
<1>4. \A key \in {"metric", "toolCommit", "artifactSet", "preLabel", "includedRules", "blockingSeverities",
                   "minimum", "confidence", "external", "raters", "types", "nonHuman", "known", "externalTypes",
                   "minimumExternal"} : key \notin DigestKeys
  BY DEF DigestKeys
<1> HIDE DEF q
<1>5. \A default :
        /\ Claimed(q, "metric", default) = Claimed(p, "metric", default)
        /\ Claimed(q, "toolCommit", default) = Claimed(p, "toolCommit", default)
        /\ Claimed(q, "artifactSet", default) = Claimed(p, "artifactSet", default)
        /\ Claimed(q, "preLabel", default) = Claimed(p, "preLabel", default)
        /\ Claimed(q, "includedRules", default) = Claimed(p, "includedRules", default)
        /\ Claimed(q, "blockingSeverities", default) = Claimed(p, "blockingSeverities", default)
        /\ Claimed(q, "minimum", default) = Claimed(p, "minimum", default)
        /\ Claimed(q, "confidence", default) = Claimed(p, "confidence", default)
  BY <1>2, <1>4
<1>6. \A default :
        /\ Setting(<<q.plan>>, "external", default) = Setting(<<p.plan>>, "external", default)
        /\ Setting(<<q.plan>>, "raters", default) = Setting(<<p.plan>>, "raters", default)
        /\ Setting(<<q.plan>>, "types", default) = Setting(<<p.plan>>, "types", default)
        /\ Setting(<<q.plan>>, "nonHuman", default) = Setting(<<p.plan>>, "nonHuman", default)
        /\ Setting(<<q.plan>>, "known", default) = Setting(<<p.plan>>, "known", default)
        /\ Setting(<<q.plan>>, "externalTypes", default) = Setting(<<p.plan>>, "externalTypes", default)
        /\ Setting(<<q.plan>>, "minimumExternal", default) = Setting(<<p.plan>>, "minimumExternal", default)
  BY <1>3, <1>4
<1>7. Demanded(q) = Demanded(p)
  <2>1. Claimed(q, "minimum", <<99, 100>>) = Claimed(p, "minimum", <<99, 100>>)
    BY <1>5
  <2>2. \A default : Setting(<<q.plan>>, "external", default) = Setting(<<p.plan>>, "external", default)
    BY <1>6
  <2> QED BY <2>1, <2>2, Zenon DEF Demanded
<1>8. /\ q.studyId = p.studyId
      /\ Claimed(q, "metric", "blocking_precision") = Claimed(p, "metric", "blocking_precision")
      /\ Claimed(q, "toolCommit", "") = Claimed(p, "toolCommit", "")
      /\ Claimed(q, "artifactSet", <<>>) = Claimed(p, "artifactSet", <<>>)
      /\ Claimed(q, "preLabel", <<>>) = Claimed(p, "preLabel", <<>>)
      /\ Claimed(q, "includedRules", {}) = Claimed(p, "includedRules", {})
      /\ Claimed(q, "blockingSeverities", {"error"}) = Claimed(p, "blockingSeverities", {"error"})
      /\ NormalRules(q.exclusions) = NormalRules(p.exclusions)
      /\ Claimed(q, "minimum", <<99, 100>>) = Claimed(p, "minimum", <<99, 100>>)
      /\ Claimed(q, "confidence", <<95, 100>>) = Claimed(p, "confidence", <<95, 100>>)
      /\ Setting(<<q.plan>>, "raters", 2) = Setting(<<p.plan>>, "raters", 2)
      /\ Setting(<<q.plan>>, "types", {}) = Setting(<<p.plan>>, "types", {})
      /\ Setting(<<q.plan>>, "nonHuman", TRUE) = Setting(<<p.plan>>, "nonHuman", TRUE)
      /\ Setting(<<q.plan>>, "known", FALSE) = Setting(<<p.plan>>, "known", FALSE)
      /\ Demanded(q) = Demanded(p)
      /\ Setting(<<q.plan>>, "externalTypes", {"human", "organization"}) = Setting(<<p.plan>>, "externalTypes", {"human", "organization"})
      /\ Setting(<<q.plan>>, "minimumExternal", IF Demanded(q) THEN 1 ELSE 0) = Setting(<<p.plan>>, "minimumExternal", IF Demanded(p) THEN 1 ELSE 0)
      /\ Setting(<<q.review>>, "required", FALSE) = Setting(<<p.review>>, "required", FALSE)
      /\ Setting(<<q.review>>, "types", {"human", "organization"}) = Setting(<<p.review>>, "types", {"human", "organization"})
      /\ (IF q.share = <<>> THEN <<1, 10>> ELSE q.share[1]) = (IF p.share = <<>> THEN <<1, 10>> ELSE p.share[1])
  BY <1>1, <1>5, <1>6, <1>7, ZenonT(30)
<1>9. ReadsWith(q, digests) = ReadsWith(p, digests)
  BY <1>8, ZenonT(60) DEF ReadsWith
<1>10. NormalizeProtocol(q) = [NormalizeProtocol(p) EXCEPT !.worklists = digests]
  <2>1. NormalizeProtocol(q) = ReadsWith(p, digests)
    BY <1>1, <1>9, ProtocolReads, Zenon
  <2>2. NormalizeProtocol(p) = ReadsWith(p, WorklistDigests(p))
    BY ProtocolReads
  <2>3. [ReadsWith(p, WorklistDigests(p)) EXCEPT !.worklists = digests] = ReadsWith(p, digests)
    BY ReadsAnew
  <2> QED BY <2>1, <2>2, <2>3, Zenon
<1> QED BY <1>10 DEF q

================================================================================
