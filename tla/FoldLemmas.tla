----------------------------- MODULE FoldLemmas -----------------------------
(***************************************************************************)
(* Induction, and folds that have a value.  A theorem of the library that  *)
(* takes a predicate as an operator cannot be instantiated by the provers  *)
(* at hand; these lemmas take it as a set, and a step as a function.       *)
(*                                                                         *)
(* FoldLeft and MapThenSumSet are one recursion over the subsets of a set, *)
(* which takes an element away at a time.  FoldExists says that such a     *)
(* recursion has a solution; a definition that chooses one satisfies its   *)
(* equation then, and Induction says what it computes.                     *)
(* A few facts about finite sets and sequences are at the end.             *)
(***************************************************************************)
EXTENDS Integers, FiniteSets, SequencesExt, FiniteSetTheorems, WellFoundedInduction, TLAPS

\* A set of numbers has a least one.
LEMMA LeastNatural ==
    ASSUME NEW P \in SUBSET Nat, P # {}
    PROVE  \E n \in P : \A m \in P : n <= m
<1> DEFINE R == OpToRel(<, Nat)
<1>1. IsWellFoundedOn(R, Nat)
  BY NatLessThanWellFounded
<1>2. \A m, n \in Nat : m < n => <<m, n>> \in R
  BY DEF OpToRel
<1> HIDE DEF R
<1>3. PICK n \in P : \A m \in P : ~(<<m, n>> \in R)
  BY <1>1, WFMin
<1>4. \A m \in P : ~(m < n)
  BY <1>2, <1>3, Zenon
<1>5. \A m \in P : n <= m
  BY <1>4
<1> QED BY <1>5

\* What holds of 0, and of n + 1 if it holds of n, holds of every number.
LEMMA Induction ==
    ASSUME NEW P, 0 \in P, \A n \in Nat : n \in P => n + 1 \in P
    PROVE  \A n \in Nat : n \in P
<1> SUFFICES ASSUME Nat \ P # {} PROVE FALSE
  OBVIOUS
<1>1. PICK n \in Nat \ P : \A m \in Nat \ P : n <= m
  BY LeastNatural
<1>2. n # 0 /\ n - 1 \in Nat
  BY <1>1
<1>3. n - 1 \in P
  BY <1>1, <1>2
<1> QED BY <1>1, <1>2, <1>3

\* The same, up to a bound.
LEMMA InductionUpTo ==
    ASSUME NEW n \in Nat, NEW P, 0 \in P,
           \A m \in 1..n : m - 1 \in P => m \in P
    PROVE  \A m \in 0..n : m \in P
<1> DEFINE Q == {m \in Nat : m <= n => m \in P}
<1>1. 0 \in Q
  OBVIOUS
<1>2. ASSUME NEW m \in Nat, m \in Q PROVE m + 1 \in Q
  <2> SUFFICES ASSUME m + 1 <= n PROVE m + 1 \in P
    OBVIOUS
  <2>1. m \in P /\ m + 1 \in 1..n /\ (m + 1) - 1 = m
    BY <1>2
  <2> QED BY <2>1
<1> HIDE DEF Q
<1>3. \A m \in Nat : m \in Q
  BY <1>1, <1>2, Induction
<1> QED BY <1>3 DEF Q

\* What holds of the empty set, and of a set if it holds of the set without
\* some element, holds of every subset of a finite set.
LEMMA SetInduction ==
    ASSUME NEW S, IsFiniteSet(S), NEW P, {} \in P,
           \A s \in SUBSET S : s # {} => \E x \in s : s \ {x} \in P => s \in P
    PROVE  \A s \in SUBSET S : s \in P
<1> DEFINE Q == {n \in Nat : \A s \in SUBSET S : Cardinality(s) = n => s \in P}
<1>1. \A s \in SUBSET S : IsFiniteSet(s) /\ Cardinality(s) \in Nat
  BY FS_Subset, FS_CardinalityType
<1>2. 0 \in Q
  BY <1>1, FS_EmptySet
<1>3. ASSUME NEW n \in Nat, n \in Q PROVE n + 1 \in Q
  <2> SUFFICES ASSUME NEW s \in SUBSET S, Cardinality(s) = n + 1 PROVE s \in P
    OBVIOUS
  <2>1. s # {}
    <3>1. Cardinality({}) = 0 /\ Cardinality(s) # 0
      BY FS_EmptySet
    <3> QED BY <3>1
  <2>2. PICK x \in s : s \ {x} \in P => s \in P
    BY <2>1
  <2>3. Cardinality(s \ {x}) = Cardinality(s) - 1
    BY <1>1, FS_RemoveElement
  <2>4. Cardinality(s \ {x}) = n
    BY <2>3
  <2>5. s \ {x} \in P
    BY <1>3, <2>4
  <2> QED BY <2>2, <2>5
<1> HIDE DEF Q
<1>4. \A n \in Nat : n \in Q
  BY <1>2, <1>3, Induction
<1> QED BY <1>1, <1>4 DEF Q

\* A step from a value and an element to a value; a way to pick an element of
\* a set; and the recursion of a fold, which takes away the element that is
\* picked and steps with it.
StaysIn(T, S, step) == \A t \in T, x \in S : step[<<t, x>>] \in T
Picks(choose, S) == \A s \in SUBSET S : s # {} => choose[s] \in s
IsFold(g, S, base, step, choose) ==
    \A s \in SUBSET S :
        g[s] = IF s = {} THEN base ELSE step[<<g[s \ {choose[s]}], choose[s]>>]

\* Such a recursion has a solution over the subsets of a finite set.
LEMMA FoldExists ==
    ASSUME NEW S, IsFiniteSet(S), NEW T, NEW base \in T,
           NEW step, StaysIn(T, S, step),
           NEW choose, Picks(choose, S)
    PROVE  \E g \in [SUBSET S -> T] : IsFold(g, S, base, step, choose)
<1> USE DEF StaysIn, Picks, IsFold
<1> DEFINE Small(n) == {s \in SUBSET S : Cardinality(s) <= n}
           Solves(g, n) == /\ g \in [Small(n) -> T]
                           /\ \A s \in Small(n) :
                                g[s] = IF s = {} THEN base
                                       ELSE step[<<g[s \ {choose[s]}], choose[s]>>]
           P == {n \in Nat : \E g : Solves(g, n)}
<1>1. \A s \in SUBSET S : IsFiniteSet(s) /\ Cardinality(s) \in Nat
  BY FS_Subset, FS_CardinalityType
<1>2. 0 \in P
  <2>1. Small(0) = {{}}
    BY <1>1, FS_EmptySet
  <2>2. Solves([s \in Small(0) |-> base], 0)
    BY <2>1
  <2> QED BY <2>2
<1>3. ASSUME NEW n \in Nat, n \in P PROVE n + 1 \in P
  <2>1. PICK g : Solves(g, n)
    BY <1>3
  <2>2. ASSUME NEW s \in Small(n + 1), s # {}
        PROVE  /\ choose[s] \in S /\ s \ {choose[s]} \in Small(n)
    <3>1. choose[s] \in s /\ IsFiniteSet(s)
      BY <1>1, <2>2
    <3>2. Cardinality(s \ {choose[s]}) = Cardinality(s) - 1
      BY <3>1, FS_RemoveElement
    <3>3. Cardinality(s \ {choose[s]}) <= n
      BY <1>1, <3>2
    <3> QED BY <3>1, <3>3
  <2>3. \A s \in Small(n) : s \in Small(n + 1)
    BY <1>1
  <2> DEFINE h == [s \in Small(n + 1) |->
                     IF s = {} THEN base ELSE step[<<g[s \ {choose[s]}], choose[s]>>]]
  <2> HIDE DEF Small
  <2>4. h \in [Small(n + 1) -> T]
    BY <2>1, <2>2
  <2>5. \A s \in Small(n) : h[s] = g[s]
    BY <2>1, <2>3
  <2>6. \A s \in Small(n + 1) :
           h[s] = IF s = {} THEN base ELSE step[<<h[s \ {choose[s]}], choose[s]>>]
    BY <2>2, <2>5
  <2> HIDE DEF h
  <2>7. Solves(h, n + 1)
    BY <2>4, <2>6
  <2> HIDE DEF Solves
  <2> QED BY <2>7
<1>4. \A n \in Nat : n \in P
  <2> HIDE DEF P
  <2> QED BY <1>2, <1>3, Induction
<1>5. PICK g : Solves(g, Cardinality(S))
  BY <1>1, <1>4
<1>6. Small(Cardinality(S)) = SUBSET S
  BY FS_Subset
<1> QED BY <1>5, <1>6

\* The order in which FoldLeft takes the places of a sequence.
LEMMA LastOf ==
    ASSUME NEW n \in Nat
    PROVE  /\ \A s \in SUBSET (1..n) : s # {} => Max(s) \in s
           /\ \A m \in 1..n : Max(1..m) = m /\ (1..m) \ {m} = 1..(m - 1) /\ 1..m # {}
<1>1. ASSUME NEW s \in SUBSET (1..n), s # {} PROVE Max(s) \in s
  <2> DEFINE above == {n - m : m \in s}
  <2>1. above \in SUBSET Nat /\ above # {}
    BY <1>1
  <2>2. PICK d \in above : \A e \in above : d <= e
    BY <2>1, LeastNatural
  <2>3. PICK m \in s : d = n - m
    BY <2>2
  <2>4. \A k \in s : m >= k
    <3> TAKE k \in s
    <3>1. n - m <= n - k
      BY <2>2, <2>3
    <3> QED BY <3>1
  <2> QED BY <2>4 DEF Max
<1>2. ASSUME NEW m \in 1..n PROVE Max(1..m) = m
  <2>1. m \in 1..m /\ \A k \in 1..m : m >= k
    OBVIOUS
  <2>2. \A k \in 1..m : (\A j \in 1..m : k >= j) => k = m
    OBVIOUS
  <2> QED BY <2>1, <2>2 DEF Max
<1>3. ASSUME NEW m \in 1..n PROVE (1..m) \ {m} = 1..(m - 1) /\ 1..m # {}
  <2>1. m \in 1..m
    OBVIOUS
  <2>2. \A k : k \in 1..m /\ k # m <=> k \in 1..(m - 1)
    OBVIOUS
  <2> QED BY <2>1, <2>2, Zenon
<1> QED BY <1>1, <1>2, <1>3

\* It has one solution only.
InStep(g, h, S, choose) ==
    /\ g[{}] = h[{}]
    /\ \A s \in SUBSET S :
          s # {} /\ g[s \ {choose[s]}] = h[s \ {choose[s]}] => g[s] = h[s]

LEMMA FoldsAgree ==
    ASSUME NEW S, IsFiniteSet(S), NEW choose, Picks(choose, S),
           NEW g, NEW h, InStep(g, h, S, choose)
    PROVE  g[S] = h[S]
<1> USE DEF InStep
<1> DEFINE P == {s \in SUBSET S : g[s] = h[s]}
<1>1. {} \in P
  OBVIOUS
<1>2. ASSUME NEW s \in SUBSET S, s # {} PROVE \E x \in s : s \ {x} \in P => s \in P
  <2>1. choose[s] \in s
    BY <1>2 DEF Picks
  <2>2. s \ {choose[s]} \in P => s \in P
    BY <1>2
  <2> QED BY <2>1, <2>2
<1> HIDE DEF P
<1>3. \A s \in SUBSET S : s \in P
  BY <1>1, <1>2, SetInduction
<1>4. S \in P
  BY <1>3
<1> QED BY <1>4 DEF P

\* FoldLeft takes the last place that is left.
LastIn(n) == [s \in SUBSET (1..n) |-> Max(s)]

\* FoldLeft's recursion has a solution, which steps through the places of a
\* sequence from the first to the last.
Steps(p, n, base, step) == p[0] = base /\ \A m \in 1..n : p[m] = step[<<p[m - 1], m>>]
LeadsTo(n, T, base, step, value) ==
    \E p \in [0..n -> T] : Steps(p, n, base, step) /\ value = p[n]

LEMMA FoldLeftExists ==
    ASSUME NEW n \in Nat, NEW T, NEW base \in T,
           NEW step, StaysIn(T, 1..n, step)
    PROVE  /\ IsFiniteSet(1..n) /\ Picks(LastIn(n), 1..n)
           /\ \E g \in [SUBSET (1..n) -> T] :
                 /\ IsFold(g, 1..n, base, step, LastIn(n))
                 /\ LeadsTo(n, T, base, step, g[1..n])
<1>1. Picks(LastIn(n), 1..n)
  BY LastOf DEF Picks, LastIn
<1>2. IsFiniteSet(1..n)
  BY FS_Interval
<1>3. PICK g \in [SUBSET (1..n) -> T] : IsFold(g, 1..n, base, step, LastIn(n))
  BY <1>1, <1>2, FoldExists
<1> DEFINE p == [m \in 0..n |-> g[1..m]]
<1>4. \A m \in 0..n : 1..m \in SUBSET (1..n)
  OBVIOUS
<1>5. p \in [0..n -> T]
  BY <1>4
<1>6. p[0] = base
  <2>1. 1..0 = {} /\ 0 \in 0..n /\ {} \in SUBSET (1..n)
    OBVIOUS
  <2>2. g[{}] = base
    BY <1>3, <2>1, Zenon DEF IsFold
  <2> QED BY <2>1, <2>2
<1>7. ASSUME NEW m \in 1..n PROVE p[m] = step[<<p[m - 1], m>>]
  <2>1. Max(1..m) = m /\ (1..m) \ {m} = 1..(m - 1) /\ 1..m # {} /\ 1..m \in SUBSET (1..n)
    BY <1>4, LastOf
  <2>2. LastIn(n)[1..m] = m
    BY <2>1 DEF LastIn
  <2>3. g[1..m] = step[<<g[1..(m - 1)], m>>]
    BY <1>3, <2>1, <2>2, Zenon DEF IsFold
  <2> QED BY <2>3
<1> HIDE DEF p
<1>8. g[1..n] = p[n]
  BY DEF p
<1>9. LeadsTo(n, T, base, step, g[1..n])
  BY <1>5, <1>6, <1>7, <1>8 DEF Steps, LeadsTo
<1> QED BY <1>1, <1>2, <1>3, <1>9

\* A function over the places of a sequence is one.
LEMMA IsSequence ==
    ASSUME NEW n, NEW S, NEW seq, n \in Nat, seq \in [1..n -> S]
    PROVE  seq \in Seq(S) /\ Len(seq) = n
OBVIOUS

\* The image of a finite set is finite.
LEMMA ImageFinite ==
    ASSUME NEW S, IsFiniteSet(S), NEW f
    PROVE  IsFiniteSet({f[x] : x \in S})
<1> DEFINE T == {f[x] : x \in S}
           g == [x \in S |-> f[x]]
<1>1. g \in Surjection(S, T)
  BY DEF Surjection
<1> HIDE DEF T, g
<1>2. IsFiniteSet(T)
  BY <1>1, FS_Surjection
<1> QED BY <1>2 DEF T

\* A set without two members is finite.
LEMMA AtMostOne ==
    ASSUME NEW S, \A x, y \in S : x = y
    PROVE  IsFiniteSet(S) /\ Cardinality(S) <= 1 /\ Cardinality(S) \in Nat
<1>1. CASE S = {}
  <2>1. IsFiniteSet({}) /\ Cardinality({}) = 0
    BY FS_EmptySet
  <2> QED BY <1>1, <2>1
<1>2. CASE S # {}
  <2>1. PICK x \in S : TRUE
    BY <1>2
  <2>2. S = {x}
    BY <2>1
  <2>3. IsFiniteSet({x}) /\ Cardinality({x}) = 1
    BY FS_Singleton
  <2> QED BY <2>2, <2>3
<1> QED BY <1>1, <1>2
=============================================================================
