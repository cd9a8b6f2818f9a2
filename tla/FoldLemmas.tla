----------------------------- MODULE FoldLemmas -----------------------------
(***************************************************************************)
(* Induction, recursion and sums, as the proofs about folds need them.     *)
(* The induction principles speak of sets instead of predicates, so that a *)
(* prover of first-order logic can apply them.                             *)
(***************************************************************************)
EXTENDS Integers, Sequences, SequencesExt, FiniteSetsExt, FiniteSetTheorems, WellFoundedInduction, TLAPS

-----------------------------------------------------------------------------
(***************************************************************************)
(* Induction.                                                              *)
(***************************************************************************)

\* A set of finite subsets that has a member has one with no part in the set.
LEMMA SmallestSet ==
  ASSUME NEW S, NEW Bad, Bad \subseteq FiniteSubsetsOf(S), Bad # {}
  PROVE  \E T \in Bad : \A U \in Bad : U \subseteq T => U = T
<1>2. PICK T \in Bad : \A U \in Bad : <<U, T>> \notin StrictSubsetOrdering(S)
  <2>1. IsWellFoundedOn(StrictSubsetOrdering(S), FiniteSubsetsOf(S))
    BY FS_StrictSubsetOrderingWellFounded
  <2> QED
    BY <2>1, WFMin
<1> QED
  BY <1>2 DEF StrictSubsetOrdering, FiniteSubsetsOf

\* Induction over the natural numbers.
LEMMA NatSetInduction ==
  ASSUME NEW I, 0 \in I, \A n \in Nat : n \in I => n + 1 \in I
  PROVE  \A n \in Nat : n \in I
<1> SUFFICES ASSUME NEW bad \in Nat, bad \notin I
             PROVE  FALSE
  OBVIOUS
<1> DEFINE Bad == {1 .. n : n \in Nat \ I}
<1>0. \A n \in Nat : 1 .. n \in FiniteSubsetsOf(Nat)
  BY FS_Interval DEF FiniteSubsetsOf
<1>1. Bad \subseteq FiniteSubsetsOf(Nat) /\ Bad # {}
  BY <1>0
<1>2. PICK T \in Bad : \A U \in Bad : U \subseteq T => U = T
  <2> HIDE DEF Bad
  <2> QED
    BY <1>1, SmallestSet
<1>3. PICK n \in Nat \ I : T = 1 .. n
  OBVIOUS
<1>4. n - 1 \in Nat \ I
  OBVIOUS
<1>5. 1 .. n - 1 \in Bad /\ 1 .. n - 1 \subseteq T /\ 1 .. n - 1 # T
  BY <1>3, <1>4
<1> QED
  BY <1>2, <1>5

\* Induction over the subsets of a finite set, by adding elements.
LEMMA SubsetInduction ==
  ASSUME NEW S, IsFiniteSet(S), NEW I,
         \A T \in SUBSET S : (\A x \in T : T \ {x} \in I) => T \in I
  PROVE  \A T \in SUBSET S : T \in I
<1> SUFFICES ASSUME NEW bad \in SUBSET S, bad \notin I
             PROVE  FALSE
  OBVIOUS
<1> DEFINE Bad == {T \in SUBSET S : T \notin I}
<1>1. Bad \subseteq FiniteSubsetsOf(S) /\ Bad # {}
  BY FS_Subset DEF FiniteSubsetsOf
<1>2. PICK T \in Bad : \A U \in Bad : U \subseteq T => U = T
  <2> HIDE DEF Bad
  <2> QED
    BY <1>1, SmallestSet
<1>3. PICK x \in T : T \ {x} \notin I
  OBVIOUS
<1>4. T \ {x} \in Bad
  BY <1>3
<1> QED
  BY <1>2, <1>4

-----------------------------------------------------------------------------
(***************************************************************************)
(* Recursion over a finite set, from which "pick" takes one element after  *)
(* the other.                                                              *)
(***************************************************************************)
IsFold(g, S, base, pick, step) ==
  \A s \in SUBSET S :
    g[s] = IF s = {} THEN base ELSE step[<<pick[s], g[s \ {pick[s]}]>>]

LEMMA FoldUnique ==
  ASSUME NEW S, IsFiniteSet(S), NEW base, NEW pick, NEW step, NEW g, NEW h,
         \A s \in SUBSET S : s # {} => pick[s] \in s,
         IsFold(g, S, base, pick, step), IsFold(h, S, base, pick, step)
  PROVE  g[S] = h[S]
<1> DEFINE I == {T \in SUBSET S : g[T] = h[T]}
<1>1. ASSUME NEW T \in SUBSET S, \A x \in T : T \ {x} \in I
      PROVE  T \in I
  BY <1>1 DEF IsFold
<1> HIDE DEF I
<1>2. \A T \in SUBSET S : T \in I
  BY <1>1, SubsetInduction
<1> QED
  BY <1>2 DEF I

LEMMA FoldExists ==
  ASSUME NEW S, IsFiniteSet(S), NEW V, NEW base \in V, NEW pick,
         NEW step \in [S \X V -> V],
         \A s \in SUBSET S : s # {} => pick[s] \in s
  PROVE  \E g \in [SUBSET S -> V] : IsFold(g, S, base, pick, step)
<1> DEFINE Sol(g, T) == g \in [SUBSET T -> V] /\ IsFold(g, T, base, pick, step)
           I == {T \in SUBSET S : \E g : Sol(g, T)}
<1>1. ASSUME NEW T \in SUBSET S, \A x \in T : T \ {x} \in I
      PROVE  T \in I
  <2> DEFINE H == [x \in T |-> CHOOSE g : Sol(g, T \ {x})]
  <2>0. \A x \in T : Sol(H[x], T \ {x})
    BY <1>1
  <2>1. PICK G : \A x \in T : Sol(G[x], T \ {x})
    <3> HIDE DEF H, Sol
    <3> QED
      BY <2>0
  <2> DEFINE other(s) == CHOOSE x \in T : x \notin s
             g == [s \in SUBSET T |->
                     IF s = {} THEN base
                     ELSE IF s = T THEN step[<<pick[T], G[pick[T]][T \ {pick[T]}]>>]
                     ELSE G[other(s)][s]]
  <2>a. ASSUME NEW x \in T, NEW s \in SUBSET (T \ {x})
        PROVE  /\ G[x][s] \in V
               /\ G[x][s] = IF s = {} THEN base ELSE step[<<pick[s], G[x][s \ {pick[s]}]>>]
    <3>1. Sol(G[x], T \ {x})
      BY <2>1
    <3>2. G[x] \in [SUBSET (T \ {x}) -> V] /\ IsFold(G[x], T \ {x}, base, pick, step)
      BY <3>1
    <3> HIDE DEF Sol
    <3> QED
      BY <3>2 DEF IsFold
  <2>2. ASSUME NEW x \in T, NEW y \in T, NEW s \in SUBSET T, x \notin s, y \notin s
        PROVE  G[x][s] = G[y][s]
    <3>1. IsFold(G[x], s, base, pick, step)
      BY <2>2, <2>a DEF IsFold
    <3>2. IsFold(G[y], s, base, pick, step)
      BY <2>2, <2>a DEF IsFold
    <3>3. IsFiniteSet(s) /\ \A t \in SUBSET s : t # {} => pick[t] \in t
      BY FS_Subset
    <3> QED
      BY <3>1, <3>2, <3>3, FoldUnique
  <2>3. ASSUME NEW x \in T, NEW s \in SUBSET T, x \notin s
        PROVE  g[s] = G[x][s]
    <3>1. CASE s = {}
      BY <2>a, <3>1
    <3>2. CASE s # {}
      <4>1. s # T /\ g[s] = G[other(s)][s]
        BY <2>3, <3>2
      <4>2. other(s) \in T /\ other(s) \notin s
        BY <2>3
      <4>3. G[other(s)][s] = G[x][s]
        <5> HIDE DEF other
        <5> QED
          BY <2>2, <2>3, <4>2
      <4> QED
        BY <4>1, <4>3
    <3> QED
      BY <3>1, <3>2
  <2>4. ASSUME NEW s \in SUBSET T, s # {}
        PROVE  g[s] = step[<<pick[s], g[s \ {pick[s]}]>>]
    <3>0. pick[s] \in s
      BY <2>4
    <3>1. CASE s = T
      <4>1. g[s] = step[<<pick[T], G[pick[T]][T \ {pick[T]}]>>]
        BY <2>4, <3>1
      <4> HIDE DEF g
      <4> QED
        BY <2>3, <3>0, <3>1, <4>1
    <3>2. CASE s # T
      <4>1. PICK x \in T : x \notin s
        BY <3>2
      <4> HIDE DEF g
      <4> QED
        BY <2>3, <2>4, <2>a, <4>1
    <3> QED
      BY <3>1, <3>2
  <2>5. g[{}] = base
    OBVIOUS
  <2>6. ASSUME NEW s \in SUBSET T
        PROVE  g[s] \in V
    <3>1. CASE s # T
      <4>1. PICK x \in T : x \notin s
        BY <3>1
      <4> HIDE DEF g
      <4> QED
        BY <2>3, <2>a, <4>1
    <3>2. CASE s = T /\ s # {}
      <4>1. pick[T] \in T
        BY <3>2
      <4>2. g[T \ {pick[T]}] \in V
        <5> HIDE DEF g
        <5> QED
          BY <2>3, <2>a, <4>1
      <4>3. g[s] = step[<<pick[T], g[T \ {pick[T]}]>>]
        BY <2>4, <3>2
      <4> HIDE DEF g
      <4> QED
        BY <3>2, <4>1, <4>2, <4>3
    <3> QED
      BY <2>5, <3>1, <3>2
  <2>7. g = [s \in SUBSET T |-> g[s]]
    OBVIOUS
  <2> HIDE DEF g
  <2>8. Sol(g, T)
    BY <2>4, <2>5, <2>6, <2>7 DEF IsFold
  <2> QED
    BY <2>8
<1> HIDE DEF I
<1>2. \A U \in SUBSET S : U \in I
  BY <1>1, SubsetInduction
<1> QED
  BY <1>2 DEF I

-----------------------------------------------------------------------------
(***************************************************************************)
(* Sums.                                                                   *)
(***************************************************************************)
SumOver(f, S) == MapThenSumSet(LAMBDA i : f[i], S)

AnyOf(s) == CHOOSE x \in s : TRUE

SumSolution(f, S) ==
  CHOOSE iter : iter =
    [s \in SUBSET S |->
       IF s = {} THEN 0
       ELSE f[CHOOSE x \in s : TRUE] + iter[s \ {CHOOSE x \in s : TRUE}]]

LEMMA SumSolves ==
  ASSUME NEW S, IsFiniteSet(S), NEW f, \A x \in S : f[x] \in Int
  PROVE  /\ SumOver(f, S) = SumSolution(f, S)[S]
         /\ \A s \in SUBSET S : SumSolution(f, S)[s] =
              IF s = {} THEN 0
              ELSE f[AnyOf(s)] + SumSolution(f, S)[s \ {AnyOf(s)}]
<1> DEFINE pick == [s \in SUBSET S |-> CHOOSE x \in s : TRUE]
           step == [p \in S \X Int |-> f[p[1]] + p[2]]
           Eq(g) == g = [s \in SUBSET S |->
                           IF s = {} THEN 0
                           ELSE f[CHOOSE x \in s : TRUE] + g[s \ {CHOOSE x \in s : TRUE}]]
<1>1. step \in [S \X Int -> Int] /\ \A s \in SUBSET S : s # {} => pick[s] \in s
  OBVIOUS
<1>2. PICK g \in [SUBSET S -> Int] : IsFold(g, S, 0, pick, step)
  <2>1. 0 \in Int
    OBVIOUS
  <2> HIDE DEF pick, step
  <2> QED
    BY <1>1, <2>1, FoldExists
<1>3. Eq(g)
  <2>1. ASSUME NEW s \in SUBSET S, s # {}
        PROVE  g[s] = f[CHOOSE x \in s : TRUE] + g[s \ {CHOOSE x \in s : TRUE}]
    <3>1. pick[s] = (CHOOSE x \in s : TRUE) /\ pick[s] \in S
      BY <2>1
    <3>2. g[s] = step[<<pick[s], g[s \ {pick[s]}]>>] /\ g[s \ {pick[s]}] \in Int
      BY <1>2, <2>1 DEF IsFold
    <3>3. step[<<pick[s], g[s \ {pick[s]}]>>] = f[pick[s]] + g[s \ {pick[s]}]
      <4> HIDE DEF pick
      <4> QED
        BY <3>1, <3>2
    <3> QED
      BY <3>1, <3>2, <3>3
  <2>2. g[{}] = 0
    BY <1>2 DEF IsFold
  <2> QED
    BY <1>2, <2>1, <2>2
<1>4. Eq(SumSolution(f, S))
  <2> HIDE DEF Eq
  <2>1. SumSolution(f, S) = CHOOSE h : Eq(h)
    BY DEF SumSolution, Eq
  <2> QED
    BY <1>3, <2>1
<1>5. SumOver(f, S) = SumSolution(f, S)[S]
  BY DEF SumOver, MapThenSumSet, MapThenFoldSet, SumSolution
<1> HIDE DEF pick, step
<1> QED
  BY <1>4, <1>5 DEF AnyOf

LEMMA SumEmpty == ASSUME NEW f PROVE SumOver(f, {}) = 0
BY SumSolves, FS_EmptySet

LEMMA SumPart ==
  ASSUME NEW S, IsFiniteSet(S), NEW f, \A x \in S : f[x] \in Int, NEW T \in SUBSET S
  PROVE  SumSolution(f, S)[T] = SumOver(f, T) /\ SumOver(f, T) \in Int
<1> DEFINE I == {U \in SUBSET T : /\ SumSolution(f, S)[U] = SumSolution(f, T)[U]
                                  /\ SumSolution(f, T)[U] \in Int}
<1>0. IsFiniteSet(T) /\ \A x \in T : f[x] \in Int
  BY FS_Subset
<1>s. \A s \in SUBSET S : SumSolution(f, S)[s] =
        IF s = {} THEN 0 ELSE f[AnyOf(s)] + SumSolution(f, S)[s \ {AnyOf(s)}]
  BY SumSolves
<1>1. ASSUME NEW U \in SUBSET T, \A x \in U : U \ {x} \in I
      PROVE  U \in I
  <2> DEFINE c == AnyOf(U)
  <2>1. SumSolution(f, S)[U] = IF U = {} THEN 0 ELSE f[c] + SumSolution(f, S)[U \ {c}]
    <3>1. U \in SUBSET S
      OBVIOUS
    <3> HIDE DEF I
    <3> QED
      BY <3>1, <1>s
  <2>2. SumSolution(f, T)[U] = IF U = {} THEN 0 ELSE f[c] + SumSolution(f, T)[U \ {c}]
    BY <1>0, SumSolves
  <2>3. CASE U = {}
    BY <2>1, <2>2, <2>3
  <2>4. CASE U # {}
    <3>1. c \in U
      BY <2>4 DEF AnyOf
    <3>2. U \ {c} \in I /\ f[c] \in Int
      BY <1>0, <1>1, <3>1
    <3> HIDE DEF c
    <3> QED
      BY <2>1, <2>2, <2>4, <3>2
  <2> QED
    BY <2>3, <2>4
<1> HIDE DEF I
<1>2. \A U \in SUBSET T : U \in I
  BY <1>0, <1>1, SubsetInduction
<1> QED
  BY <1>0, <1>2, SumSolves DEF I

\* A sum, one element at a time.
LEMMA SumIsInt ==
  ASSUME NEW S, IsFiniteSet(S), NEW f, \A x \in S : f[x] \in Int
  PROVE  SumOver(f, S) \in Int
BY SumPart

LEMMA SumRemoveAny ==
  ASSUME NEW S, IsFiniteSet(S), S # {}, NEW f, \A x \in S : f[x] \in Int
  PROVE  /\ AnyOf(S) \in S
         /\ SumOver(f, S) = f[AnyOf(S)] + SumOver(f, S \ {AnyOf(S)})
<1> DEFINE c == AnyOf(S)
<1>1. c \in S
  BY DEF AnyOf
<1>2. SumSolution(f, S)[S] = f[c] + SumSolution(f, S)[S \ {c}]
  BY SumSolves
<1>3. SumSolution(f, S)[S \ {c}] = SumOver(f, S \ {c})
  <2> DEFINE T == S \ {c}
  <2>1. T \in SUBSET S
    OBVIOUS
  <2> HIDE DEF T
  <2>2. SumSolution(f, S)[T] = SumOver(f, T)
    BY <2>1, SumPart
  <2> QED
    BY <2>2 DEF T
<1> HIDE DEF c
<1>4. SumOver(f, S) = f[c] + SumOver(f, S \ {c})
  BY <1>2, <1>3, SumSolves
<1> QED
  BY <1>1, <1>4 DEF c

LEMMA SumRemove ==
  ASSUME NEW S, IsFiniteSet(S), NEW f, \A x \in S : f[x] \in Int, NEW x \in S
  PROVE  SumOver(f, S) = f[x] + SumOver(f, S \ {x})
<1> DEFINE I == {T \in SUBSET S : \A y \in T : SumOver(f, T) = f[y] + SumOver(f, T \ {y})}
<1>0. \A T \in SUBSET S : IsFiniteSet(T) /\ SumOver(f, T) \in Int
  BY FS_Subset, SumIsInt
<1>1. ASSUME NEW T \in SUBSET S, \A y \in T : T \ {y} \in I
      PROVE  T \in I
  <2> SUFFICES ASSUME NEW y \in T
               PROVE  SumOver(f, T) = f[y] + SumOver(f, T \ {y})
    OBVIOUS
  <2> DEFINE c == AnyOf(T)
  <2>1. c \in T /\ SumOver(f, T) = f[c] + SumOver(f, T \ {c})
    BY <1>0, SumRemoveAny
  <2> HIDE DEF c
  <2>2. CASE c = y
    BY <2>1, <2>2
  <2>3. CASE c # y
    <3>1. SumOver(f, T \ {c}) = f[y] + SumOver(f, (T \ {c}) \ {y})
      BY <1>1, <2>1, <2>3
    <3>2. SumOver(f, T \ {y}) = f[c] + SumOver(f, (T \ {y}) \ {c})
      BY <1>1, <2>1, <2>3
    <3>3. (T \ {c}) \ {y} = (T \ {y}) \ {c}
      OBVIOUS
    <3> DEFINE rest == SumOver(f, (T \ {c}) \ {y})
    <3>4. rest \in Int /\ f[c] \in Int /\ f[y] \in Int
      BY <1>0, <2>1
    <3>5. SumOver(f, T) = f[c] + (f[y] + rest)
      BY <2>1, <3>1
    <3>6. SumOver(f, T \ {y}) = f[c] + rest
      BY <3>2, <3>3
    <3> HIDE DEF I, rest
    <3>7. f[c] + (f[y] + rest) = f[y] + (f[c] + rest)
      BY <3>4
    <3> QED
      BY <3>5, <3>6, <3>7
  <2> QED
    BY <2>2, <2>3
<1> HIDE DEF I
<1>2. \A U \in SUBSET S : U \in I
  BY <1>1, SubsetInduction
<1> QED
  BY <1>2 DEF I

LEMMA SumAdd ==
  ASSUME NEW S, IsFiniteSet(S), NEW x, x \notin S,
         NEW f, f[x] \in Int, \A y \in S : f[y] \in Int
  PROVE  SumOver(f, S \cup {x}) = f[x] + SumOver(f, S)
<1> DEFINE T == S \cup {x}
<1>1. IsFiniteSet(T) /\ x \in T /\ (\A y \in T : f[y] \in Int) /\ T \ {x} = S
  BY FS_AddElement
<1> HIDE DEF T
<1>2. SumOver(f, T) = f[x] + SumOver(f, T \ {x})
  BY <1>1, SumRemove
<1> QED
  BY <1>1, <1>2 DEF T

LEMMA SumNat ==
  ASSUME NEW S, IsFiniteSet(S), NEW f, \A x \in S : f[x] \in Nat
  PROVE  SumOver(f, S) \in Nat
<1> DEFINE I == {T \in SUBSET S : SumOver(f, T) \in Nat}
<1>0. \A T \in SUBSET S : IsFiniteSet(T)
  BY FS_Subset
<1>1. ASSUME NEW T \in SUBSET S, \A x \in T : T \ {x} \in I
      PROVE  T \in I
  <2>1. CASE T = {}
    BY <2>1, SumEmpty
  <2>2. CASE T # {}
    <3>1. PICK x \in T : TRUE
      BY <2>2
    <3>2. SumOver(f, T) = f[x] + SumOver(f, T \ {x})
      <4>1. \A y \in T : f[y] \in Int
        OBVIOUS
      <4> HIDE DEF I
      <4> QED
        BY <1>0, <4>1, SumRemove
    <3> QED
      BY <1>1, <3>2
  <2> QED
    BY <2>1, <2>2
<1> HIDE DEF I
<1>2. \A U \in SUBSET S : U \in I
  BY <1>1, SubsetInduction
<1> QED
  BY <1>2 DEF I

\* A sum of sums, and what it implies for equal, zero and smaller terms.
LEMMA SumPlus ==
  ASSUME NEW S, IsFiniteSet(S), NEW f, NEW g, NEW h,
         \A x \in S : f[x] \in Int /\ g[x] \in Int /\ h[x] = f[x] + g[x]
  PROVE  SumOver(h, S) = SumOver(f, S) + SumOver(g, S)
<1> DEFINE I == {T \in SUBSET S : SumOver(h, T) = SumOver(f, T) + SumOver(g, T)}
<1>0. \A T \in SUBSET S : IsFiniteSet(T)
  BY FS_Subset
<1>1. ASSUME NEW T \in SUBSET S, \A x \in T : T \ {x} \in I
      PROVE  T \in I
  <2>1. CASE T = {}
    BY <2>1, SumEmpty
  <2>2. CASE T # {}
    <3>1. PICK x \in T : TRUE
      BY <2>2
    <3>2. SumOver(h, T \ {x}) = SumOver(f, T \ {x}) + SumOver(g, T \ {x})
      BY <1>1
    <3> HIDE DEF I
    <3>3. \A y \in T : f[y] \in Int /\ g[y] \in Int /\ h[y] \in Int
      OBVIOUS
    <3>4. SumOver(f, T) = f[x] + SumOver(f, T \ {x})
      BY <1>0, <3>3, SumRemove
    <3>5. SumOver(g, T) = g[x] + SumOver(g, T \ {x})
      BY <1>0, <3>3, SumRemove
    <3>6. SumOver(h, T) = h[x] + SumOver(h, T \ {x})
      BY <1>0, <3>3, SumRemove
    <3>7. SumOver(f, T \ {x}) \in Int /\ SumOver(g, T \ {x}) \in Int
      <4> DEFINE U == T \ {x}
      <4>1. IsFiniteSet(U) /\ \A y \in U : f[y] \in Int /\ g[y] \in Int
        BY <1>0, <3>3
      <4> HIDE DEF U
      <4>2. SumOver(f, U) \in Int /\ SumOver(g, U) \in Int
        BY <4>1, SumIsInt
      <4> QED
        BY <4>2 DEF U
    <3>8. SumOver(h, T) = SumOver(f, T) + SumOver(g, T)
      BY <3>2, <3>3, <3>4, <3>5, <3>6, <3>7
    <3> QED
      BY <3>8 DEF I
  <2> QED
    BY <2>1, <2>2
<1> HIDE DEF I
<1>2. \A U \in SUBSET S : U \in I
  BY <1>1, SubsetInduction
<1> QED
  BY <1>2 DEF I

LEMMA SumZero ==
  ASSUME NEW S, IsFiniteSet(S), NEW f, \A x \in S : f[x] = 0
  PROVE  SumOver(f, S) = 0
<1>1. SumOver(f, S) = SumOver(f, S) + SumOver(f, S)
  <2>1. \A x \in S : f[x] \in Int /\ f[x] \in Int /\ f[x] = f[x] + f[x]
    OBVIOUS
  <2> QED
    BY <2>1, SumPlus
<1>2. SumOver(f, S) \in Int
  BY SumIsInt
<1>3. \A n \in Int : n = n + n => n = 0
  OBVIOUS
<1> QED
  BY <1>1, <1>2, <1>3

LEMMA SumEqual ==
  ASSUME NEW S, IsFiniteSet(S), NEW f, NEW g,
         \A x \in S : f[x] \in Int /\ g[x] = f[x]
  PROVE  SumOver(g, S) = SumOver(f, S)
<1> DEFINE z == [x \in S |-> 0]
<1>1. \A x \in S : f[x] \in Int /\ z[x] \in Int /\ g[x] = f[x] + z[x]
  OBVIOUS
<1>2. SumOver(z, S) = 0
  BY SumZero
<1> HIDE DEF z
<1>3. SumOver(g, S) = SumOver(f, S) + SumOver(z, S)
  BY <1>1, SumPlus
<1>4. SumOver(f, S) \in Int
  BY SumIsInt
<1> QED
  BY <1>2, <1>3, <1>4

LEMMA SumLeq ==
  ASSUME NEW S, IsFiniteSet(S), NEW f, NEW g,
         \A x \in S : f[x] \in Int /\ g[x] \in Int /\ f[x] <= g[x]
  PROVE  SumOver(f, S) <= SumOver(g, S)
<1> DEFINE d == [x \in S |-> g[x] - f[x]]
<1>1. \A x \in S : f[x] \in Int /\ d[x] \in Int /\ g[x] = f[x] + d[x]
  OBVIOUS
<1>2. \A x \in S : d[x] \in Nat
  OBVIOUS
<1> HIDE DEF d
<1>3. SumOver(g, S) = SumOver(f, S) + SumOver(d, S)
  BY <1>1, SumPlus
<1>4. SumOver(d, S) \in Nat
  BY <1>2, SumNat
<1>5. SumOver(f, S) \in Int
  BY SumIsInt
<1> QED
  BY <1>3, <1>4, <1>5

\* A term that grows by d, all others the same.
LEMMA SumChange ==
  ASSUME NEW S, IsFiniteSet(S), NEW f, NEW g, NEW x \in S, NEW d \in Int,
         g[x] = f[x] + d,
         \A y \in S : f[y] \in Int /\ (y # x => g[y] = f[y])
  PROVE  SumOver(g, S) = SumOver(f, S) + d
<1> DEFINE T == S \ {x}
<1>1. IsFiniteSet(T) /\ \A y \in T : f[y] \in Int /\ g[y] = f[y]
  BY FS_RemoveElement
<1>2. \A y \in S : f[y] \in Int /\ g[y] \in Int
  OBVIOUS
<1>3. SumOver(f, S) = f[x] + SumOver(f, T)
  BY <1>2, SumRemove
<1>4. SumOver(g, S) = g[x] + SumOver(g, T)
  BY <1>2, SumRemove
<1> HIDE DEF T
<1>5. SumOver(g, T) = SumOver(f, T) /\ SumOver(f, T) \in Int
  BY <1>1, SumEqual, SumIsInt
<1> QED
  BY <1>2, <1>3, <1>4, <1>5

\* A sum over two sets with no element in common.
LEMMA SumUnion ==
  ASSUME NEW S, IsFiniteSet(S), NEW A, NEW B, S = A \cup B, A \cap B = {},
         NEW f, \A x \in S : f[x] \in Int
  PROVE  SumOver(f, S) = SumOver(f, A) + SumOver(f, B)
<1> DEFINE I == {T \in SUBSET B : SumOver(f, A \cup T) = SumOver(f, A) + SumOver(f, T)}
<1>0. IsFiniteSet(A) /\ IsFiniteSet(B) /\ \A T \in SUBSET S : IsFiniteSet(T)
  BY FS_Subset
<1>a. SumOver(f, A) \in Int
  BY <1>0, SumIsInt
<1>1. ASSUME NEW T \in SUBSET B, \A x \in T : T \ {x} \in I
      PROVE  T \in I
  <2>1. CASE T = {}
    <3>1. A \cup T = A
      BY <2>1
    <3> QED
      BY <1>a, <2>1, <3>1, SumEmpty
  <2>2. CASE T # {}
    <3>1. PICK x \in T : TRUE
      BY <2>2
    <3> DEFINE U == T \ {x}
               W == A \cup T
    <3>2. SumOver(f, A \cup U) = SumOver(f, A) + SumOver(f, U)
      BY <1>1
    <3>3. /\ IsFiniteSet(T) /\ IsFiniteSet(U) /\ IsFiniteSet(W)
          /\ W \ {x} = A \cup U /\ x \in W
          /\ \A y \in W : f[y] \in Int
      BY <1>0
    <3> HIDE DEF I, W
    <3>4. SumOver(f, W) = f[x] + SumOver(f, W \ {x})
      BY <3>3, SumRemove
    <3>5. SumOver(f, T) = f[x] + SumOver(f, U)
      BY <3>3, SumRemove
    <3> HIDE DEF U
    <3>6. SumOver(f, U) \in Int /\ f[x] \in Int
      <4>1. \A y \in U : f[y] \in Int
        BY DEF U
      <4> QED
        BY <3>3, <4>1, SumIsInt
    <3>7. SumOver(f, W) = SumOver(f, A) + SumOver(f, T)
      <4>1. SumOver(f, W) = f[x] + (SumOver(f, A) + SumOver(f, U))
        BY <3>2, <3>3, <3>4
      <4>2. \A a, b, c \in Int : a + (b + c) = b + (a + c)
        OBVIOUS
      <4> QED
        BY <1>a, <3>5, <3>6, <4>1, <4>2
    <3> QED
      BY <3>7 DEF I, W
  <2> QED
    BY <2>1, <2>2
<1> HIDE DEF I
<1>2. \A U \in SUBSET B : U \in I
  BY <1>0, <1>1, SubsetInduction
<1> QED
  BY <1>2 DEF I

\* Part of a sum of natural numbers.
LEMMA SumSubset ==
  ASSUME NEW S, IsFiniteSet(S), NEW A \in SUBSET S, NEW f, \A x \in S : f[x] \in Nat
  PROVE  SumOver(f, A) <= SumOver(f, S)
<1> DEFINE B == S \ A
<1>1. S = A \cup B /\ A \cap B = {} /\ \A x \in S : f[x] \in Int
  OBVIOUS
<1>2. IsFiniteSet(A) /\ IsFiniteSet(B) /\ \A x \in B : f[x] \in Nat
  BY FS_Subset
<1> HIDE DEF B
<1>3. SumOver(f, S) = SumOver(f, A) + SumOver(f, B)
  BY <1>1, SumUnion
<1>4. SumOver(f, A) \in Nat /\ SumOver(f, B) \in Nat
  BY <1>2, SumNat
<1> QED
  BY <1>3, <1>4
-----------------------------------------------------------------------------
(***************************************************************************)
(* Folds over sequences, of which the accumulator runs through values      *)
(* numbered from 0 to the length.                                          *)
(***************************************************************************)

\* Induction over an interval that starts with 0.
LEMMA RunInduction ==
  ASSUME NEW n \in Nat, NEW I, 0 \in I, \A i \in 1 .. n : i - 1 \in I => i \in I
  PROVE  \A i \in 0 .. n : i \in I
<1> DEFINE J == {m \in Nat : m > n \/ m \in I}
<1>1. 0 \in J
  OBVIOUS
<1>2. ASSUME NEW m \in Nat, m \in J
      PROVE  m + 1 \in J
  <2>1. CASE m + 1 \in 1 .. n
    <3>1. (m + 1) - 1 = m /\ m \in I
      BY <1>2, <2>1
    <3> QED
      BY <2>1, <3>1
  <2>2. CASE m + 1 \notin 1 .. n
    BY <2>2
  <2> QED
    BY <2>1, <2>2
<1> HIDE DEF J
<1>3. \A m \in Nat : m \in J
  BY <1>1, <1>2, NatSetInduction
<1> QED
  BY <1>3 DEF J

LEMMA RunsAgree ==
  ASSUME NEW n \in Nat, NEW a, NEW b, a[0] = b[0],
         \A i \in 1 .. n : a[i - 1] = b[i - 1] => a[i] = b[i]
  PROVE  \A i \in 0 .. n : a[i] = b[i]
<1> DEFINE I == {i \in 0 .. n : a[i] = b[i]}
<1>1. 0 \in I
  OBVIOUS
<1>2. ASSUME NEW i \in 1 .. n, i - 1 \in I
      PROVE  i \in I
  BY <1>2
<1> HIDE DEF I
<1>3. \A i \in 0 .. n : i \in I
  BY <1>1, <1>2, RunInduction
<1> QED
  BY <1>3 DEF I

\* The largest element of an interval, and of a part of one.
LEMMA MaxOfPart ==
  ASSUME NEW n \in Nat, NEW s \in SUBSET (1 .. n), s # {}
  PROVE  Max(s) \in s /\ \A y \in s : Max(s) >= y
<1> DEFINE HasMax(u) == \E x \in u : \A y \in u : x >= y
           I == {m \in 0 .. n : \A u \in SUBSET (1 .. m) : u # {} => HasMax(u)}
<1>1. 0 \in I
  <2>1. ASSUME NEW u \in SUBSET (1 .. 0), u # {}
        PROVE  HasMax(u)
    <3>1. PICK x \in u : TRUE
      BY <2>1
    <3>2. x \in 1 .. 0
      OBVIOUS
    <3> QED
      BY <3>2
  <2> HIDE DEF HasMax
  <2> QED
    BY <2>1
<1>2. ASSUME NEW m \in 1 .. n, m - 1 \in I
      PROVE  m \in I
  <2>1. ASSUME NEW u \in SUBSET (1 .. m), u # {}
        PROVE  HasMax(u)
    <3>1. CASE m \in u
      BY <3>1
    <3>2. CASE m \notin u
      <4>1. u \in SUBSET (1 .. m - 1)
        BY <3>2
      <4> HIDE DEF HasMax
      <4> QED
        BY <1>2, <2>1, <4>1
    <3> QED
      BY <3>1, <3>2
  <2> HIDE DEF HasMax
  <2> QED
    BY <2>1
<1>3. \A m \in 0 .. n : m \in I
  <2> HIDE DEF I
  <2> QED
    BY <1>1, <1>2, RunInduction
<1>4. HasMax(s)
  <2> HIDE DEF HasMax
  <2> QED
    BY <1>3
<1> QED
  BY <1>4 DEF Max

LEMMA MaxOfInterval ==
  ASSUME NEW n \in Nat \ {0}
  PROVE  Max(1 .. n) = n
<1>1. Max(1 .. n) \in 1 .. n /\ \A y \in 1 .. n : Max(1 .. n) >= y
  <2>1. 1 .. n # {}
    OBVIOUS
  <2> QED
    BY <2>1, MaxOfPart
<1> DEFINE m == Max(1 .. n)
<1>2. m \in 1 .. n /\ \A y \in 1 .. n : m >= y
  BY <1>1
<1> HIDE DEF m
<1>3. m >= n
  BY <1>2
<1>4. m = n
  BY <1>2, <1>3
<1> QED
  BY <1>4 DEF m

\* Removing the largest element leaves an interval.
LEMMA IntervalWithoutMax ==
  ASSUME NEW i \in Nat \ {0}
  PROVE  (1 .. i) # {} /\ Max(1 .. i) = i /\ (1 .. i) \ {Max(1 .. i)} = 1 .. i - 1
BY MaxOfInterval

\* A function that does what a fold from the left does, whatever the step.
FoldsLeft(g, n, base, step) ==
  /\ g[{}] = base
  /\ \A s \in SUBSET (1 .. n) : s # {} => g[s] = step[<<Max(s), g[s \ {Max(s)}]>>]

LEMMA LeftFoldExists ==
  ASSUME NEW n \in Nat, NEW V, NEW base \in V, NEW step \in [(1 .. n) \X V -> V]
  PROVE  \E g \in [SUBSET (1 .. n) -> V] : FoldsLeft(g, n, base, step)
<1> DEFINE S == 1 .. n
           pick == [s \in SUBSET S |-> Max(s)]
<1>1. IsFiniteSet(S)
  BY FS_Interval
<1>2. \A s \in SUBSET S : pick[s] = Max(s)
  OBVIOUS
<1>3. \A s \in SUBSET S : s # {} => pick[s] \in s
  BY MaxOfPart
<1> HIDE DEF pick
<1>4. PICK g \in [SUBSET S -> V] : IsFold(g, S, base, pick, step)
  <2>1. step \in [S \X V -> V]
    OBVIOUS
  <2> HIDE DEF S
  <2> QED
    BY <1>1, <1>3, <2>1, FoldExists
<1>5. g[{}] = base /\ \A s \in SUBSET S : s # {} => g[s] = step[<<Max(s), g[s \ {Max(s)}]>>]
  BY <1>2, <1>4 DEF IsFold
<1> QED
  BY <1>5 DEF FoldsLeft

-----------------------------------------------------------------------------
(***************************************************************************)
(* Sums of which the indices are renamed, swapped or grouped.              *)
(***************************************************************************)

\* A sum over the image of a set under a function that keeps elements apart.
LEMMA SumImage ==
  ASSUME NEW S, IsFiniteSet(S), NEW m, \A x, y \in S : m[x] = m[y] => x = y,
         NEW f, NEW g, \A x \in S : f[x] \in Int /\ g[m[x]] = f[x]
  PROVE  /\ IsFiniteSet({m[x] : x \in S})
         /\ SumOver(g, {m[x] : x \in S}) = SumOver(f, S)
<1> DEFINE Image(T) == {m[x] : x \in T}
           I == {T \in SUBSET S : /\ IsFiniteSet(Image(T))
                                  /\ SumOver(g, Image(T)) = SumOver(f, T)}
<1>1. ASSUME NEW T \in SUBSET S, \A x \in T : T \ {x} \in I
      PROVE  T \in I
  <2>1. CASE T = {}
    <3>1. Image(T) = {}
      BY <2>1
    <3> HIDE DEF Image
    <3>2. IsFiniteSet(Image(T)) /\ SumOver(g, Image(T)) = SumOver(f, T)
      BY <2>1, <3>1, SumEmpty, FS_EmptySet
    <3> QED
      BY <3>2
  <2>2. CASE T # {}
    <3>1. PICK x \in T : TRUE
      BY <2>2
    <3> DEFINE U == T \ {x}
    <3>2. IsFiniteSet(Image(U)) /\ SumOver(g, Image(U)) = SumOver(f, U)
      BY <1>1
    <3>3. /\ Image(T) = Image(U) \cup {m[x]} /\ m[x] \notin Image(U)
          /\ g[m[x]] = f[x] /\ f[x] \in Int
          /\ \A z \in Image(U) : g[z] \in Int
          /\ \A y \in T : f[y] \in Int
      OBVIOUS
    <3>4. IsFiniteSet(T)
      BY FS_Subset
    <3>5. SumOver(f, T) = f[x] + SumOver(f, U)
      <4> HIDE DEF I
      <4> QED
        BY <3>3, <3>4, SumRemove
    <3> HIDE DEF I, Image, U
    <3>6. SumOver(g, Image(U) \cup {m[x]}) = g[m[x]] + SumOver(g, Image(U))
      BY <3>2, <3>3, SumAdd
    <3>7. IsFiniteSet(Image(U) \cup {m[x]})
      BY <3>2, FS_AddElement
    <3>8. IsFiniteSet(Image(T)) /\ SumOver(g, Image(T)) = SumOver(f, T)
      BY <3>2, <3>3, <3>5, <3>6, <3>7
    <3> QED
      BY <3>8 DEF I
  <2> QED
    BY <2>1, <2>2
<1> HIDE DEF I
<1>2. \A U \in SUBSET S : U \in I
  BY <1>1, SubsetInduction
<1> QED
  BY <1>2 DEF I

\* A sum over an interval, and over the interval moved.
Moved(f, a, b, g, c, e) ==
  e - c = b - a /\ \A i \in a .. b : f[i] \in Int /\ g[i + (c - a)] = f[i]

LEMMA SumShift ==
  ASSUME NEW a \in Int, NEW b \in Int, NEW c \in Int, NEW e \in Int,
         NEW f, NEW g, Moved(f, a, b, g, c, e)
  PROVE  SumOver(g, c .. e) = SumOver(f, a .. b)
<1> DEFINE S == a .. b
           m == [i \in S |-> i + (c - a)]
<1>1. IsFiniteSet(S)
  BY FS_Interval
<1>2. /\ \A x, y \in S : m[x] = m[y] => x = y
      /\ \A x \in S : f[x] \in Int /\ g[m[x]] = f[x]
  BY DEF Moved
<1>3. {m[x] : x \in S} = c .. e
  <2>1. ASSUME NEW i \in c .. e
        PROVE  i - (c - a) \in S /\ i = m[i - (c - a)]
    BY DEF Moved
  <2>2. \A x \in S : m[x] \in c .. e
    BY DEF Moved
  <2> HIDE DEF m
  <2> QED
    BY <2>1, <2>2
<1> HIDE DEF S, m
<1>4. SumOver(g, {m[x] : x \in S}) = SumOver(f, S)
  BY <1>1, <1>2, SumImage
<1> QED
  BY <1>3, <1>4 DEF S

\* An interval, and the one that is one longer.
LEMMA SumLonger ==
  ASSUME NEW a \in Int, NEW n \in Nat, NEW f, \A i \in a .. a + n : f[i] \in Int
  PROVE  SumOver(f, a .. a + n) = SumOver(f, a .. a + n - 1) + f[a + n]
<1> DEFINE S == a .. a + n
           x == a + n
<1>1. IsFiniteSet(S) /\ x \in S /\ \A y \in S : f[y] \in Int
  BY FS_Interval
<1>2. S \ {x} = a .. a + n - 1
  OBVIOUS
<1> HIDE DEF S, x
<1>3. SumOver(f, S) = f[x] + SumOver(f, S \ {x})
  BY <1>1, SumRemove
<1>4. f[x] \in Int /\ SumOver(f, S \ {x}) \in Int
  <2>1. IsFiniteSet(S \ {x}) /\ \A y \in S \ {x} : f[y] \in Int
    BY <1>1, FS_RemoveElement
  <2> QED
    BY <1>1, <2>1, SumIsInt
<1>5. SumOver(f, S) = SumOver(f, S \ {x}) + f[x]
  BY <1>3, <1>4
<1> QED
  BY <1>2, <1>5 DEF S, x

\* n times the same number.
LEMMA SumConstant ==
  ASSUME NEW a \in Int, NEW n \in Nat, NEW c \in Int,
         NEW f, \A i \in a .. a + n - 1 : f[i] = c
  PROVE  SumOver(f, a .. a + n - 1) = n * c
<1> DEFINE I == {i \in 0 .. n : SumOver(f, a .. a + i - 1) = i * c}
<1>1. 0 \in I
  <2>1. a .. a + 0 - 1 = {} /\ 0 * c = 0
    OBVIOUS
  <2> QED
    BY <2>1, SumEmpty
<1>2. ASSUME NEW i \in 1 .. n, i - 1 \in I
      PROVE  i \in I
  <2> DEFINE k == i - 1
  <2>1. k \in Nat /\ a + k = a + i - 1 /\ i = k + 1
    OBVIOUS
  <2>2. \A j \in a .. a + k : f[j] \in Int
    OBVIOUS
  <2>3. f[a + k] = c
    OBVIOUS
  <2>4. SumOver(f, a .. a + k - 1) = k * c
    BY <1>2
  <2> HIDE DEF k, I
  <2>5. SumOver(f, a .. a + k) = SumOver(f, a .. a + k - 1) + f[a + k]
    BY <2>1, <2>2, SumLonger
  <2>6. k * c + c = (k + 1) * c
    BY <2>1
  <2>7. SumOver(f, a .. a + i - 1) = i * c
    BY <2>1, <2>3, <2>4, <2>5, <2>6
  <2> QED
    BY <2>7 DEF I
<1> HIDE DEF I
<1>3. \A i \in 0 .. n : i \in I
  BY <1>1, <1>2, RunInduction
<1> QED
  BY <1>3 DEF I

\* A sequence with one number more.
LEMMA SumAppend ==
  ASSUME NEW s \in Seq(Int), NEW x \in Int
  PROVE  SumOver(Append(s, x), 1 .. Len(s) + 1) = SumOver(s, 1 .. Len(s)) + x
<1> DEFINE n == Len(s)
           t == Append(s, x)
<1>1. /\ n \in Nat /\ t[n + 1] = x
      /\ \A i \in 1 .. n : s[i] \in Int /\ t[i] = s[i]
  OBVIOUS
<1> HIDE DEF t, n
<1>2. SumOver(t, 1 .. 1 + n) = SumOver(t, 1 .. 1 + n - 1) + t[1 + n]
  <2> DEFINE a == 1
  <2>1. a \in Int /\ n \in Nat /\ \A i \in a .. a + n : t[i] \in Int
    BY <1>1
  <2> HIDE DEF a
  <2>2. SumOver(t, a .. a + n) = SumOver(t, a .. a + n - 1) + t[a + n]
    BY <2>1, SumLonger
  <2> QED
    BY <2>2 DEF a
<1>3. 1 .. 1 + n = 1 .. n + 1 /\ 1 .. 1 + n - 1 = 1 .. n /\ 1 + n = n + 1
  BY <1>1
<1>4. SumOver(t, 1 .. n) = SumOver(s, 1 .. n)
  <2>1. IsFiniteSet(1 .. n)
    BY <1>1, FS_Interval
  <2> QED
    BY <1>1, <2>1, SumEqual
<1> QED
  BY <1>1, <1>2, <1>3, <1>4 DEF t, n

\* Rows first, or columns first.
RowsAndColumns(f, S, rows, T, columns) ==
  /\ \A x \in S, y \in T : f[x][y] \in Int
  /\ \A x \in S : rows[x] = SumOver(f[x], T)
  /\ \A y \in T : columns[y] = SumOver([x \in S |-> f[x][y]], S)

LEMMA SumSwap ==
  ASSUME NEW S, IsFiniteSet(S), NEW T, IsFiniteSet(T),
         NEW f, NEW rows, NEW columns, RowsAndColumns(f, S, rows, T, columns)
  PROVE  SumOver(rows, S) = SumOver(columns, T)
<1> USE DEF RowsAndColumns
<1> DEFINE Column(y) == [x \in S |-> f[x][y]]
           part(U) == [y \in T |-> SumOver(Column(y), U)]
           I == {U \in SUBSET S : SumOver(rows, U) = SumOver(part(U), T)}
<1>0. \A U \in SUBSET S : IsFiniteSet(U)
  BY FS_Subset
<1>a. \A x \in S : rows[x] \in Int
  BY SumIsInt
<1>b. \A U \in SUBSET S, y \in T : SumOver(Column(y), U) \in Int
  <2> SUFFICES ASSUME NEW U \in SUBSET S, NEW y \in T
               PROVE  SumOver(Column(y), U) \in Int
    OBVIOUS
  <2> DEFINE g == Column(y)
  <2>1. IsFiniteSet(U) /\ \A x \in U : g[x] \in Int
    BY <1>0
  <2> HIDE DEF g
  <2>2. SumOver(g, U) \in Int
    BY <2>1, SumIsInt
  <2> QED
    BY <2>2 DEF g
<1>1. ASSUME NEW U \in SUBSET S, \A x \in U : U \ {x} \in I
      PROVE  U \in I
  <2>1. CASE U = {}
    <3> DEFINE p == part(U)
    <3>1. \A y \in T : p[y] = 0
      BY <2>1, SumEmpty
    <3> HIDE DEF p
    <3>2. SumOver(p, T) = 0
      BY <3>1, SumZero
    <3>3. SumOver(rows, U) = 0
      BY <2>1, SumEmpty
    <3> QED
      BY <3>2, <3>3 DEF p
  <2>2. CASE U # {}
    <3>1. PICK x \in U : TRUE
      BY <2>2
    <3> DEFINE V == U \ {x}
               p == part(U)
               q == part(V)
    <3>2. SumOver(rows, V) = SumOver(q, T)
      BY <1>1
    <3>3. \A y \in T : p[y] = f[x][y] + q[y] /\ f[x][y] \in Int /\ q[y] \in Int
      <4> SUFFICES ASSUME NEW y \in T
                   PROVE  p[y] = f[x][y] + q[y] /\ f[x][y] \in Int /\ q[y] \in Int
        OBVIOUS
      <4> DEFINE g == Column(y)
      <4>1. IsFiniteSet(U) /\ (\A z \in U : g[z] \in Int) /\ g[x] = f[x][y]
        BY <1>0
      <4>2. p[y] = SumOver(g, U) /\ q[y] = SumOver(g, V)
        OBVIOUS
      <4>3. SumOver(g, V) \in Int
        BY <1>b
      <4> HIDE DEF g, p, q, I
      <4>4. SumOver(g, U) = g[x] + SumOver(g, U \ {x})
        BY <4>1, SumRemove
      <4> QED
        BY <4>1, <4>2, <4>3, <4>4
    <3>4. SumOver(rows, U) = rows[x] + SumOver(rows, V)
      <4>1. IsFiniteSet(U) /\ \A z \in U : rows[z] \in Int
        BY <1>0, <1>a
      <4> HIDE DEF I
      <4> QED
        BY <4>1, SumRemove
    <3>5. rows[x] = SumOver(f[x], T)
      OBVIOUS
    <3>6. (U \in I) <=> SumOver(rows, U) = SumOver(p, T)
      OBVIOUS
    <3> HIDE DEF p, q, V, I
    <3>7. SumOver(p, T) = SumOver(f[x], T) + SumOver(q, T)
      BY <3>3, SumPlus
    <3> QED
      BY <3>2, <3>4, <3>5, <3>6, <3>7
  <2> QED
    BY <2>1, <2>2
<1>2. \A U \in SUBSET S : U \in I
  <2> HIDE DEF I
  <2> QED
    BY <1>1, SubsetInduction
<1>3. SumOver(rows, S) = SumOver(part(S), T)
  BY <1>2
<1> DEFINE p == part(S)
<1>4. \A y \in T : columns[y] = p[y] /\ p[y] \in Int
  BY <1>b
<1> HIDE DEF p
<1>5. SumOver(columns, T) = SumOver(p, T)
  BY <1>4, SumEqual
<1> QED
  BY <1>3, <1>5 DEF p

\* The elements of a set in groups.
GroupsOf(f, S, m, g, N) ==
  /\ \A x \in S : f[x] \in Int /\ m[x] \in N
  /\ \A k \in N : g[k] = SumOver(f, {x \in S : m[x] = k})

LEMMA SumGroups ==
  ASSUME NEW S, IsFiniteSet(S), NEW N, IsFiniteSet(N),
         NEW f, NEW m, NEW g, GroupsOf(f, S, m, g, N)
  PROVE  SumOver(g, N) = SumOver(f, S)
<1> USE DEF GroupsOf
<1> DEFINE Of(M) == {x \in S : m[x] \in M}
           One(k) == {x \in S : m[x] = k}
           I == {M \in SUBSET N : SumOver(g, M) = SumOver(f, Of(M))}
<1>0. /\ \A M \in SUBSET N : IsFiniteSet(M)
      /\ \A T \in SUBSET S : IsFiniteSet(T) /\ SumOver(f, T) \in Int
  BY FS_Subset, SumIsInt
<1>a. \A k \in N : g[k] \in Int
  BY <1>0
<1>1. ASSUME NEW M \in SUBSET N, \A k \in M : M \ {k} \in I
      PROVE  M \in I
  <2>1. CASE M = {}
    <3>1. Of(M) = {}
      BY <2>1
    <3> HIDE DEF Of
    <3>2. SumOver(g, M) = SumOver(f, Of(M))
      BY <2>1, <3>1, SumEmpty
    <3> QED
      BY <3>2
  <2>2. CASE M # {}
    <3>1. PICK k \in M : TRUE
      BY <2>2
    <3> DEFINE L == M \ {k}
    <3>2. SumOver(g, L) = SumOver(f, Of(L))
      BY <1>1
    <3>3. /\ Of(M) = One(k) \cup Of(L) /\ One(k) \cap Of(L) = {}
          /\ IsFiniteSet(Of(M)) /\ \A x \in Of(M) : f[x] \in Int
      BY <1>0
    <3>4. g[k] = SumOver(f, One(k))
      OBVIOUS
    <3>5. SumOver(g, M) = g[k] + SumOver(g, L)
      <4>1. IsFiniteSet(M) /\ \A z \in M : g[z] \in Int
        BY <1>0, <1>a
      <4> HIDE DEF I
      <4> QED
        BY <4>1, SumRemove
    <3>6. (M \in I) <=> SumOver(g, M) = SumOver(f, Of(M))
      OBVIOUS
    <3> HIDE DEF I, Of, One, L
    <3>7. SumOver(f, Of(M)) = SumOver(f, One(k)) + SumOver(f, Of(L))
      BY <3>3, SumUnion
    <3> QED
      BY <3>2, <3>4, <3>5, <3>6, <3>7
  <2> QED
    BY <2>1, <2>2
<1>2. \A M \in SUBSET N : M \in I
  <2> HIDE DEF I
  <2> QED
    BY <1>1, SubsetInduction
<1>3. SumOver(g, N) = SumOver(f, Of(N)) /\ Of(N) = S
  BY <1>2
<1> QED
  BY <1>3
=============================================================================
