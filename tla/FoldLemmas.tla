----------------------------- MODULE FoldLemmas -----------------------------
(***************************************************************************)
(* Facts about finite sets, folds and sums that the proofs share.  A sum   *)
(* over a set (SumFunctionOnSet) and a fold over a sequence (FoldLeft) are *)
(* both, in the community modules, recursive functions of the subsets of   *)
(* their domain: what they compute is proved by looking at a least number  *)
(* or a smallest subset for which it would fail.                           *)
(***************************************************************************)
EXTENDS Integers, FiniteSetsExt, Functions, FiniteSetTheorems, TLAPS

-----------------------------------------------------------------------------
(* Induction and finite sets.                                              *)

(* A set of numbers that goes on from each number to the next has no least *)
(* one that it lacks.                                                      *)
LEMMA CountingUp ==
  ASSUME NEW G, 0 \in G, \A n \in Nat : n \in G => n + 1 \in G
  PROVE  Nat \subseteq G
<1> DEFINE T == Nat \ G
           R == {p \in Nat \X Nat : p[1] < p[2]}
<1> SUFFICES ASSUME T # {} PROVE FALSE
  OBVIOUS
<1>1. PICK n \in T : \A k \in T : ~ (<<k, n>> \in R)
  <2>1. IsWellFoundedOn(R, Nat)
    BY NatLessThanWellFounded DEF OpToRel
  <2>2. T \subseteq Nat
    OBVIOUS
  <2> HIDE DEF T, R
  <2> QED BY <2>1, <2>2, WFMin
<1>2. n \in Nat /\ n # 0
  OBVIOUS
<1>3. n - 1 \in Nat /\ (n - 1) + 1 = n /\ n - 1 < n
  BY <1>2
<1>4. <<n - 1, n>> \in R
  BY <1>2, <1>3
<1>5. n - 1 \in G
  BY <1>1, <1>3, <1>4
<1>6. n \in G
  BY <1>3, <1>5
<1> QED BY <1>6

(* Induction over the subsets of a finite set.                             *)
LEMMA SubsetInduction ==
  ASSUME NEW S, IsFiniteSet(S), NEW G,
         \A A \in SUBSET S : (\A B \in SUBSET A : B # A => B \in G) => A \in G
  PROVE  SUBSET S \subseteq G
<1> DEFINE T == (SUBSET S) \ G
<1> SUFFICES ASSUME T # {} PROVE FALSE
  OBVIOUS
<1>1. IsWellFoundedOn(StrictSubsetOrdering(S), SUBSET S)
  <2>1. IsWellFoundedOn(StrictSubsetOrdering(S), FiniteSubsetsOf(S))
    BY FS_StrictSubsetOrderingWellFounded
  <2> QED BY <2>1, FS_FiniteSubsetsOfFinite
<1>2. PICK A \in T : \A B \in T : ~ (<<B, A>> \in StrictSubsetOrdering(S))
  <2> HIDE DEF T
  <2>1. T \subseteq SUBSET S
    BY DEF T
  <2> QED BY <1>1, <2>1, WFMin
<1>3. ASSUME NEW B \in SUBSET A, B # A PROVE B \in G
  BY <1>2, <1>3 DEF StrictSubsetOrdering
<1> QED BY <1>2, <1>3

LEMMA ImagesAreFinite ==
  ASSUME NEW S, IsFiniteSet(S), NEW f
  PROVE  IsFiniteSet({f[x] : x \in S})
<1> DEFINE T == {f[x] : x \in S}
           g == [x \in S |-> f[x]]
<1>1. g \in [S -> T] /\ \A y \in T : \E x \in S : g[x] = y
  OBVIOUS
<1>2. g \in Surjection(S, T)
  BY <1>1 DEF Surjection
<1> QED BY <1>2, FS_Surjection

LEMMA AtMostOne ==
  ASSUME NEW S, \A x, y \in S : x = y
  PROVE  IsFiniteSet(S) /\ Cardinality(S) \in {0, 1} /\ (S # {} => Cardinality(S) = 1)
<1>1. CASE S = {}
  BY <1>1, FS_EmptySet
<1>2. CASE S # {}
  <2>1. PICK x \in S : TRUE
    BY <1>2
  <2>2. S = {x}
    OBVIOUS
  <2> QED BY <2>2, FS_Singleton
<1> QED BY <1>1, <1>2

LEMMA LargestOfSome ==
  ASSUME NEW N \in Nat, NEW s \in SUBSET (1..N), s # {}
  PROVE  Max(s) \in s /\ \A i \in s : i <= Max(s)
<1> DEFINE bounded(S) == \E x \in S : \A y \in S : x >= y
           G == {n \in Nat : \A S \in SUBSET (1..n) : S # {} => bounded(S)}
<1>1. 0 \in G
  <2>1. 1..0 = {}
    OBVIOUS
  <2> QED BY <2>1
<1>2. ASSUME NEW n \in Nat, n \in G PROVE n + 1 \in G
  <2> SUFFICES ASSUME NEW S \in SUBSET (1..(n + 1)), S # {} PROVE bounded(S)
    OBVIOUS
  <2>1. CASE n + 1 \in S
    <3>1. \A y \in S : n + 1 >= y
      OBVIOUS
    <3> QED BY <2>1, <3>1
  <2>2. CASE n + 1 \notin S
    <3>1. S \in SUBSET (1..n)
      BY <2>2
    <3> QED BY <1>2, <3>1
  <2> QED BY <2>1, <2>2
<1> HIDE DEF G
<1>3. N \in G
  BY <1>1, <1>2, CountingUp
<1>4. PICK x \in s : \A y \in s : x >= y
  BY <1>3 DEF G
<1>5. Max(s) \in s /\ \A y \in s : Max(s) >= y
  BY <1>4 DEF Max
<1> QED BY <1>5

-----------------------------------------------------------------------------
(* Folds.  A fold over a finite set D takes the element c[s] of what is    *)
(* left of it, and keeps its result in V.                                  *)
Folds(g, D, c, base, step) ==
  \A s \in SUBSET D : g[s] = IF s = {} THEN base ELSE step[c[s]][g[s \ {c[s]}]]

LEMMA FoldExists ==
  ASSUME NEW D, IsFiniteSet(D), NEW c, \A s \in SUBSET D : s # {} => c[s] \in s,
         NEW V, NEW base \in V, NEW step \in [D -> [V -> V]]
  PROVE  \E g \in [SUBSET D -> V] : Folds(g, D, c, base, step)
<1> DEFINE size(s) == Cardinality(s)
           eq(g, s) == g[s] = IF s = {} THEN base ELSE step[c[s]][g[s \ {c[s]}]]
           upTo(n) == \E g \in [SUBSET D -> V] : \A s \in SUBSET D : size(s) <= n => eq(g, s)
           G == {n \in Nat : upTo(n)}
<1>1. \A s \in SUBSET D : IsFiniteSet(s) /\ size(s) \in Nat /\ size(s) <= size(D)
  BY FS_Subset, FS_CardinalityType
<1>2. \A s \in SUBSET D : size(s) <= 0 => s = {}
  BY <1>1, FS_EmptySet
<1>3. \A s \in SUBSET D : s # {} => c[s] \in D /\ s \ {c[s]} \in SUBSET D
                                    /\ size(s \ {c[s]}) = size(s) - 1
  BY <1>1, FS_RemoveElement
<1> HIDE DEF size
<1>4. upTo(0)
  <2> DEFINE g == [s \in SUBSET D |-> base]
  <2>1. g \in [SUBSET D -> V] /\ g[{}] = base
    OBVIOUS
  <2> QED BY <1>2, <2>1
<1>5. ASSUME NEW n \in Nat, upTo(n) PROVE upTo(n + 1)
  <2>1. PICK g \in [SUBSET D -> V] : \A s \in SUBSET D : size(s) <= n => eq(g, s)
    BY <1>5
  <2> DEFINE h == [s \in SUBSET D |-> IF s = {} THEN base ELSE step[c[s]][g[s \ {c[s]}]]]
  <2>2. h \in [SUBSET D -> V]
    BY <1>3
  <2>3. \A s \in SUBSET D : size(s) <= n => h[s] = g[s]
    BY <2>1
  <2>4. ASSUME NEW s \in SUBSET D, size(s) <= n + 1, s # {}
        PROVE  h[s] = step[c[s]][h[s \ {c[s]}]]
    <3>1. s \ {c[s]} \in SUBSET D /\ size(s \ {c[s]}) <= n
      BY <1>1, <1>3, <2>4
    <3>2. h[s \ {c[s]}] = g[s \ {c[s]}]
      BY <2>3, <3>1
    <3>3. h[s] = step[c[s]][g[s \ {c[s]}]]
      BY <2>4
    <3> HIDE DEF h
    <3> QED BY <3>2, <3>3
  <2>5. h[{}] = base
    OBVIOUS
  <2> HIDE DEF h
  <2>6. \A s \in SUBSET D : size(s) <= n + 1 => eq(h, s)
    BY <2>4, <2>5
  <2> QED BY <2>2, <2>6
<1> HIDE DEF upTo
<1>6. Nat \subseteq G
  <2>1. 0 \in G /\ \A n \in Nat : n \in G => n + 1 \in G
    BY <1>4, <1>5
  <2> HIDE DEF G
  <2> QED BY <2>1, CountingUp
<1>7. upTo(size(D))
  BY <1>1, <1>6
<1> QED BY <1>1, <1>7 DEF upTo, Folds

LEMMA FoldStaysIn ==
  ASSUME NEW D, IsFiniteSet(D), NEW c, \A s \in SUBSET D : s # {} => c[s] \in s,
         NEW V, NEW h, h[{}] \in V,
         \A s \in SUBSET D : s # {} /\ h[s \ {c[s]}] \in V => h[s] \in V
  PROVE  \A s \in SUBSET D : h[s] \in V
<1> DEFINE size(s) == Cardinality(s)
           G == {n \in Nat : \A s \in SUBSET D : size(s) = n => h[s] \in V}
<1>1. \A s \in SUBSET D : /\ size(s) \in Nat /\ (size(s) = 0 => s = {})
                          /\ s # {} => size(s \ {c[s]}) = size(s) - 1
  BY FS_Subset, FS_CardinalityType, FS_EmptySet, FS_RemoveElement
<1> HIDE DEF size
<1>2. 0 \in G
  BY <1>1
<1>3. ASSUME NEW n \in Nat, n \in G PROVE n + 1 \in G
  <2> SUFFICES ASSUME NEW s \in SUBSET D, size(s) = n + 1 PROVE h[s] \in V
    OBVIOUS
  <2>1. CASE s = {}
    BY <2>1
  <2>2. CASE s # {}
    <3>1. s \ {c[s]} \in SUBSET D /\ size(s \ {c[s]}) = n
      BY <1>1, <2>2
    <3>2. h[s \ {c[s]}] \in V
      BY <1>3, <3>1
    <3> QED BY <2>2, <3>2
  <2> QED BY <2>1, <2>2
<1> HIDE DEF G
<1>4. Nat \subseteq G
  BY <1>2, <1>3, CountingUp
<1> QED BY <1>1, <1>4 DEF G

-----------------------------------------------------------------------------
(* Sums.  The sum of a function over a finite set is a fold, that is, a    *)
(* recursive function of the set: it is well defined, takes its elements   *)
(* in any order, and can be split.  Each fact is proved by looking at a    *)
(* smallest subset for which it would fail.                                *)

(* The element a fold takes next, and the equation of the fold that adds   *)
(* up f over the subsets of S.                                             *)
chosen(s) == CHOOSE x \in s : TRUE
SumsUp(g, f, S) ==
  g = [s \in SUBSET S |-> IF s = {} THEN 0 ELSE f[chosen(s)] + g[s \ {chosen(s)}]]

LEMMA SumIsAFold ==
  ASSUME NEW f, NEW S
  PROVE  SumFunctionOnSet(f, S) = (CHOOSE g : SumsUp(g, f, S))[S]
BY DEF SumFunctionOnSet, FoldFunctionOnSet, MapThenFoldSet, SumsUp, chosen

LEMMA SumsUpIsUnique ==
  ASSUME NEW S, IsFiniteSet(S), NEW f, NEW T \in SUBSET S, NEW g, SumsUp(g, f, S),
         NEW h, SumsUp(h, f, T)
  PROVE  \A A \in SUBSET T : g[A] = h[A]
<1> DEFINE G == {A \in SUBSET T : g[A] = h[A]}
<1>1. ASSUME NEW A \in SUBSET T, \A B \in SUBSET A : B # A => B \in G
      PROVE  A \in G
  <2>1. CASE A = {}
    BY <2>1 DEF SumsUp
  <2>2. CASE A # {}
    <3>1. chosen(A) \in A
      BY <2>2 DEF chosen
    <3>2. A \ {chosen(A)} \in G
      BY <1>1, <3>1
    <3>3. g[A] = f[chosen(A)] + g[A \ {chosen(A)}] /\ h[A] = f[chosen(A)] + h[A \ {chosen(A)}]
      BY <2>2 DEF SumsUp
    <3> QED BY <3>2, <3>3
  <2> QED BY <2>1, <2>2
<1>2. IsFiniteSet(T)
  BY FS_Subset
<1> HIDE DEF G
<1>3. SUBSET T \subseteq G
  BY <1>1, <1>2, SubsetInduction
<1> QED BY <1>3 DEF G

LEMMA SumsUpExists ==
  ASSUME NEW S, IsFiniteSet(S), NEW f
  PROVE  SumsUp([A \in SUBSET S |-> SumFunctionOnSet(f, A)], f, S)
<1> DEFINE sums(A) == [B \in SUBSET A |-> SumFunctionOnSet(f, B)]
           G == {A \in SUBSET S : SumsUp(sums(A), f, A)}
<1>1. ASSUME NEW A \in SUBSET S, \A B \in SUBSET A : B # A => B \in G
      PROVE  A \in G
  <2> DEFINE one(B) == IF B = {} THEN 0
                       ELSE f[chosen(B)] + SumFunctionOnSet(f, B \ {chosen(B)})
             g == [B \in SUBSET A |-> one(B)]
  <2>1. ASSUME NEW B \in SUBSET A, B # A
        PROVE  SumFunctionOnSet(f, B) = one(B)
    <3>1. sums(B) = [C \in SUBSET B |-> IF C = {} THEN 0
                                        ELSE f[chosen(C)] + sums(B)[C \ {chosen(C)}]]
      BY <1>1, <2>1 DEF SumsUp
    <3>2. sums(B)[B] = IF B = {} THEN 0 ELSE f[chosen(B)] + sums(B)[B \ {chosen(B)}]
      <4> HIDE DEF sums
      <4> QED BY <3>1
    <3> QED BY <3>2
  <2>2. SumsUp(g, f, A)
    <3>1. ASSUME NEW B \in SUBSET A, B # {}
          PROVE  g[B \ {chosen(B)}] = SumFunctionOnSet(f, B \ {chosen(B)})
      <4>1. B \ {chosen(B)} \in SUBSET A /\ B \ {chosen(B)} # A
        BY <3>1 DEF chosen
      <4>2. SumFunctionOnSet(f, B \ {chosen(B)}) = one(B \ {chosen(B)})
        BY <2>1, <4>1
      <4> HIDE DEF one
      <4> QED BY <4>1, <4>2
    <3>2. \A B \in SUBSET A :
            g[B] = IF B = {} THEN 0 ELSE f[chosen(B)] + g[B \ {chosen(B)}]
      BY <3>1
    <3> HIDE DEF g
    <3>3. g = [B \in SUBSET A |-> g[B]]
      BY DEF g
    <3> QED BY <3>2, <3>3 DEF SumsUp
  <2>3. IsFiniteSet(A)
    BY FS_Subset
  <2> HIDE DEF g
  <2>4. PICK h : h = CHOOSE k : SumsUp(k, f, A)
    OBVIOUS
  <2>5. SumsUp(h, f, A)
    BY <2>2, <2>4
  <2>6. g[A] = h[A]
    BY <2>2, <2>3, <2>5, SumsUpIsUnique
  <2>7. SumFunctionOnSet(f, A) = g[A]
    BY <2>4, <2>6, SumIsAFold
  <2>8. \A B \in SUBSET A : SumFunctionOnSet(f, B) = g[B]
    BY <2>1, <2>7 DEF g
  <2>9. sums(A) = g
    BY <2>8 DEF g
  <2> QED BY <2>2, <2>9
<1> HIDE DEF G
<1>2. SUBSET S \subseteq G
  BY <1>1, SubsetInduction
<1> QED BY <1>2 DEF G

LEMMA SumChoice ==
  ASSUME NEW S, IsFiniteSet(S), NEW f
  PROVE  SumFunctionOnSet(f, S)
           = IF S = {} THEN 0 ELSE f[chosen(S)] + SumFunctionOnSet(f, S \ {chosen(S)})
<1> DEFINE g == [A \in SUBSET S |-> SumFunctionOnSet(f, A)]
<1>1. g = [s \in SUBSET S |-> IF s = {} THEN 0 ELSE f[chosen(s)] + g[s \ {chosen(s)}]]
  <2>1. SumsUp(g, f, S)
    BY SumsUpExists
  <2> HIDE DEF g
  <2> QED BY <2>1 DEF SumsUp
<1> HIDE DEF g
<1>2. g[S] = IF S = {} THEN 0 ELSE f[chosen(S)] + g[S \ {chosen(S)}]
  BY <1>1
<1> QED BY <1>2 DEF g

LEMMA SumOfNothing == \A f : SumFunctionOnSet(f, {}) = 0
BY SumChoice, FS_EmptySet

(* A set of numbers that holds zero and the sum of any two of its members  *)
(* holds the sum of any number of them.                                    *)
LEMMA SumStaysIn ==
  ASSUME NEW V, 0 \in V, \A a, b \in V : a + b \in V,
         NEW S, IsFiniteSet(S), NEW f, \A x \in S : f[x] \in V
  PROVE  SumFunctionOnSet(f, S) \in V
<1> DEFINE G == {A \in SUBSET S : SumFunctionOnSet(f, A) \in V}
<1>1. ASSUME NEW A \in SUBSET S, \A B \in SUBSET A : B # A => B \in G
      PROVE  A \in G
  <2>1. IsFiniteSet(A)
    BY FS_Subset
  <2>2. CASE A = {}
    BY <2>2, SumOfNothing
  <2>3. CASE A # {}
    <3>1. chosen(A) \in A
      BY <2>3 DEF chosen
    <3>2. A \ {chosen(A)} \in G /\ f[chosen(A)] \in V
      BY <1>1, <3>1
    <3>3. SumFunctionOnSet(f, A) = f[chosen(A)] + SumFunctionOnSet(f, A \ {chosen(A)})
      BY <2>1, <2>3, SumChoice
    <3> QED BY <3>2, <3>3
  <2> QED BY <2>2, <2>3
<1> HIDE DEF G
<1>2. SUBSET S \subseteq G
  BY <1>1, SubsetInduction
<1> QED BY <1>2 DEF G

LEMMA SumOfIntegers ==
  ASSUME NEW S, IsFiniteSet(S), NEW f, \A x \in S : f[x] \in Int
  PROVE  SumFunctionOnSet(f, S) \in Int
<1>1. 0 \in Int /\ \A a, b \in Int : a + b \in Int
  OBVIOUS
<1> QED BY <1>1, SumStaysIn

(* Any element can be the one that is taken out.                           *)
LEMMA SumWithout ==
  ASSUME NEW S, IsFiniteSet(S), NEW f, \A x \in S : f[x] \in Int, NEW y \in S
  PROVE  SumFunctionOnSet(f, S) = f[y] + SumFunctionOnSet(f, S \ {y})
<1> DEFINE G == {A \in SUBSET S : \A x \in A :
                   SumFunctionOnSet(f, A) = f[x] + SumFunctionOnSet(f, A \ {x})}
<1>0. ASSUME NEW A \in SUBSET S
      PROVE  IsFiniteSet(A) /\ SumFunctionOnSet(f, A) \in Int
  BY FS_Subset, SumOfIntegers
<1>1. ASSUME NEW A \in SUBSET S, \A B \in SUBSET A : B # A => B \in G
      PROVE  A \in G
  <2> SUFFICES ASSUME NEW x \in A
               PROVE  SumFunctionOnSet(f, A) = f[x] + SumFunctionOnSet(f, A \ {x})
    OBVIOUS
  <2> DEFINE c == chosen(A)
  <2>1. c \in A
    BY DEF chosen
  <2>2. SumFunctionOnSet(f, A) = f[c] + SumFunctionOnSet(f, A \ {c})
    BY <1>0, SumChoice
  <2> HIDE DEF c
  <2>3. CASE x = c
    BY <2>2, <2>3
  <2>4. CASE x # c
    <3> DEFINE C == A \ {c}
               X == A \ {x}
               rest == C \ {x}
    <3>1. C \in G /\ X \in G /\ x \in C /\ c \in X
      BY <1>1, <2>1, <2>4
    <3>2. rest = X \ {c} /\ rest \in SUBSET S
      OBVIOUS
    <3>3. SumFunctionOnSet(f, C) = f[x] + SumFunctionOnSet(f, rest)
      BY <3>1
    <3>4. SumFunctionOnSet(f, X) = f[c] + SumFunctionOnSet(f, X \ {c})
      BY <3>1
    <3>5. SumFunctionOnSet(f, rest) \in Int /\ f[x] \in Int /\ f[c] \in Int
      BY <1>0, <2>1, <3>2
    <3> HIDE DEF C, X, rest
    <3>6. SumFunctionOnSet(f, A) = f[c] + (f[x] + SumFunctionOnSet(f, rest))
      BY <2>2, <3>3 DEF C
    <3>7. SumFunctionOnSet(f, X) = f[c] + SumFunctionOnSet(f, rest)
      BY <3>2, <3>4
    <3>8. SumFunctionOnSet(f, A) = f[x] + SumFunctionOnSet(f, X)
      BY <3>5, <3>6, <3>7
    <3> QED BY <3>8 DEF X
  <2> QED BY <2>3, <2>4
<1> HIDE DEF G
<1>2. SUBSET S \subseteq G
  BY <1>1, SubsetInduction
<1> QED BY <1>2 DEF G

LEMMA SumWithOneMore ==
  ASSUME NEW S, IsFiniteSet(S), NEW f, \A x \in S : f[x] \in Int,
         NEW y, y \notin S, f[y] \in Int
  PROVE  SumFunctionOnSet(f, S \cup {y}) = f[y] + SumFunctionOnSet(f, S)
<1>1. IsFiniteSet(S \cup {y})
  BY FS_AddElement
<1>2. (S \cup {y}) \ {y} = S
  OBVIOUS
<1>3. SumFunctionOnSet(f, S \cup {y}) = f[y] + SumFunctionOnSet(f, (S \cup {y}) \ {y})
  BY <1>1, SumWithout
<1> QED BY <1>2, <1>3

(* Only the values over the set count.                                     *)
LEMMA SumsAgree ==
  ASSUME NEW S, IsFiniteSet(S), NEW f, NEW g, \A x \in S : f[x] = g[x]
  PROVE  SumFunctionOnSet(f, S) = SumFunctionOnSet(g, S)
<1> DEFINE G == {A \in SUBSET S : SumFunctionOnSet(f, A) = SumFunctionOnSet(g, A)}
<1>1. ASSUME NEW A \in SUBSET S, \A B \in SUBSET A : B # A => B \in G
      PROVE  A \in G
  <2>1. IsFiniteSet(A)
    BY FS_Subset
  <2>2. CASE A = {}
    BY <2>2, SumOfNothing
  <2>3. CASE A # {}
    <3>1. chosen(A) \in A
      BY <2>3 DEF chosen
    <3>2. A \ {chosen(A)} \in G /\ f[chosen(A)] = g[chosen(A)]
      BY <1>1, <3>1
    <3>3. /\ SumFunctionOnSet(f, A) = f[chosen(A)] + SumFunctionOnSet(f, A \ {chosen(A)})
          /\ SumFunctionOnSet(g, A) = g[chosen(A)] + SumFunctionOnSet(g, A \ {chosen(A)})
      BY <2>1, <2>3, SumChoice
    <3> QED BY <3>2, <3>3
  <2> QED BY <2>2, <2>3
<1> HIDE DEF G
<1>2. SUBSET S \subseteq G
  BY <1>1, SubsetInduction
<1> QED BY <1>2 DEF G

(* A sum over the values of a function that takes none of them twice.      *)
LEMMA SumOfImages ==
  ASSUME NEW S, IsFiniteSet(S), NEW g, \A x, y \in S : g[x] = g[y] => x = y,
         NEW f, \A x \in S : f[g[x]] \in Int, NEW h, \A x \in S : h[x] = f[g[x]]
  PROVE  SumFunctionOnSet(f, {g[x] : x \in S}) = SumFunctionOnSet(h, S)
<1> DEFINE image(A) == {g[x] : x \in A}
           G == {A \in SUBSET S : SumFunctionOnSet(f, image(A)) = SumFunctionOnSet(h, A)}
<1>1. ASSUME NEW A \in SUBSET S, \A B \in SUBSET A : B # A => B \in G
      PROVE  A \in G
  <2>1. CASE A = {}
    <3>1. image(A) = {}
      BY <2>1
    <3> QED BY <2>1, <3>1, SumOfNothing
  <2>2. CASE A # {}
    <3>1. PICK c \in A : TRUE
      BY <2>2
    <3> DEFINE B == A \ {c}
    <3>2. SumFunctionOnSet(f, image(B)) = SumFunctionOnSet(h, B)
      BY <1>1, <3>1
    <3>3. IsFiniteSet(B) /\ IsFiniteSet(image(B))
      <4>1. IsFiniteSet(B)
        BY FS_Subset
      <4> QED BY <4>1, ImagesAreFinite
    <3>4. A = B \cup {c} /\ image(A) = image(B) \cup {g[c]}
      OBVIOUS
    <3>5. c \notin B /\ g[c] \notin image(B)
      OBVIOUS
    <3>6. /\ \A x \in B : h[x] \in Int
          /\ \A y \in image(B) : f[y] \in Int
          /\ f[g[c]] \in Int /\ h[c] = f[g[c]]
      OBVIOUS
    <3> HIDE DEF B, image
    <3>7. SumFunctionOnSet(f, image(A)) = f[g[c]] + SumFunctionOnSet(f, image(B))
      BY <3>3, <3>4, <3>5, <3>6, SumWithOneMore
    <3>8. SumFunctionOnSet(h, A) = h[c] + SumFunctionOnSet(h, B)
      BY <3>3, <3>4, <3>5, <3>6, SumWithOneMore
    <3> QED BY <3>2, <3>6, <3>7, <3>8
  <2> QED BY <2>1, <2>2
<1> HIDE DEF G
<1>2. SUBSET S \subseteq G
  BY <1>1, SubsetInduction
<1> QED BY <1>2 DEF G

(* The sum of a function is the sum, over its domain, of any other one     *)
(* that has its values there.                                              *)
LEMMA SumOverDomain ==
  ASSUME NEW S, IsFiniteSet(S), NEW f, NEW g, DOMAIN g = S, \A x \in S : f[x] = g[x]
  PROVE  SumFunction(g) = SumFunctionOnSet(f, S)
BY SumsAgree DEF SumFunction

(* Two sets without a common element.                                      *)
LEMMA SumOfTwo ==
  ASSUME NEW S, IsFiniteSet(S), NEW T, IsFiniteSet(T), S \cap T = {},
         NEW f, \A x \in S \cup T : f[x] \in Int
  PROVE  SumFunctionOnSet(f, S \cup T) = SumFunctionOnSet(f, S) + SumFunctionOnSet(f, T)
<1> DEFINE G == {A \in SUBSET T :
                   SumFunctionOnSet(f, S \cup A) = SumFunctionOnSet(f, S) + SumFunctionOnSet(f, A)}
<1>0. SumFunctionOnSet(f, S) \in Int
  BY SumOfIntegers
<1>1. ASSUME NEW A \in SUBSET T, \A B \in SUBSET A : B # A => B \in G
      PROVE  A \in G
  <2>1. IsFiniteSet(A)
    BY FS_Subset
  <2>2. CASE A = {}
    <3>1. S \cup A = S
      BY <2>2
    <3> QED BY <1>0, <2>2, <3>1, SumOfNothing
  <2>3. CASE A # {}
    <3>1. PICK c \in A : TRUE
      BY <2>3
    <3> DEFINE B == A \ {c}
    <3>2. B \in G /\ f[c] \in Int /\ c \notin S \cup B
      BY <1>1
    <3>3. IsFiniteSet(B) /\ IsFiniteSet(S \cup B)
      BY <2>1, FS_RemoveElement, FS_Union
    <3>4. B \cup {c} = A /\ (S \cup B) \cup {c} = S \cup A
      OBVIOUS
    <3>5. \A x \in S \cup B : f[x] \in Int
      OBVIOUS
    <3> HIDE DEF B
    <3>6. SumFunctionOnSet(f, A) = f[c] + SumFunctionOnSet(f, B)
      BY <3>2, <3>3, <3>4, <3>5, SumWithOneMore
    <3>7. SumFunctionOnSet(f, S \cup A) = f[c] + SumFunctionOnSet(f, S \cup B)
      BY <3>2, <3>3, <3>4, <3>5, SumWithOneMore
    <3>8. SumFunctionOnSet(f, B) \in Int
      BY <3>3, <3>5, SumOfIntegers
    <3> QED BY <1>0, <3>2, <3>6, <3>7, <3>8
  <2> QED BY <2>2, <2>3
<1> HIDE DEF G
<1>2. SUBSET T \subseteq G
  BY <1>1, SubsetInduction
<1> QED BY <1>2 DEF G
=============================================================================
