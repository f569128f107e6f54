------------------------------ MODULE Counting ------------------------------
(***************************************************************************)
(* Facts of numbers, sums and sorted sequences that several proofs need.   *)
(* The induction theorems of the library take an operator, which the       *)
(* provers cannot instantiate; the least counterexample stands for         *)
(* induction here.                                                         *)
(***************************************************************************)
EXTENDS Integers, Sequences, SequencesExt, StableOrder, FiniteSetTheorems,
        SequenceTheorems, NaturalsInduction, WellFoundedInduction, TLAPS

-----------------------------------------------------------------------------
(* Numbers.                                                                *)

\* What fails for some numbers fails for a least one.
LEMMA LeastElement ==
  ASSUME NEW T, T \subseteq Nat, T # {}
  PROVE  \E x \in T : \A y \in T : x <= y
<1> DEFINE R == {p \in Nat \X Nat : p[1] < p[2]}
<1>1. IsWellFoundedOn(R, Nat)
  BY NatLessThanWellFounded, Zenon DEF OpToRel
<1>2. \A x, y \in Nat : x < y => <<x, y>> \in R
  OBVIOUS
<1> HIDE DEF R
<1>3. PICK x \in T : \A y \in T : ~ (<<y, x>> \in R)
  BY <1>1, WFMin
<1>4. \A y \in T : x \in Nat /\ y \in Nat /\ ~ (y < x)
  BY <1>2, <1>3
<1> QED BY <1>4

\* Of finite sets one has no smaller one among them without its elements: what
\* fails for some of them fails for one of which it holds for all that is left
\* when elements are taken away.
LEMMA SmallestSet ==
  ASSUME NEW F, F # {}, \A A \in F : IsFiniteSet(A)
  PROVE  \E A \in F : \A x \in A : A \ {x} \notin F
<1> DEFINE Sizes == {n \in Nat : \E A \in F : Cardinality(A) = n}
<1>1. \A A \in F : Cardinality(A) \in Sizes
  BY FS_CardinalityType
<1>2. PICK n \in Sizes : \A m \in Sizes : n <= m
  <2>1. Sizes \subseteq Nat /\ Sizes # {}
    BY <1>1
  <2> HIDE DEF Sizes
  <2> QED BY <2>1, LeastElement
<1>3. PICK A \in F : Cardinality(A) = n
  BY <1>2
<1>4. ASSUME NEW x \in A, A \ {x} \in F PROVE FALSE
  <2>1. Cardinality(A \ {x}) = n - 1
    BY <1>3, FS_RemoveElement
  <2>2. n - 1 \in Sizes /\ n \in Nat
    BY <1>1, <1>2, <1>4, <2>1
  <2> HIDE DEF Sizes
  <2>3. n <= n - 1
    BY <1>2, <2>2
  <2> QED BY <2>2, <2>3
<1> QED BY <1>4

\* What holds of 0 and, with a number, of the next one holds of all.
LEMMA AllNumbers ==
  ASSUME NEW T, 0 \in T, \A n \in Nat : n \in T => n + 1 \in T
  PROVE  Nat \subseteq T
<1> DEFINE Odd == Nat \ T
<1>1. SUFFICES ASSUME Odd # {} PROVE FALSE
  OBVIOUS
<1>2. PICK n \in Odd : \A m \in Odd : n <= m
  <2>1. Odd \subseteq Nat
    OBVIOUS
  <2> HIDE DEF Odd
  <2> QED BY <1>1, <2>1, LeastElement
<1>3. n # 0 /\ n \in Nat /\ n \notin T
  BY <1>2
<1>4. n - 1 \in Nat /\ ~ (n <= n - 1)
  BY <1>3
<1>5. n - 1 \in T
  BY <1>2, <1>4
<1>6. (n - 1) + 1 \in T
  BY <1>4, <1>5
<1> QED BY <1>3, <1>6

\* F has a subset of S if it has it without any one of its elements.
GrowsIn(F, S) ==
  {} \in F /\ \A T \in SUBSET S : T # {} /\ (\A x \in T : T \ {x} \in F) => T \in F

LEMMA AllSubsets ==
  ASSUME NEW S, IsFiniteSet(S), NEW F, GrowsIn(F, S)
  PROVE  S \in F
<1> DEFINE Odd == {T \in SUBSET S : T \notin F}
<1>1. SUFFICES ASSUME Odd # {} PROVE FALSE
  OBVIOUS
<1>2. PICK T \in Odd : \A x \in T : T \ {x} \notin Odd
  <2>1. \A T \in Odd : IsFiniteSet(T)
    BY FS_Subset
  <2> HIDE DEF Odd
  <2> QED BY <1>1, <2>1, SmallestSet
<1>3. T \in SUBSET S /\ T # {} /\ T \notin F
  BY <1>2 DEF GrowsIn
<1>4. \A x \in T : T \ {x} \in F
  BY <1>2
<1> QED BY <1>3, <1>4 DEF GrowsIn

-----------------------------------------------------------------------------
(* Loops: a recursive function over the rounds exists, whatever a round    *)
(* does to the state.                                                      *)

\* g is what x becomes in n rounds.
AreRounds(g, n, S, step, x) ==
  /\ g \in [0..n -> S]
  /\ g[0] = x
  /\ \A r \in Nat : r < n => g[r + 1] = step[g[r]]

LEMMA RoundsAgree ==
  ASSUME NEW S, NEW step \in [S -> S], NEW x \in S, NEW g, NEW h,
         NEW n \in Nat, AreRounds(g, n, S, step, x),
         NEW m \in Nat, AreRounds(h, m, S, step, x)
  PROVE  \A r \in Nat : r <= n /\ r <= m => g[r] = h[r]
<1> DEFINE T == {r \in Nat : r <= n /\ r <= m => g[r] = h[r]}
<1>1. 0 \in T
  BY DEF AreRounds
<1>2. ASSUME NEW r \in Nat, r \in T PROVE r + 1 \in T
  BY <1>2 DEF AreRounds
<1>3. Nat \subseteq T
  <2> HIDE DEF T
  <2> QED BY <1>1, <1>2, AllNumbers
<1> QED BY <1>3

\* g is what x becomes after any number of rounds.
Loops(g, S, step, x) ==
  g \in [Nat -> S] /\ \A r \in Nat : g[r] = IF r = 0 THEN x ELSE step[g[r - 1]]

LEMMA RoundsExist ==
  ASSUME NEW S, NEW step \in [S -> S], NEW x \in S
  PROVE  \E g : Loops(g, S, step, x)
<1> DEFINE Is(g, n) == AreRounds(g, n, S, step, x)
           T == {n \in Nat : \E g : Is(g, n)}
<1>1. Nat \subseteq T
  <2>1. 0 \in T
    <3>1. Is([r \in 0..0 |-> x], 0)
      BY DEF AreRounds
    <3> HIDE DEF Is
    <3> QED BY <3>1
  <2>2. ASSUME NEW n \in Nat, n \in T PROVE n + 1 \in T
    <3>1. PICK g : Is(g, n)
      BY <2>2
    <3> DEFINE h == [r \in 0..(n + 1) |-> IF r = n + 1 THEN step[g[n]] ELSE g[r]]
    <3>2. g \in [0..n -> S] /\ g[0] = x /\ \A r \in Nat : r < n => g[r + 1] = step[g[r]]
      BY <3>1 DEF AreRounds
    <3>3. h \in [0..(n + 1) -> S]
      BY <3>2
    <3>4. \A r \in Nat : r < n + 1 => h[r + 1] = step[h[r]]
      BY <3>2
    <3>5. Is(h, n + 1)
      BY <3>2, <3>3, <3>4 DEF AreRounds
    <3> HIDE DEF Is, h
    <3> QED BY <3>5
  <2> HIDE DEF T
  <2> QED BY <2>1, <2>2, AllNumbers
<1> DEFINE Of(n) == CHOOSE g : Is(g, n)
           f == [n \in Nat |-> Of(n)[n]]
<1>2. \A n \in Nat : Is(Of(n), n)
  <2> HIDE DEF Is
  <2> QED BY <1>1
<1>3. ASSUME NEW n \in Nat PROVE Of(n)[n] \in S
  <2>1. Is(Of(n), n)
    BY <1>2
  <2> HIDE DEF Of
  <2> QED BY <2>1 DEF AreRounds
<1>4. ASSUME NEW n \in Nat PROVE Of(n + 1)[n + 1] = step[Of(n)[n]]
  <2>1. Is(Of(n), n) /\ Is(Of(n + 1), n + 1)
    BY <1>2
  <2> HIDE DEF Of
  <2>2. Of(n + 1)[n + 1] = step[Of(n + 1)[n]]
    BY <2>1 DEF AreRounds
  <2>3. Of(n + 1)[n] = Of(n)[n]
    BY <2>1, RoundsAgree
  <2> QED BY <2>2, <2>3
<1>5. Of(0)[0] = x
  <2>1. Is(Of(0), 0)
    BY <1>2
  <2> HIDE DEF Of
  <2> QED BY <2>1 DEF AreRounds
<1> HIDE DEF Of
<1>6. f \in [Nat -> S] /\ f[0] = x /\ \A r \in Nat : f[r + 1] = step[f[r]]
  BY <1>3, <1>4, <1>5
<1> HIDE DEF f
<1>7. ASSUME NEW r \in Nat PROVE f[r] = IF r = 0 THEN x ELSE step[f[r - 1]]
  <2>1. r # 0 => r - 1 \in Nat /\ (r - 1) + 1 = r
    OBVIOUS
  <2> QED BY <1>6, <2>1
<1> QED BY <1>6, <1>7 DEF Loops

LEMMA MinIsLeast ==
  ASSUME NEW S, S \subseteq Nat, S # {}
  PROVE  Min(S) \in S /\ \A y \in S : Min(S) <= y
<1>1. \E x \in S : \A y \in S : x <= y
  BY LeastElement
<1> QED BY <1>1 DEF Min

LEMMA Distributes ==
  ASSUME NEW r \in Nat, NEW m \in Nat, NEW n \in Nat
  PROVE  /\ r * (m + n) = r * m + r * n /\ r * m \in Nat
         /\ m <= n => r * m <= r * n
<1>1. r * (m + n) = r * m + r * n /\ r * m \in Nat
  OBVIOUS
<1>2. ASSUME m <= n PROVE r * m <= r * n
  <2>1. n - m \in Nat /\ n = m + (n - m)
    BY <1>2
  <2>2. r * n = r * m + r * (n - m) /\ r * (n - m) \in Nat
    BY <2>1
  <2>3. QED
    BY <2>2
<1>3. QED
  BY <1>1, <1>2

\* A number of a set that no other exceeds is its Max, and likewise its Min.
LEMMA MaxIsGreatest ==
  ASSUME NEW S, NEW x \in S, \A y \in S : y \in Int /\ y <= x
  PROVE  Max(S) = x
<1>1. Max(S) \in S /\ \A y \in S : Max(S) >= y
  BY DEF Max
<1> QED BY <1>1

LEMMA MinIsSmallest ==
  ASSUME NEW S, NEW x \in S, \A y \in S : y \in Int /\ x <= y
  PROVE  Min(S) = x
<1>1. Min(S) \in S /\ \A y \in S : Min(S) <= y
  BY DEF Min
<1> QED BY <1>1

\* A finite set of numbers has a greatest.
LEMMA GreatestElement ==
  ASSUME NEW n \in Nat, NEW T, T \subseteq 1..n, T # {}
  PROVE  \E x \in T : \A y \in T : y <= x
<1> DEFINE U == {n - y : y \in T}
<1>0. \A y \in T : y \in 1..n /\ n - y \in Nat
  <2>1. \A y \in 1..n : n - y \in Nat
    OBVIOUS
  <2> QED BY <2>1
<1>1. U \subseteq Nat /\ U # {}
  BY <1>0
<1>2. PICK u \in U : \A v \in U : u <= v
  <2> HIDE DEF U
  <2> QED BY <1>1, LeastElement
<1>3. PICK x \in T : u = n - x
  BY <1>2
<1>4. ASSUME NEW y \in T PROVE y <= x
  <2>1. u <= n - y
    BY <1>2
  <2>2. x \in 1..n /\ y \in 1..n
    OBVIOUS
  <2> QED BY <1>3, <2>1, <2>2
<1> QED BY <1>4

-----------------------------------------------------------------------------
(* Sums and products.  SumFunctionOnSet and ProductOnSet take the elements *)
(* of a set in an order of their own; the result does not depend on it.    *)

Pick(S) == CHOOSE x \in S : TRUE

\* Both ways to join numbers at once, to show only once that there are folds.
Joined(by, x, y) == IF by = "products" THEN x * y ELSE x + y
OfNone(by) == IF by = "products" THEN 1 ELSE 0

AreFolds(by, g, f, S) ==
  g = [T \in SUBSET S |-> IF T = {} THEN OfNone(by)
                          ELSE Joined(by, f[Pick(T)], g[T \ {Pick(T)}])]

Folds(by, f, S) == CHOOSE g : AreFolds(by, g, f, S)

LEMMA FoldsAgree ==
  ASSUME NEW by, NEW f, NEW S, NEW R, NEW g, NEW h, AreFolds(by, g, f, S), AreFolds(by, h, f, R),
         NEW T, T \subseteq S, T \subseteq R, IsFiniteSet(T)
  PROVE  g[T] = h[T]
<1> DEFINE Odd == {A \in SUBSET T : g[A] # h[A]}
<1>1. SUFFICES ASSUME Odd # {} PROVE FALSE
  OBVIOUS
<1>2. PICK A \in Odd : \A x \in A : A \ {x} \notin Odd
  <2>1. \A A \in Odd : IsFiniteSet(A)
    BY FS_Subset
  <2> HIDE DEF Odd
  <2> QED BY <1>1, <2>1, SmallestSet
<1>3. A \in SUBSET S /\ A \in SUBSET R
  BY <1>2
<1>4. /\ g[A] = IF A = {} THEN OfNone(by) ELSE Joined(by, f[Pick(A)], g[A \ {Pick(A)}])
      /\ h[A] = IF A = {} THEN OfNone(by) ELSE Joined(by, f[Pick(A)], h[A \ {Pick(A)}])
  BY <1>3 DEF AreFolds
<1>5. A # {} => Pick(A) \in A
  BY DEF Pick
<1>6. A # {} => g[A \ {Pick(A)}] = h[A \ {Pick(A)}]
  BY <1>2, <1>5
<1> QED BY <1>2, <1>4, <1>6

LEMMA FoldsExist ==
  ASSUME NEW by, NEW f, NEW S, IsFiniteSet(S)
  PROVE  AreFolds(by, Folds(by, f, S), f, S)
<1> DEFINE Odd == {T \in SUBSET S : ~ AreFolds(by, Folds(by, f, T), f, T)}
<1>1. SUFFICES ASSUME Odd # {} PROVE FALSE
  OBVIOUS
<1>2. ASSUME NEW T \in SUBSET S PROVE IsFiniteSet(T)
  BY FS_Subset
<1>3. PICK T \in Odd : \A x \in T : T \ {x} \notin Odd
  <2>1. \A A \in Odd : IsFiniteSet(A)
    BY <1>2
  <2> HIDE DEF Odd
  <2> QED BY <1>1, <2>1, SmallestSet
<1> DEFINE Rest(A) == A \ {Pick(A)}
           Of(A) == IF A = {} THEN OfNone(by)
                    ELSE Joined(by, f[Pick(A)], Folds(by, f, Rest(A))[Rest(A)])
           g == [A \in SUBSET T |-> Of(A)]
\* What is asked of all subsets of T without an element of T.
<1>4. ASSUME NEW A \in SUBSET T, A # T PROVE AreFolds(by, Folds(by, f, A), f, A)
  <2>1. PICK x \in T : x \notin A
    BY <1>4
  <2>2. AreFolds(by, Folds(by, f, T \ {x}), f, T \ {x})
    BY <1>3, <2>1
  <2> DEFINE whole == Folds(by, f, T \ {x})
             part == [B \in SUBSET A |-> whole[B]]
  <2>3. A \in SUBSET (T \ {x})
    BY <2>1
  <2>4. ASSUME NEW B \in SUBSET A
        PROVE  whole[B] = IF B = {} THEN OfNone(by)
                          ELSE Joined(by, f[Pick(B)], whole[B \ {Pick(B)}])
    BY <2>2, <2>3 DEF AreFolds
  <2>5. part = [B \in SUBSET A |-> IF B = {} THEN OfNone(by)
                                   ELSE Joined(by, f[Pick(B)], part[B \ {Pick(B)}])]
    <3>1. \A B \in SUBSET A : B \ {Pick(B)} \in SUBSET A
      OBVIOUS
    <3> HIDE DEF whole
    <3> QED BY <2>4, <3>1
  <2> HIDE DEF part
  <2> QED BY <2>5 DEF AreFolds, Folds
<1>5. ASSUME NEW A \in SUBSET T, A # T PROVE Folds(by, f, A)[A] = Of(A)
  <2>1. AreFolds(by, Folds(by, f, A), f, A)
    BY <1>4, <1>5
  <2>2. Folds(by, f, A)[A] =
          IF A = {} THEN OfNone(by) ELSE Joined(by, f[Pick(A)], Folds(by, f, A)[Rest(A)])
    BY <2>1 DEF AreFolds
  <2>3. CASE A = {}
    BY <2>2, <2>3
  <2>4. CASE A # {}
    <3>1. Rest(A) \in SUBSET T /\ Rest(A) # T /\ Rest(A) \subseteq A /\ IsFiniteSet(Rest(A))
      <4>1. Pick(A) \in A
        BY <2>4 DEF Pick
      <4> QED BY <1>2, <1>3, <4>1
    <3>2. AreFolds(by, Folds(by, f, Rest(A)), f, Rest(A))
      BY <1>4, <3>1
    <3> HIDE DEF Rest
    <3>3. Folds(by, f, A)[Rest(A)] = Folds(by, f, Rest(A))[Rest(A)]
      BY <2>1, <3>1, <3>2, FoldsAgree
    <3> QED BY <2>2, <2>4, <3>3
  <2> QED BY <2>3, <2>4
<1>6. ASSUME NEW A \in SUBSET T
      PROVE  Of(A) = IF A = {} THEN OfNone(by) ELSE Joined(by, f[Pick(A)], g[Rest(A)])
  <2>1. CASE A # {}
    <3>1. Rest(A) \in SUBSET T /\ Rest(A) # T
      <4>1. Pick(A) \in A
        BY <2>1 DEF Pick
      <4> QED BY <4>1
    <3>2. g[Rest(A)] = Of(Rest(A))
      BY <3>1
    <3> HIDE DEF Rest
    <3>3. Of(Rest(A)) = Folds(by, f, Rest(A))[Rest(A)]
      <4> HIDE DEF Of
      <4> QED BY <1>5, <3>1
    <3> QED BY <2>1, <3>2, <3>3
  <2> QED BY <2>1
<1>7. AreFolds(by, g, f, T)
  <2>1. \A A \in SUBSET T : g[A] = IF A = {} THEN OfNone(by)
                            ELSE Joined(by, f[Pick(A)], g[Rest(A)])
    <3> HIDE DEF Rest
    <3> QED BY <1>6
  <2>2. g = [A \in SUBSET T |-> g[A]]
    <3> HIDE DEF Of
    <3> QED OBVIOUS
  <2> HIDE DEF g, Of
  <2> QED BY <2>1, <2>2 DEF AreFolds
<1>8. AreFolds(by, Folds(by, f, T), f, T)
  <2> HIDE DEF g
  <2> QED BY <1>7 DEF Folds
<1> QED BY <1>3, <1>8

\* So whatever folds a function over a set is the fold.
LEMMA FoldIs ==
  ASSUME NEW by, NEW f, NEW S, IsFiniteSet(S), NEW g, AreFolds(by, g, f, S),
         NEW T, T \subseteq S
  PROVE  Folds(by, f, T)[T] = g[T]
<1>1. IsFiniteSet(T)
  BY FS_Subset
<1> QED BY <1>1, FoldsExist, FoldsAgree

LEMMA FoldPicks ==
  ASSUME NEW by, NEW f, NEW S, IsFiniteSet(S)
  PROVE  Folds(by, f, S)[S] =
           IF S = {} THEN OfNone(by)
           ELSE Joined(by, f[Pick(S)], Folds(by, f, S \ {Pick(S)})[S \ {Pick(S)}])
<1>1. AreFolds(by, Folds(by, f, S), f, S)
  BY FoldsExist
<1>2. Folds(by, f, S)[S] = IF S = {} THEN OfNone(by)
        ELSE Joined(by, f[Pick(S)], Folds(by, f, S)[S \ {Pick(S)}])
  BY <1>1 DEF AreFolds
<1>3. Folds(by, f, S)[S \ {Pick(S)}] = Folds(by, f, S \ {Pick(S)})[S \ {Pick(S)}]
  BY <1>1, FoldIs
<1> QED BY <1>2, <1>3

AreSums(g, f, S) ==
  g = [T \in SUBSET S |-> IF T = {} THEN 0 ELSE f[Pick(T)] + g[T \ {Pick(T)}]]

LEMMA SumIsFold ==
  ASSUME NEW f, NEW S, IsFiniteSet(S)
  PROVE  SumFunctionOnSet(f, S) = Folds("sums", f, S)[S]
<1> DEFINE sums == CHOOSE g : AreSums(g, f, S)
<1>1. SumFunctionOnSet(f, S) = sums[S]
  BY DEF SumFunctionOnSet, FoldFunctionOnSet, MapThenFoldSet, AreSums, Pick
<1>2. \A g : AreSums(g, f, S) <=> AreFolds("sums", g, f, S)
  BY DEF AreSums, AreFolds, Joined, OfNone
<1>3. AreSums(Folds("sums", f, S), f, S)
  BY <1>2, FoldsExist
<1>4. AreFolds("sums", sums, f, S)
  BY <1>2, <1>3
<1> HIDE DEF sums
<1> QED BY <1>1, <1>4, FoldIs

LEMMA SumPicks ==
  ASSUME NEW f, NEW S, IsFiniteSet(S)
  PROVE  SumFunctionOnSet(f, S) =
           IF S = {} THEN 0 ELSE f[Pick(S)] + SumFunctionOnSet(f, S \ {Pick(S)})
<1>1. IsFiniteSet(S \ {Pick(S)})
  BY FS_Subset
<1> QED BY <1>1, FoldPicks, SumIsFold DEF Joined, OfNone

LEMMA SumOfEmpty ==
  ASSUME NEW f
  PROVE  SumFunctionOnSet(f, {}) = 0
  BY SumPicks, FS_EmptySet

LEMMA SumIsInt ==
  ASSUME NEW f, NEW S, IsFiniteSet(S), \A x \in S : f[x] \in Int
  PROVE  SumFunctionOnSet(f, S) \in Int
<1> DEFINE Odd == {T \in SUBSET S : SumFunctionOnSet(f, T) \notin Int}
<1>1. SUFFICES ASSUME Odd # {} PROVE FALSE
  OBVIOUS
<1>2. \A T \in SUBSET S : IsFiniteSet(T)
  BY FS_Subset
<1>3. PICK T \in Odd : \A x \in T : T \ {x} \notin Odd
  <2>1. \A T \in Odd : IsFiniteSet(T)
    BY <1>2
  <2> HIDE DEF Odd
  <2> QED BY <1>1, <2>1, SmallestSet
<1>4. CASE T = {}
  <2>1. SumFunctionOnSet(f, T) = 0
    BY <1>4, SumOfEmpty
  <2> QED BY <1>3, <2>1
<1>5. CASE T # {}
  <2>1. Pick(T) \in T /\ f[Pick(T)] \in Int
    BY <1>3, <1>5 DEF Pick
  <2>2. SumFunctionOnSet(f, T \ {Pick(T)}) \in Int
    BY <1>3, <2>1
  <2>3. SumFunctionOnSet(f, T) = f[Pick(T)] + SumFunctionOnSet(f, T \ {Pick(T)})
    BY <1>2, <1>3, <1>5, SumPicks
  <2> QED BY <1>3, <2>1, <2>2, <2>3
<1> QED BY <1>4, <1>5

\* Any element can be taken first.
LEMMA SumTakes ==
  ASSUME NEW f, NEW S, IsFiniteSet(S), \A x \in S : f[x] \in Int, NEW x \in S
  PROVE  SumFunctionOnSet(f, S) = SumFunctionOnSet(f, S \ {x}) + f[x]
<1> DEFINE Sum(T) == SumFunctionOnSet(f, T)
           Odd == {T \in SUBSET S : \E y \in T : Sum(T) # Sum(T \ {y}) + f[y]}
<1>1. SUFFICES ASSUME Odd # {} PROVE FALSE
  OBVIOUS
<1>2. \A T \in SUBSET S : IsFiniteSet(T) /\ Sum(T) \in Int
  BY FS_Subset, SumIsInt
<1>3. \A T \in SUBSET S : T # {} =>
        /\ Pick(T) \in T /\ T \ {Pick(T)} \in SUBSET S
        /\ Sum(T) = f[Pick(T)] + Sum(T \ {Pick(T)})
  BY <1>2, SumPicks DEF Pick
<1> HIDE DEF Sum
<1>4. PICK T \in Odd : \A y \in T : T \ {y} \notin Odd
  <2>1. \A T \in Odd : IsFiniteSet(T)
    BY <1>2
  <2> HIDE DEF Odd
  <2> QED BY <1>1, <2>1, SmallestSet
<1>5. PICK y \in T : Sum(T) # Sum(T \ {y}) + f[y]
  BY <1>4
<1> DEFINE p == Pick(T)
<1>6. /\ p \in T /\ f[p] \in Int /\ f[y] \in Int /\ T \in SUBSET S
      /\ Sum(T) = f[p] + Sum(T \ {p})
  BY <1>3, <1>4, <1>5
<1> HIDE DEF p
<1>7. /\ Sum(T \ {p}) \in Int /\ Sum(T \ {y}) \in Int
      /\ T \ {p} \in SUBSET S /\ T \ {y} \in SUBSET S
  BY <1>2, <1>6
<1>8. CASE p = y
  BY <1>5, <1>6, <1>7, <1>8
<1>9. CASE p # y
  <2>1. Sum(T \ {p}) = Sum((T \ {p}) \ {y}) + f[y]
    BY <1>4, <1>6, <1>7, <1>9
  <2>2. Sum(T \ {y}) = Sum((T \ {y}) \ {p}) + f[p]
    BY <1>4, <1>5, <1>6, <1>7, <1>9
  <2> DEFINE rest == Sum((T \ {p}) \ {y})
  <2>3. (T \ {y}) \ {p} = (T \ {p}) \ {y}
    OBVIOUS
  <2>4. rest \in Int
    BY <1>2, <1>6
  <2>5. Sum(T \ {y}) = rest + f[p]
    BY <2>2, <2>3, Zenon
  <2>6. Sum(T) = f[p] + (rest + f[y])
    BY <1>6, <2>1, Zenon
  <2> HIDE DEF rest
  <2> QED BY <1>5, <1>6, <2>4, <2>5, <2>6
<1> QED BY <1>8, <1>9

\* On S, h is f and g together.
IsSumOf(h, f, g, S) == \A x \in S : f[x] \in Int /\ g[x] \in Int /\ h[x] = f[x] + g[x]

\* Sums are added element by element.
LEMMA SumsAdd ==
  ASSUME NEW S, IsFiniteSet(S), NEW f, NEW g, NEW h, IsSumOf(h, f, g, S)
  PROVE  SumFunctionOnSet(h, S) = SumFunctionOnSet(f, S) + SumFunctionOnSet(g, S)
<1>0. \A x \in S : f[x] \in Int /\ g[x] \in Int /\ h[x] = f[x] + g[x]
  BY DEF IsSumOf
<1> DEFINE F(T) == SumFunctionOnSet(f, T)
           G(T) == SumFunctionOnSet(g, T)
           H(T) == SumFunctionOnSet(h, T)
           Odd == {T \in SUBSET S : H(T) # F(T) + G(T)}
<1>1. SUFFICES ASSUME Odd # {} PROVE FALSE
  OBVIOUS
<1>2. ASSUME NEW T \in SUBSET S
      PROVE  /\ IsFiniteSet(T) /\ F(T) \in Int /\ G(T) \in Int
             /\ T = {} => F(T) = 0 /\ G(T) = 0 /\ H(T) = 0
             /\ T # {} => /\ Pick(T) \in T
                          /\ F(T) = f[Pick(T)] + F(T \ {Pick(T)})
                          /\ G(T) = g[Pick(T)] + G(T \ {Pick(T)})
                          /\ H(T) = h[Pick(T)] + H(T \ {Pick(T)})
  <2>1. IsFiniteSet(T)
    BY FS_Subset
  <2>2. F(T) \in Int /\ G(T) \in Int
    BY <1>0, <2>1, SumIsInt
  <2>3. T = {} => F(T) = 0 /\ G(T) = 0 /\ H(T) = 0
    BY SumOfEmpty
  <2>4. T # {} => Pick(T) \in T
    BY DEF Pick
  <2> QED BY <2>1, <2>2, <2>3, <2>4, SumPicks
<1> HIDE DEF F, G, H
<1>3. PICK T \in Odd : \A x \in T : T \ {x} \notin Odd
  <2>1. \A T \in Odd : IsFiniteSet(T)
    BY <1>2
  <2> HIDE DEF Odd
  <2> QED BY <1>1, <2>1, SmallestSet
<1>4. T # {}
  <2>1. T \in SUBSET S /\ H(T) # F(T) + G(T)
    BY <1>3
  <2>2. T = {} => F(T) = 0 /\ G(T) = 0 /\ H(T) = 0
    BY <1>2, <2>1
  <2> QED BY <2>1, <2>2
<1> DEFINE p == Pick(T)
           rest == T \ {p}
<1>5. /\ p \in S /\ rest \in SUBSET S /\ rest \notin Odd
      /\ F(T) = f[p] + F(rest) /\ G(T) = g[p] + G(rest) /\ H(T) = h[p] + H(rest)
  BY <1>2, <1>3, <1>4
<1> HIDE DEF p, rest
<1>6. /\ H(rest) = F(rest) + G(rest) /\ F(rest) \in Int /\ G(rest) \in Int
      /\ f[p] \in Int /\ g[p] \in Int /\ h[p] = f[p] + g[p]
  BY <1>0, <1>2, <1>5
<1>7. H(T) = F(T) + G(T)
  BY <1>5, <1>6
<1> QED BY <1>3, <1>7

\* Sums of numbers of which none is negative.
LEMMA SumIsNat ==
  ASSUME NEW f, NEW S, IsFiniteSet(S), \A x \in S : f[x] \in Nat
  PROVE  /\ SumFunctionOnSet(f, S) \in Nat
         /\ SumFunctionOnSet(f, S) > 0 <=> \E x \in S : f[x] > 0
<1> DEFINE F(T) == SumFunctionOnSet(f, T)
           Good == {T \in SUBSET S : F(T) \in Nat /\ (F(T) > 0 <=> \E x \in T : f[x] > 0)}
<1>1. {} \in Good
  BY SumOfEmpty
<1>2. ASSUME NEW T \in SUBSET S, T # {}, \A x \in T : T \ {x} \in Good PROVE T \in Good
  <2>1. PICK x \in T : TRUE
    BY <1>2
  <2>2. IsFiniteSet(T) /\ \A y \in T : f[y] \in Int
    BY FS_Subset
  <2>3. F(T) = F(T \ {x}) + f[x]
    BY <2>2, SumTakes
  <2>4. F(T \ {x}) \in Nat /\ (F(T \ {x}) > 0 <=> \E y \in T \ {x} : f[y] > 0)
    BY <1>2
  <2> HIDE DEF F
  <2> QED BY <2>3, <2>4
<1>3. S \in Good
  <2> HIDE DEF Good
  <2>1. GrowsIn(Good, S)
    BY <1>1, <1>2 DEF GrowsIn
  <2> QED BY <2>1, AllSubsets
<1> QED BY <1>3

\* f and g are the same on S.
SameOn(f, g, S) == \A x \in S : f[x] = g[x]

LEMMA SumsAreSame ==
  ASSUME NEW f, NEW g, NEW S, IsFiniteSet(S), SameOn(f, g, S)
  PROVE  SumFunctionOnSet(f, S) = SumFunctionOnSet(g, S)
<1> DEFINE F(T) == SumFunctionOnSet(f, T)
           G(T) == SumFunctionOnSet(g, T)
           Good == {T \in SUBSET S : F(T) = G(T)}
<1>1. {} \in Good
  BY SumOfEmpty
<1>2. ASSUME NEW T \in SUBSET S, T # {}, \A x \in T : T \ {x} \in Good PROVE T \in Good
  <2> DEFINE p == Pick(T)
  <2>1. IsFiniteSet(T) /\ p \in T
    BY <1>2, FS_Subset DEF Pick
  <2>2. F(T) = f[p] + F(T \ {p}) /\ G(T) = g[p] + G(T \ {p})
    BY <1>2, <2>1, SumPicks
  <2>3. f[p] = g[p] /\ F(T \ {p}) = G(T \ {p})
    BY <1>2, <2>1 DEF SameOn
  <2> HIDE DEF p, F, G
  <2> QED BY <2>2, <2>3
<1>3. S \in Good
  <2> HIDE DEF Good
  <2>1. GrowsIn(Good, S)
    BY <1>1, <1>2 DEF GrowsIn
  <2> QED BY <2>1, AllSubsets
<1> QED BY <1>3

\* What is in two sets is added up set by set.
LEMMA SumOfTwo ==
  ASSUME NEW f, NEW A, NEW B, IsFiniteSet(A), IsFiniteSet(B), A \cap B = {},
         \A x \in A \cup B : f[x] \in Int
  PROVE  SumFunctionOnSet(f, A \cup B) = SumFunctionOnSet(f, A) + SumFunctionOnSet(f, B)
<1> DEFINE F(T) == SumFunctionOnSet(f, T)
           Good == {T \in SUBSET B : F(A \cup T) = F(A) + F(T)}
<1>1. \A T \in SUBSET B : /\ IsFiniteSet(T) /\ IsFiniteSet(A \cup T)
                          /\ F(T) \in Int /\ F(A \cup T) \in Int /\ F(A) \in Int
  <2>1. ASSUME NEW T \in SUBSET B PROVE IsFiniteSet(T) /\ IsFiniteSet(A \cup T)
    BY FS_Subset, FS_Union
  <2>2. ASSUME NEW T \in SUBSET B PROVE F(T) \in Int /\ F(A \cup T) \in Int /\ F(A) \in Int
    BY <2>1, SumIsInt
  <2> QED BY <2>1, <2>2
<1>2. {} \in Good
  <2>1. F({}) = 0 /\ A \cup {} = A
    BY SumOfEmpty
  <2>2. F(A) \in Int
    BY <1>1
  <2> HIDE DEF F
  <2> QED BY <2>1, <2>2
<1>3. ASSUME NEW T \in SUBSET B, T # {}, \A x \in T : T \ {x} \in Good PROVE T \in Good
  <2>1. PICK x \in T : TRUE
    BY <1>3
  <2>2. F(T) = F(T \ {x}) + f[x]
    BY <1>1, SumTakes
  <2>3. F(A \cup T) = F((A \cup T) \ {x}) + f[x]
    BY <1>1, SumTakes
  <2>4. (A \cup T) \ {x} = A \cup (T \ {x})
    OBVIOUS
  <2>5. F(A \cup (T \ {x})) = F(A) + F(T \ {x})
    BY <1>3, <2>1
  <2>6. f[x] \in Int /\ F(A) \in Int /\ F(T \ {x}) \in Int
    BY <1>1
  <2> HIDE DEF F
  <2>7. F(A \cup T) = F(A) + F(T)
    <3> DEFINE less == A \cup (T \ {x})
    <3>1. F(A \cup T) = F(less) + f[x] /\ F(less) = F(A) + F(T \ {x})
      BY <2>3, <2>4, <2>5
    <3> HIDE DEF less
    <3> QED BY <2>2, <2>6, <3>1
  <2> QED BY <2>7
<1>4. B \in Good
  <2> HIDE DEF Good
  <2>1. GrowsIn(Good, B)
    BY <1>2, <1>3 DEF GrowsIn
  <2> QED BY <2>1, AllSubsets
<1> QED BY <1>4

LEMMA SumOfOne ==
  ASSUME NEW f, NEW x, f[x] \in Int
  PROVE  SumFunctionOnSet(f, {x}) = f[x]
<1>1. IsFiniteSet({x}) /\ {x} \ {x} = {}
  BY FS_Singleton
<1>2. SumFunctionOnSet(f, {x}) = SumFunctionOnSet(f, {x} \ {x}) + f[x]
  BY <1>1, SumTakes
<1> QED BY <1>1, <1>2, SumOfEmpty

\* What of S goes to i, and h adds f up for what goes to each of P.
PartOf(p, S, i) == {x \in S : p[x] = i}
AddsParts(h, f, p, S, P) == \A i \in P : h[i] = SumFunctionOnSet(f, PartOf(p, S, i))

LEMMA SumByParts ==
  ASSUME NEW S, NEW P, IsFiniteSet(S), IsFiniteSet(P), NEW f, NEW p, NEW h,
         \A x \in S : p[x] \in P /\ f[x] \in Int, AddsParts(h, f, p, S, P)
  PROVE  /\ SumFunctionOnSet(h, P) = SumFunctionOnSet(f, S)
         /\ \A i \in P : h[i] \in Int
<1> DEFINE F(T) == SumFunctionOnSet(f, T)
           H(Q) == SumFunctionOnSet(h, Q)
           To(Q) == {x \in S : p[x] \in Q}
           Good == {Q \in SUBSET P : H(Q) = F(To(Q))}
<1>1. ASSUME NEW i \in P
      PROVE  /\ IsFiniteSet(PartOf(p, S, i)) /\ h[i] = F(PartOf(p, S, i)) /\ h[i] \in Int
             /\ PartOf(p, S, i) \subseteq S
  <2>1. PartOf(p, S, i) \subseteq S
    BY DEF PartOf
  <2>2. IsFiniteSet(PartOf(p, S, i))
    BY <2>1, FS_Subset
  <2>3. h[i] = F(PartOf(p, S, i))
    BY DEF AddsParts
  <2> QED BY <2>1, <2>2, <2>3, SumIsInt
<1>2. {} \in Good
  <2>1. To({}) = {}
    OBVIOUS
  <2> HIDE DEF To
  <2> QED BY <2>1, SumOfEmpty
<1>3. ASSUME NEW Q \in SUBSET P, Q # {}, \A i \in Q : Q \ {i} \in Good PROVE Q \in Good
  <2>1. PICK i \in Q : i \in P
    BY <1>3
  <2>2. IsFiniteSet(Q)
    BY FS_Subset
  <2>3. H(Q) = H(Q \ {i}) + h[i]
    BY <1>1, <2>2, SumTakes
  <2>4. /\ To(Q) = To(Q \ {i}) \cup PartOf(p, S, i)
        /\ To(Q \ {i}) \cap PartOf(p, S, i) = {}
        /\ To(Q \ {i}) \subseteq S
    BY <2>1 DEF PartOf
  <2>5. H(Q \ {i}) = F(To(Q \ {i}))
    BY <1>3
  <2> HIDE DEF To
  <2>6. IsFiniteSet(To(Q \ {i}))
    BY <2>4, FS_Subset
  <2>7. F(To(Q)) = F(To(Q \ {i})) + F(PartOf(p, S, i))
    <3> DEFINE A == To(Q \ {i})
               B == PartOf(p, S, i)
    <3>1. /\ IsFiniteSet(A) /\ IsFiniteSet(B) /\ A \cap B = {} /\ To(Q) = A \cup B
          /\ A \subseteq S /\ B \subseteq S
      BY <1>1, <2>1, <2>4, <2>6
    <3> HIDE DEF A, B
    <3>2. \A x \in A \cup B : f[x] \in Int
      BY <3>1
    <3>3. F(A \cup B) = F(A) + F(B)
      BY <3>1, <3>2, SumOfTwo
    <3> QED BY <3>1, <3>3 DEF A, B
  <2>8. h[i] = F(PartOf(p, S, i))
    BY <1>1, <2>1
  <2> HIDE DEF F, H
  <2> QED BY <2>3, <2>5, <2>7, <2>8 DEF To
<1>4. P \in Good
  <2> HIDE DEF Good
  <2>1. GrowsIn(Good, P)
    BY <1>2, <1>3 DEF GrowsIn
  <2> QED BY <2>1, AllSubsets
<1>5. To(P) = S
  OBVIOUS
<1> HIDE DEF To, F, H
<1> QED BY <1>1, <1>4, <1>5 DEF F, H

\* What g makes of S, g making no two the same.
ImageOf(g, S) == {g[x] : x \in S}
IsOneToOne(g, S) == \A x, y \in S : g[x] = g[y] => x = y
Composes(h, f, g, S) == \A x \in S : h[x] = f[g[x]] /\ h[x] \in Int

LEMMA FiniteImage ==
  ASSUME NEW S, IsFiniteSet(S), NEW g
  PROVE  IsFiniteSet(ImageOf(g, S))
<1> DEFINE f == [x \in S |-> g[x]]
<1>1. ImageOf(g, S) = {f[x] : x \in S} /\ f \in Surjection(S, ImageOf(g, S))
  BY DEF ImageOf, Surjection
<1> QED BY <1>1, FS_Surjection

LEMMA SumOfImage ==
  ASSUME NEW S, IsFiniteSet(S), NEW f, NEW g, NEW h,
         IsOneToOne(g, S), Composes(h, f, g, S)
  PROVE  SumFunctionOnSet(f, ImageOf(g, S)) = SumFunctionOnSet(h, S)
<1> DEFINE F(T) == SumFunctionOnSet(f, T)
           H(T) == SumFunctionOnSet(h, T)
           Good == {T \in SUBSET S : F(ImageOf(g, T)) = H(T)}
<1>1. {} \in Good
  <2>1. ImageOf(g, {}) = {}
    BY DEF ImageOf
  <2> QED BY <2>1, SumOfEmpty
<1>2. ASSUME NEW T \in SUBSET S, T # {}, \A x \in T : T \ {x} \in Good PROVE T \in Good
  <2>1. PICK x \in T : x \in S
    BY <1>2
  <2>2. IsFiniteSet(T) /\ IsFiniteSet(ImageOf(g, T))
    <3>1. IsFiniteSet(T)
      BY FS_Subset
    <3>2. IsFiniteSet(ImageOf(g, T))
      BY <3>1, FiniteImage
    <3> QED BY <3>1, <3>2
  <2>3. H(T) = H(T \ {x}) + h[x]
    BY <2>2, SumTakes DEF Composes
  <2>4. g[x] \in ImageOf(g, T) /\ ImageOf(g, T) \ {g[x]} = ImageOf(g, T \ {x})
    BY <2>1 DEF ImageOf, IsOneToOne
  <2>5. \A t \in ImageOf(g, T) : f[t] \in Int
    BY DEF ImageOf, Composes
  <2>6. F(ImageOf(g, T)) = F(ImageOf(g, T \ {x})) + f[g[x]]
    BY <2>2, <2>4, <2>5, SumTakes
  <2>7. F(ImageOf(g, T \ {x})) = H(T \ {x}) /\ h[x] = f[g[x]]
    BY <1>2, <2>1 DEF Composes
  <2> HIDE DEF F, H
  <2> QED BY <2>3, <2>6, <2>7
<1>3. S \in Good
  <2> HIDE DEF Good
  <2>1. GrowsIn(Good, S)
    BY <1>1, <1>2 DEF GrowsIn
  <2> QED BY <2>1, AllSubsets
<1> QED BY <1>3

\* h is c times f.
Scales(h, c, f, S) == \A x \in S : f[x] \in Nat /\ h[x] = c * f[x]

LEMMA SumScaled ==
  ASSUME NEW S, IsFiniteSet(S), NEW f, NEW h, NEW c \in Nat, Scales(h, c, f, S)
  PROVE  SumFunctionOnSet(h, S) = c * SumFunctionOnSet(f, S)
<1> DEFINE F(T) == SumFunctionOnSet(f, T)
           H(T) == SumFunctionOnSet(h, T)
           Good == {T \in SUBSET S : H(T) = c * F(T)}
<1>1. {} \in Good
  BY SumOfEmpty
<1>2. ASSUME NEW T \in SUBSET S, T # {}, \A x \in T : T \ {x} \in Good PROVE T \in Good
  <2>1. PICK x \in T : x \in S
    BY <1>2
  <2>2. IsFiniteSet(T) /\ IsFiniteSet(T \ {x})
    BY FS_Subset
  <2>3. \A y \in T : f[y] \in Nat /\ h[y] \in Nat
    <3>1. \A y \in T : f[y] \in Nat /\ h[y] = c * f[y]
      BY DEF Scales
    <3> QED BY <3>1, Distributes
  <2>4. H(T) = H(T \ {x}) + h[x] /\ F(T) = F(T \ {x}) + f[x] /\ F(T \ {x}) \in Nat
    BY <2>2, <2>3, SumTakes, SumIsNat
  <2>5. H(T \ {x}) = c * F(T \ {x}) /\ h[x] = c * f[x] /\ f[x] \in Nat
    BY <1>2, <2>1 DEF Scales
  <2> HIDE DEF F, H
  <2>6. c * (F(T \ {x}) + f[x]) = c * F(T \ {x}) + c * f[x]
    BY <2>4, <2>5, Distributes
  <2> QED BY <2>4, <2>5, <2>6
<1>3. S \in Good
  <2> HIDE DEF Good
  <2>1. GrowsIn(Good, S)
    BY <1>1, <1>2 DEF GrowsIn
  <2> QED BY <2>1, AllSubsets
<1> QED BY <1>3

\* What i is related to, of E.
RowOf(R, E, i) == {j \in E : <<i, j>> \in R}

\* R relates some of finitely many to some of finitely many.
Relates(R, D, E) == IsFiniteSet(D) /\ IsFiniteSet(E) /\ R \in SUBSET (D \X E)

\* f says how long the rows of R are.
CountsRows(f, R, D, E) == \A i \in D : f[i] = Cardinality(RowOf(R, E, i))

\* A relation is counted row by row.
LEMMA SumOfRows ==
  ASSUME NEW D, NEW E, NEW R, Relates(R, D, E), NEW f, CountsRows(f, R, D, E)
  PROVE  /\ SumFunctionOnSet(f, D) = Cardinality(R)
         /\ Cardinality(R) \in Nat /\ \A i \in D : f[i] \in Nat
<1>0. /\ IsFiniteSet(D) /\ IsFiniteSet(E) /\ R \in SUBSET (D \X E)
      /\ \A i \in D : f[i] = Cardinality(RowOf(R, E, i))
  BY DEF Relates, CountsRows
<1> DEFINE RightOf(i) == {j \in E : <<i, j>> \in R}
           Under(T) == {p \in R : p[1] \in T}
           F(T) == SumFunctionOnSet(f, T)
           Odd == {T \in SUBSET D : F(T) # Cardinality(Under(T))}
<1>1. IsFiniteSet(R) /\ Cardinality(R) \in Nat
  <2>1. IsFiniteSet(D \X E)
    BY <1>0, FS_Product
  <2>2. IsFiniteSet(R)
    BY <1>0, <2>1, FS_Subset
  <2> QED BY <2>2, FS_CardinalityType
<1>2. ASSUME NEW i \in D
      PROVE  IsFiniteSet(RightOf(i)) /\ f[i] = Cardinality(RightOf(i)) /\ f[i] \in Nat
  <2>1. IsFiniteSet(RightOf(i))
    BY <1>0, FS_Subset
  <2>2. f[i] = Cardinality(RightOf(i))
    BY <1>0 DEF RowOf
  <2> QED BY <2>1, <2>2, FS_CardinalityType
<1>3. ASSUME NEW T \in SUBSET D
      PROVE  IsFiniteSet(T) /\ IsFiniteSet(Under(T)) /\ Cardinality(Under(T)) \in Nat
  <2>1. IsFiniteSet(T)
    BY <1>0, FS_Subset
  <2>2. Under(T) \in SUBSET R
    OBVIOUS
  <2>3. IsFiniteSet(Under(T))
    <3> HIDE DEF Under
    <3> QED BY <1>1, <2>2, FS_Subset
  <2> QED BY <2>1, <2>3, FS_CardinalityType
<1>4. ASSUME NEW i \in D PROVE Cardinality(Under({i})) = f[i]
  <2> DEFINE g == [j \in RightOf(i) |-> <<i, j>>]
  <2>1. \A p \in Under({i}) : p[2] \in RightOf(i) /\ p = <<i, p[2]>>
    BY <1>0
  <2>2. g \in [RightOf(i) -> Under({i})]
    OBVIOUS
  <2>3. g \in Bijection(RightOf(i), Under({i}))
    <3>1. \A j, k \in RightOf(i) : g[j] = g[k] => j = k
      OBVIOUS
    <3>2. \A p \in Under({i}) : \E j \in RightOf(i) : g[j] = p
      BY <2>1
    <3> HIDE DEF g, RightOf, Under
    <3> QED BY <2>2, <3>1, <3>2 DEF Bijection, Injection, Surjection, IsInjective
  <2>4. ExistsBijection(RightOf(i), Under({i}))
    BY <2>3 DEF ExistsBijection
  <2> HIDE DEF RightOf, Under
  <2> QED BY <1>2, <2>4, FS_Bijection
<1>5. ASSUME NEW T \in SUBSET D, NEW i \in T
      PROVE  Cardinality(Under(T)) = Cardinality(Under(T \ {i})) + f[i]
  <2>1. Under(T) = Under(T \ {i}) \cup Under({i}) /\ Under(T \ {i}) \cap Under({i}) = {}
    BY <1>0
  <2>2. T \ {i} \in SUBSET D /\ {i} \in SUBSET D /\ i \in D
    OBVIOUS
  <2> HIDE DEF Under
  <2>3. Cardinality(Under(T)) =
          Cardinality(Under(T \ {i})) + Cardinality(Under({i})) - Cardinality({})
    BY <1>3, <2>1, <2>2, FS_Union
  <2>4. /\ Cardinality(Under(T \ {i})) \in Nat /\ f[i] \in Nat
        /\ Cardinality(Under({i})) = f[i] /\ Cardinality({}) = 0
    BY <1>2, <1>3, <1>4, <2>2, FS_EmptySet
  <2> QED BY <2>3, <2>4
<1>6. \A T \in SUBSET D : T # {} => /\ Pick(T) \in T
                                    /\ F(T) = f[Pick(T)] + F(T \ {Pick(T)})
  BY <1>3, SumPicks DEF Pick
<1>7. F({}) = 0
  BY SumOfEmpty
<1>8. Cardinality(Under({})) = 0
  <2>1. Under({}) = {}
    OBVIOUS
  <2> QED BY <2>1, FS_EmptySet
<1>9. Under(D) = R
  BY <1>0
<1> HIDE DEF F, Under, RightOf
<1>10. Odd = {}
  <2>1. SUFFICES ASSUME Odd # {} PROVE FALSE
    OBVIOUS
  <2>2. PICK T \in Odd : \A x \in T : T \ {x} \notin Odd
    <3>1. \A T \in Odd : IsFiniteSet(T)
      BY <1>3
    <3> HIDE DEF Odd
    <3> QED BY <2>1, <3>1, SmallestSet
  <2>3. T # {} /\ T \in SUBSET D
    BY <1>7, <1>8, <2>2
  <2> DEFINE p == Pick(T)
             rest == T \ {p}
  <2>4. p \in T /\ p \in D /\ F(T) = f[p] + F(rest) /\ rest \in SUBSET D /\ rest \notin Odd
    BY <1>6, <2>2, <2>3
  <2>5. Cardinality(Under(T)) = Cardinality(Under(rest)) + f[p]
    BY <1>5, <2>3, <2>4
  <2> HIDE DEF p, rest
  <2>6. F(rest) = Cardinality(Under(rest)) /\ Cardinality(Under(rest)) \in Nat /\ f[p] \in Nat
    BY <1>2, <1>3, <2>4
  <2>7. F(T) = Cardinality(Under(T))
    BY <2>4, <2>5, <2>6
  <2> QED BY <2>2, <2>7
<1>11. F(D) = Cardinality(R)
  BY <1>9, <1>10
<1> QED BY <1>1, <1>2, <1>11 DEF F

\* As many ones as elements.
LEMMA SumOfOnes ==
  ASSUME NEW D, IsFiniteSet(D), NEW f, \A i \in D : f[i] = 1
  PROVE  SumFunctionOnSet(f, D) = Cardinality(D)
<1> DEFINE E == {0}
           R == D \X E
<1>1. CountsRows(f, R, D, E)
  <2>1. ASSUME NEW i \in D PROVE f[i] = Cardinality(RowOf(R, E, i))
    <3>1. RowOf(R, E, i) = {0}
      BY DEF RowOf
    <3> QED BY <3>1, FS_Singleton
  <2> QED BY <2>1 DEF CountsRows
<1>2. IsFiniteSet(E) /\ Cardinality(E) = 1
  BY FS_Singleton
<1>3. SumFunctionOnSet(f, D) = Cardinality(R)
  <2>1. Relates(R, D, E)
    BY <1>2 DEF Relates
  <2> HIDE DEF E, R
  <2> QED BY <1>1, <2>1, SumOfRows
<1>4. Cardinality(R) = Cardinality(D) * 1 /\ Cardinality(D) \in Nat
  <2> HIDE DEF E
  <2> QED BY <1>2, FS_Product, FS_CardinalityType
<1> QED BY <1>3, <1>4

-----------------------------------------------------------------------------
(* Sorting.                                                                *)

\* What comes before all there is up to another goes to a smaller place.
LEMMA PlacesGrow ==
  ASSUME NEW n \in Nat, NEW keys \in [1..n -> Int],
         NEW i \in 1..n, NEW j \in 1..n, i # j, Precedes(keys, i, j)
  PROVE  Place(keys, i) < Place(keys, j)
<1> DEFINE Upto(k) == {m \in 1..n : Precedes(keys, m, k)}
<1>1. \A k \in 1..n : Place(keys, k) = Cardinality(Upto(k))
  BY DEF Place
<1>2. Upto(i) \subseteq Upto(j) /\ j \in Upto(j) /\ j \notin Upto(i)
  BY DEF Precedes
<1>3. IsFiniteSet(Upto(j))
  <2>1. IsFiniteSet(1..n) /\ Upto(j) \subseteq 1..n
    BY FS_Interval
  <2> HIDE DEF Upto
  <2> QED BY <2>1, FS_Subset
<1>4. /\ IsFiniteSet(Upto(i)) /\ Cardinality(Upto(i)) <= Cardinality(Upto(j))
      /\ Cardinality(Upto(i)) # Cardinality(Upto(j))
  <2> HIDE DEF Upto
  <2> QED BY <1>2, <1>3, FS_Subset
<1>5. Cardinality(Upto(i)) \in Nat /\ Cardinality(Upto(j)) \in Nat
  BY <1>3, <1>4, FS_CardinalityType
<1> HIDE DEF Upto
<1> QED BY <1>1, <1>4, <1>5

\* Each place is taken once.
LEMMA PlacesAreTaken ==
  ASSUME NEW n \in Nat, NEW keys \in [1..n -> Int]
  PROVE  /\ \A i \in 1..n : Place(keys, i) \in 1..n
         /\ \A i, j \in 1..n : Place(keys, i) = Place(keys, j) => i = j
         /\ \A m \in 1..n : \E i \in 1..n : Place(keys, i) = m
<1> DEFINE place == [i \in 1..n |-> Place(keys, i)]
<1>1. ASSUME NEW i \in 1..n PROVE Place(keys, i) \in 1..n
  <2> DEFINE upto == {m \in 1..n : Precedes(keys, m, i)}
  <2>1. Place(keys, i) = Cardinality(upto) /\ i \in upto
    BY DEF Place, Precedes
  <2>2. IsFiniteSet(1..n) /\ Cardinality(1..n) = n
    BY FS_Interval
  <2>3. IsFiniteSet(upto) /\ Cardinality(upto) <= n
    BY <2>2, FS_Subset
  <2>4. Cardinality(upto) \in Nat /\ Cardinality(upto) # 0
    <3> HIDE DEF upto
    <3> QED BY <2>1, <2>3, FS_CardinalityType, FS_EmptySet
  <2> HIDE DEF upto
  <2> QED BY <2>1, <2>3, <2>4
<1>2. ASSUME NEW i \in 1..n, NEW j \in 1..n, Place(keys, i) = Place(keys, j)
      PROVE  i = j
  <2>1. i # j => Precedes(keys, i, j) \/ Precedes(keys, j, i)
    BY DEF Precedes
  <2>2. Place(keys, i) \in Nat /\ Place(keys, j) \in Nat
    BY <1>1
  <2> QED BY <1>2, <2>1, <2>2, PlacesGrow
<1>3. place \in Injection(1..n, 1..n)
  BY <1>1, <1>2 DEF Injection, IsInjective
<1>4. IsFiniteSet(1..n)
  BY FS_Interval
<1>5. place \in Surjection(1..n, 1..n)
  <2> HIDE DEF place
  <2> QED BY <1>3, <1>4, FS_Injection
<1>6. ASSUME NEW m \in 1..n PROVE \E i \in 1..n : Place(keys, i) = m
  BY <1>5 DEF Surjection
<1> QED BY <1>1, <1>2, <1>6

\* What is sorted is in the places of what there was.
LEMMA SortedIsPlaced ==
  ASSUME NEW n \in Nat, NEW keys \in [1..n -> Int], NEW s, DOMAIN s = 1..n
  PROVE  \E from \in [1..n -> 1..n] :
           /\ SortedBy(s, keys) = [m \in 1..n |-> s[from[m]]]
           /\ \A m \in 1..n : Place(keys, from[m]) = m
           /\ \A i \in 1..n : from[Place(keys, i)] = i
           /\ \A m, k \in 1..n : m < k => Precedes(keys, from[m], from[k])
<1> DEFINE D == DOMAIN s
           from == [m \in D |-> CHOOSE i \in D : Place(keys, i) = m]
<1>0. SortedBy(s, keys) = [m \in D |-> s[from[m]]]
  BY DEF SortedBy
<1> HIDE DEF D
<1>1. ASSUME NEW m \in 1..n PROVE from[m] \in 1..n /\ Place(keys, from[m]) = m
  <2>1. D = 1..n
    BY DEF D
  <2>2. \E i \in D : Place(keys, i) = m
    BY <2>1, PlacesAreTaken
  <2>3. from[m] = CHOOSE i \in D : Place(keys, i) = m
    BY <2>1
  <2> HIDE DEF from
  <2> QED BY <2>1, <2>2, <2>3
<1>2. from \in [1..n -> 1..n] /\ SortedBy(s, keys) = [m \in 1..n |-> s[from[m]]]
  <2>1. D = 1..n /\ DOMAIN from = D
    BY DEF D
  <2>2. from \in [D -> D]
    <3>1. from = [m \in D |-> from[m]]
      OBVIOUS
    <3> HIDE DEF from
    <3> QED BY <1>1, <2>1, <3>1
  <2> HIDE DEF from
  <2> QED BY <1>0, <2>1, <2>2
<1> HIDE DEF from
<1>4. ASSUME NEW i \in 1..n PROVE from[Place(keys, i)] = i
  <2> DEFINE m == Place(keys, i)
  <2>1. m \in 1..n
    BY PlacesAreTaken
  <2>2. from[m] \in 1..n /\ Place(keys, from[m]) = Place(keys, i)
    BY <1>1, <2>1
  <2> HIDE DEF m
  <2> QED BY <2>2, PlacesAreTaken DEF m
<1>5. ASSUME NEW m \in 1..n, NEW k \in 1..n, m < k
      PROVE  Precedes(keys, from[m], from[k])
  <2> DEFINE i == from[m]
             j == from[k]
  <2>1. i \in 1..n /\ j \in 1..n /\ Place(keys, i) = m /\ Place(keys, j) = k
    BY <1>1
  <2> HIDE DEF i, j
  <2>2. Precedes(keys, i, j) \/ (i # j /\ Precedes(keys, j, i))
    BY <1>5, <2>1 DEF Precedes
  <2>3. ~ (i # j /\ Precedes(keys, j, i))
    <3>1. ~ (k < m)
      BY <1>5
    <3> QED BY <2>1, <3>1, PlacesGrow
  <2> QED BY <2>2, <2>3 DEF i, j
<1> QED BY <1>1, <1>2, <1>4, <1>5

=============================================================================
