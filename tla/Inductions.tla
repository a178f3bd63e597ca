----------------------------- MODULE Inductions -----------------------------
(***************************************************************************)
(* Lemmas shared by the proofs about loops, counters, totals and tallies:  *)
(* induction, recursive functions on an interval, and finite sums as the   *)
(* community module Functions defines them.  The library states induction  *)
(* for an operator parameter, which cannot be instantiated here; these are *)
(* stated for sets: the set of the numbers, or of the subsets of S, that   *)
(* are good.                                                               *)
(***************************************************************************)
EXTENDS Integers, FiniteSets, Functions, FiniteSetTheorems, WellFoundedInduction, TLAPS

\* A set of natural numbers has a least element.
LEMMA LeastNatural ==
  ASSUME NEW B \in SUBSET Nat, B # {}
  PROVE  \E n \in B : \A m \in B : n <= m
<1> DEFINE R == {p \in Nat \X Nat : p[1] < p[2]}
<1>1. IsWellFoundedOn(R, Nat)
  BY NatLessThanWellFounded, Zenon DEF OpToRel
<1>2. PICK n \in B : \A m \in B : ~(<<m, n>> \in R)
  <2> HIDE DEF R
  <2> QED BY <1>1, WFMin
<1>3. \A m \in B : m < n => <<m, n>> \in R
  OBVIOUS
<1>4. n \in Nat /\ \A m \in B : m \in Nat /\ ~(m < n)
  <2> HIDE DEF R
  <2> QED BY <1>2, <1>3
<1> QED
  BY <1>4

\* A set that has 0 and the successor of each of its members has every natural number.
LEMMA Induction ==
  ASSUME NEW B \in SUBSET Nat, 0 \in B, \A n \in B : n + 1 \in B
  PROVE  B = Nat
<1> SUFFICES ASSUME Nat \ B # {} PROVE FALSE
  OBVIOUS
<1>1. PICK n \in Nat \ B : \A m \in Nat \ B : n <= m
  BY LeastNatural
<1>2. n # 0 /\ n - 1 \in Nat
  BY <1>1
<1>3. n - 1 \in B
  BY <1>1, <1>2
<1> QED
  BY <1>1, <1>3

\* f is defined on 0 .. N by its first value and a step.
Iterates(f, N, V, first, step) ==
  f \in [0 .. N -> V] /\ f[0] = first /\ \A n \in 1 .. N : f[n] = step[<<n, f[n - 1]>>]

\* There is such a function.
LEMMA Recursion ==
  ASSUME NEW N \in Nat, NEW V, NEW first \in V, NEW step \in [(1 .. N) \X V -> V]
  PROVE  \E f : Iterates(f, N, V, first, step)
<1> DEFINE Fits(f, n) ==
             f \in [0 .. n -> V] /\ f[0] = first /\ \A k \in 1 .. n : f[k] = step[<<k, f[k - 1]>>]
           B == {n \in Nat : n <= N => \E f : Fits(f, n)}
<1>1. 0 \in B
  <2> DEFINE f == [k \in 0 .. 0 |-> first]
  <2>1. Fits(f, 0)
    OBVIOUS
  <2> HIDE DEF f, Fits
  <2> QED
    BY <2>1
<1>2. ASSUME NEW n \in B PROVE n + 1 \in B
  <2> SUFFICES ASSUME n + 1 <= N PROVE \E f : Fits(f, n + 1)
    OBVIOUS
  <2>1. PICK f : Fits(f, n)
    OBVIOUS
  <2> DEFINE g == [k \in 0 .. n + 1 |-> IF k = n + 1 THEN step[<<n + 1, f[n]>>] ELSE f[k]]
  <2>2. step[<<n + 1, f[n]>>] \in V
    BY <2>1
  <2>3. g \in [0 .. n + 1 -> V]
    BY <2>1, <2>2
  <2>4. ASSUME NEW k \in 1 .. n + 1 PROVE g[k] = step[<<k, g[k - 1]>>]
    <3>1. CASE k = n + 1
      <4>1. k - 1 = n /\ n \in 0 .. n + 1 /\ n # n + 1 /\ k # 0
        BY <3>1
      <4> QED
        BY <3>1, <4>1
    <3>2. CASE k \in 1 .. n
      <4>1. k - 1 \in 0 .. n
        BY <3>2
      <4> QED
        BY <2>1, <3>2, <4>1
    <3> QED
      BY <3>1, <3>2
  <2>5. g[0] = first
    BY <2>1
  <2>6. Fits(g, n + 1)
    <3> HIDE DEF g
    <3> QED
      BY <2>3, <2>4, <2>5
  <2> HIDE DEF g, Fits
  <2> QED
    BY <2>6
<1>3. B = Nat
  <2> HIDE DEF B
  <2>1. B \in SUBSET Nat
    BY DEF B
  <2> QED
    BY <1>1, <1>2, <2>1, Induction
<1> QED
  BY <1>3 DEF Iterates

\* A set is good when each of its subsets is, given the subsets with one element less.
LEMMA SetInduction ==
  ASSUME NEW S, IsFiniteSet(S), NEW Good,
         \A T \in SUBSET S : (\A x \in T : T \ {x} \in Good) => T \in Good
  PROVE  S \in Good
<1> DEFINE B == {n \in Nat : \A T \in SUBSET S : Cardinality(T) = n => T \in Good}
<1>1. \A T \in SUBSET S : IsFiniteSet(T) /\ Cardinality(T) \in Nat
  BY FS_Subset, FS_CardinalityType
<1>2. 0 \in B
  <2> SUFFICES ASSUME NEW T \in SUBSET S, Cardinality(T) = 0 PROVE T \in Good
    OBVIOUS
  <2>1. T = {}
    BY <1>1, FS_EmptySet
  <2> QED
    BY <2>1
<1>3. ASSUME NEW n \in B PROVE n + 1 \in B
  <2> SUFFICES ASSUME NEW T \in SUBSET S, Cardinality(T) = n + 1 PROVE T \in Good
    OBVIOUS
  <2>1. ASSUME NEW x \in T PROVE T \ {x} \in Good
    <3>1. Cardinality(T \ {x}) = Cardinality(T) - 1
      BY <1>1, FS_RemoveElement
    <3> QED
      BY <3>1
  <2> QED
    BY <2>1
<1>4. B = Nat
  <2> HIDE DEF B
  <2>1. B \in SUBSET Nat
    BY DEF B
  <2> QED
    BY <1>2, <1>3, <2>1, Induction
<1>5. Cardinality(S) \in B
  BY <1>1, <1>4
<1> QED
  BY <1>5

(***************************************************************************)
(* Sums.  IsSum is the recursive function over the subsets of S by which   *)
(* MapThenFoldSet defines a sum; Chosen is the element it takes first.     *)
(***************************************************************************)
Chosen(s) == CHOOSE x \in s : TRUE
IsSum(g, f, S) == g = [s \in SUBSET S |-> IF s = {} THEN 0 ELSE f[Chosen(s)] + g[s \ {Chosen(s)}]]

LEMMA ChosenIn == ASSUME NEW s, s # {} PROVE Chosen(s) \in s
BY DEF Chosen

\* What SumFunctionOnSet unfolds to.
LEMMA SumByDefinition ==
  ASSUME NEW f, NEW S
  PROVE  SumFunctionOnSet(f, S) = (CHOOSE g : IsSum(g, f, S))[S]
  BY Zenon DEF SumFunctionOnSet, FoldFunctionOnSet, MapThenFoldSet, IsSum, Chosen

LEMMA SumsAt ==
  ASSUME NEW f, NEW S, NEW g, IsSum(g, f, S), NEW s \in SUBSET S
  PROVE  g[s] = IF s = {} THEN 0 ELSE f[Chosen(s)] + g[s \ {Chosen(s)}]
BY DEF IsSum

\* There is such a function for every finite set; it is built for the subsets of up to n elements.
LEMMA SumsExist ==
  ASSUME NEW f, NEW S, IsFiniteSet(S)
  PROVE  \E g : IsSum(g, f, S)
<1> DEFINE Small(n) == {s \in SUBSET S : Cardinality(s) <= n}
           Fits(g, n) == g = [s \in Small(n) |-> IF s = {} THEN 0 ELSE f[Chosen(s)] + g[s \ {Chosen(s)}]]
           B == {n \in Nat : \E g : Fits(g, n)}
<1>1. \A T \in SUBSET S : IsFiniteSet(T) /\ Cardinality(T) \in Nat
  BY FS_Subset, FS_CardinalityType
<1>2. ASSUME NEW s \in SUBSET S, s # {}
      PROVE  s \ {Chosen(s)} \in SUBSET S /\ Cardinality(s \ {Chosen(s)}) = Cardinality(s) - 1
  BY <1>1, <1>2, ChosenIn, FS_RemoveElement
<1>3. 0 \in B
  <2> DEFINE g == [s \in Small(0) |-> 0]
  <2>1. \A s \in Small(0) : s = {}
    BY <1>1, FS_EmptySet
  <2>2. Fits(g, 0)
    BY <2>1
  <2> QED
    BY <2>2
<1>4. ASSUME NEW n \in B PROVE n + 1 \in B
  <2>1. PICK g : Fits(g, n)
    OBVIOUS
  <2> DEFINE h == [s \in Small(n + 1) |-> IF s = {} THEN 0 ELSE f[Chosen(s)] + g[s \ {Chosen(s)}]]
  <2>2. Small(n) \subseteq Small(n + 1)
    BY <1>1
  <2>3. \A s \in Small(n) : h[s] = g[s]
    BY <2>1, <2>2
  <2>4. ASSUME NEW s \in Small(n + 1), s # {} PROVE s \ {Chosen(s)} \in Small(n)
    BY <1>1, <1>2, <2>4
  <2>5. \A s \in Small(n + 1) : s # {} => h[s \ {Chosen(s)}] = g[s \ {Chosen(s)}]
    BY <2>3, <2>4
  <2>6. Fits(h, n + 1)
    BY <2>5
  <2>7. \E k : Fits(k, n + 1)
    <3> HIDE DEF h, Fits
    <3> QED
      BY <2>6
  <2> HIDE DEF Fits
  <2> QED
    BY <2>7
<1>5. B = Nat
  <2> HIDE DEF B
  <2>1. B \in SUBSET Nat
    BY DEF B
  <2> QED
    BY <1>3, <1>4, <2>1, Induction
<1>6. PICK g : Fits(g, Cardinality(S))
  BY <1>1, <1>5
<1>7. Small(Cardinality(S)) = SUBSET S
  BY FS_Subset, <1>1
<1>8. IsSum(g, f, S)
  BY <1>6, <1>7 DEF IsSum
<1> QED
  BY <1>8

\* The sum over R does not depend on the set whose subsets the function is defined for.
LEMMA SumsAgree ==
  ASSUME NEW f, NEW S, NEW R, NEW g, NEW h, IsSum(g, f, S), IsSum(h, f, R), R \subseteq S, IsFiniteSet(R)
  PROVE  g[R] = h[R]
<1> DEFINE Good == {T \in SUBSET R : g[T] = h[T]}
<1>1. ASSUME NEW T \in SUBSET R, \A x \in T : T \ {x} \in Good
      PROVE  T \in Good
  <2>0. T \in SUBSET S
    OBVIOUS
  <2>1. g[T] = IF T = {} THEN 0 ELSE f[Chosen(T)] + g[T \ {Chosen(T)}]
    BY <2>0 DEF IsSum
  <2>2. h[T] = IF T = {} THEN 0 ELSE f[Chosen(T)] + h[T \ {Chosen(T)}]
    BY DEF IsSum
  <2>3. T # {} => g[T \ {Chosen(T)}] = h[T \ {Chosen(T)}]
    BY <1>1, ChosenIn
  <2> QED
    BY <2>1, <2>2, <2>3
<1>2. R \in Good
  <2> HIDE DEF Good
  <2> QED
    BY <1>1, SetInduction
<1> QED
  BY <1>2

\* The recursion of a sum, with the element it takes first.
LEMMA SumStep ==
  ASSUME NEW f, NEW S, IsFiniteSet(S)
  PROVE  SumFunctionOnSet(f, S) =
           IF S = {} THEN 0 ELSE f[Chosen(S)] + SumFunctionOnSet(f, S \ {Chosen(S)})
<1>1. PICK g : g = (CHOOSE k : IsSum(k, f, S))
  OBVIOUS
<1>2. IsSum(g, f, S)
  BY <1>1, SumsExist
<1>3. SumFunctionOnSet(f, S) = g[S]
  BY <1>1, SumByDefinition
<1>4. g[S] = IF S = {} THEN 0 ELSE f[Chosen(S)] + g[S \ {Chosen(S)}]
  BY <1>2, SumsAt
<1>5. PICK R : R = S \ {Chosen(S)}
  OBVIOUS
<1>6. IsFiniteSet(R) /\ R \subseteq S
  BY <1>5, FS_Subset
<1>7. PICK h : h = (CHOOSE k : IsSum(k, f, R))
  OBVIOUS
<1>8. IsSum(h, f, R)
  BY <1>6, <1>7, SumsExist
<1>9. SumFunctionOnSet(f, R) = h[R]
  BY <1>7, SumByDefinition
<1>10. g[R] = h[R]
  BY <1>2, <1>6, <1>8, SumsAgree
<1> QED
  BY <1>3, <1>4, <1>5, <1>9, <1>10

\* A sum of integers is an integer.
LEMMA SumType ==
  ASSUME NEW f, NEW S, IsFiniteSet(S), \A x \in S : f[x] \in Int
  PROVE  SumFunctionOnSet(f, S) \in Int
<1> DEFINE Good == {T \in SUBSET S : SumFunctionOnSet(f, T) \in Int}
<1>1. ASSUME NEW T \in SUBSET S, \A x \in T : T \ {x} \in Good
      PROVE  T \in Good
  <2>1. SumFunctionOnSet(f, T) =
           IF T = {} THEN 0 ELSE f[Chosen(T)] + SumFunctionOnSet(f, T \ {Chosen(T)})
    BY SumStep, FS_Subset
  <2>2. T # {} => Chosen(T) \in T
    BY ChosenIn
  <2> QED
    BY <1>1, <2>1, <2>2
<1>2. S \in Good
  <2> HIDE DEF Good
  <2> QED
    BY <1>1, SetInduction
<1> QED
  BY <1>2

\* A sum of natural numbers is one.
LEMMA SumNat ==
  ASSUME NEW f, NEW S, IsFiniteSet(S), \A x \in S : f[x] \in Nat
  PROVE  SumFunctionOnSet(f, S) \in Nat
<1> DEFINE Good == {T \in SUBSET S : SumFunctionOnSet(f, T) \in Nat}
<1>1. ASSUME NEW T \in SUBSET S, \A x \in T : T \ {x} \in Good
      PROVE  T \in Good
  <2>1. SumFunctionOnSet(f, T) =
           IF T = {} THEN 0 ELSE f[Chosen(T)] + SumFunctionOnSet(f, T \ {Chosen(T)})
    BY SumStep, FS_Subset
  <2>2. T # {} => Chosen(T) \in T
    BY ChosenIn
  <2> QED
    BY <1>1, <2>1, <2>2
<1>2. S \in Good
  <2> HIDE DEF Good
  <2> QED
    BY <1>1, SetInduction
<1> QED
  BY <1>2

\* Any element may be taken out first.
LEMMA SumRemove ==
  ASSUME NEW f, NEW S, IsFiniteSet(S), \A x \in S : f[x] \in Int, NEW a \in S
  PROVE  SumFunctionOnSet(f, S) = f[a] + SumFunctionOnSet(f, S \ {a})
<1> DEFINE Good == {T \in SUBSET S :
                      \A x \in T : SumFunctionOnSet(f, T) = f[x] + SumFunctionOnSet(f, T \ {x})}
<1>1. ASSUME NEW T \in SUBSET S, \A x \in T : T \ {x} \in Good
      PROVE  T \in Good
  <2> SUFFICES ASSUME NEW x \in T
               PROVE  SumFunctionOnSet(f, T) = f[x] + SumFunctionOnSet(f, T \ {x})
    OBVIOUS
  <2>1. PICK y \in T : SumFunctionOnSet(f, T) = f[y] + SumFunctionOnSet(f, T \ {y})
    <3>1. SumFunctionOnSet(f, T) =
             IF T = {} THEN 0 ELSE f[Chosen(T)] + SumFunctionOnSet(f, T \ {Chosen(T)})
      BY SumStep, FS_Subset
    <3> QED
      BY <3>1, ChosenIn
  <2>2. CASE x = y
    BY <2>1, <2>2
  <2>3. CASE x # y
    <3>1. SumFunctionOnSet(f, T \ {y}) = f[x] + SumFunctionOnSet(f, (T \ {y}) \ {x})
      BY <1>1, <2>3
    <3>2. SumFunctionOnSet(f, T \ {x}) = f[y] + SumFunctionOnSet(f, (T \ {x}) \ {y})
      BY <1>1, <2>3
    <3>3. PICK U : U = (T \ {y}) \ {x}
      OBVIOUS
    <3>4. (T \ {x}) \ {y} = U /\ U \subseteq S
      BY <3>3
    <3>5. IsFiniteSet(U) /\ \A z \in U : f[z] \in Int
      BY <3>4, FS_Subset
    <3>6. SumFunctionOnSet(f, U) \in Int
      BY <3>5, SumType
    <3>7. f[x] \in Int /\ f[y] \in Int
      OBVIOUS
    <3>8. SumFunctionOnSet(f, T) = f[y] + (f[x] + SumFunctionOnSet(f, U))
      BY <2>1, <3>1, <3>3
    <3>9. f[x] + SumFunctionOnSet(f, T \ {x}) = f[x] + (f[y] + SumFunctionOnSet(f, U))
      BY <3>2, <3>4
    <3>10. f[y] + (f[x] + SumFunctionOnSet(f, U)) = f[x] + (f[y] + SumFunctionOnSet(f, U))
      <4> DEFINE u == SumFunctionOnSet(f, U)
      <4> HIDE DEF u
      <4> QED
        BY <3>6, <3>7 DEF u
    <3> QED
      BY <3>8, <3>9, <3>10
  <2> QED
    BY <2>2, <2>3
<1>2. S \in Good
  <2> HIDE DEF Good
  <2> QED
    BY <1>1, SetInduction
<1> QED
  BY <1>2

\* Nothing sums to 0.
LEMMA SumEmpty == ASSUME NEW f PROVE SumFunctionOnSet(f, {}) = 0
BY SumStep, FS_EmptySet

\* Nor do zeros.
LEMMA SumZero ==
  ASSUME NEW f, NEW S, IsFiniteSet(S), \A x \in S : f[x] = 0
  PROVE  SumFunctionOnSet(f, S) = 0
<1> DEFINE Good == {T \in SUBSET S : SumFunctionOnSet(f, T) = 0}
<1>1. ASSUME NEW T \in SUBSET S, \A x \in T : T \ {x} \in Good
      PROVE  T \in Good
  <2>1. SumFunctionOnSet(f, T) =
           IF T = {} THEN 0 ELSE f[Chosen(T)] + SumFunctionOnSet(f, T \ {Chosen(T)})
    BY SumStep, FS_Subset
  <2>2. T # {} => Chosen(T) \in T
    BY ChosenIn
  <2> QED
    BY <1>1, <2>1, <2>2
<1>2. S \in Good
  <2> HIDE DEF Good
  <2> QED
    BY <1>1, SetInduction
<1> QED
  BY <1>2

\* One more element.
LEMMA SumAdd ==
  ASSUME NEW f, NEW S, IsFiniteSet(S), NEW a, a \notin S, \A x \in S \cup {a} : f[x] \in Int
  PROVE  SumFunctionOnSet(f, S \cup {a}) = f[a] + SumFunctionOnSet(f, S)
<1>1. IsFiniteSet(S \cup {a}) /\ (S \cup {a}) \ {a} = S
  BY FS_AddElement
<1>2. SumFunctionOnSet(f, S \cup {a}) = f[a] + SumFunctionOnSet(f, (S \cup {a}) \ {a})
  BY <1>1, SumRemove
<1> QED
  BY <1>1, <1>2

\* A sum depends on the values at the elements only.
LEMMA SumSame ==
  ASSUME NEW f, NEW g, NEW S, IsFiniteSet(S), \A x \in S : f[x] = g[x]
  PROVE  SumFunctionOnSet(f, S) = SumFunctionOnSet(g, S)
<1> DEFINE Good == {T \in SUBSET S : SumFunctionOnSet(f, T) = SumFunctionOnSet(g, T)}
<1>1. ASSUME NEW T \in SUBSET S, \A x \in T : T \ {x} \in Good
      PROVE  T \in Good
  <2>1. SumFunctionOnSet(f, T) =
           IF T = {} THEN 0 ELSE f[Chosen(T)] + SumFunctionOnSet(f, T \ {Chosen(T)})
    BY SumStep, FS_Subset
  <2>2. SumFunctionOnSet(g, T) =
           IF T = {} THEN 0 ELSE g[Chosen(T)] + SumFunctionOnSet(g, T \ {Chosen(T)})
    BY SumStep, FS_Subset
  <2>3. T # {} => Chosen(T) \in T
    BY ChosenIn
  <2> QED
    BY <1>1, <2>1, <2>2, <2>3
<1>2. S \in Good
  <2> HIDE DEF Good
  <2> QED
    BY <1>1, SetInduction
<1> QED
  BY <1>2

\* The sum over two sets that share nothing.
LEMMA SumUnion ==
  ASSUME NEW f, NEW S, NEW R, IsFiniteSet(S), IsFiniteSet(R), S \cap R = {},
         \A x \in S \cup R : f[x] \in Int
  PROVE  SumFunctionOnSet(f, S \cup R) = SumFunctionOnSet(f, S) + SumFunctionOnSet(f, R)
<1> DEFINE Good == {T \in SUBSET R :
                      SumFunctionOnSet(f, S \cup T) = SumFunctionOnSet(f, S) + SumFunctionOnSet(f, T)}
<1>0. SumFunctionOnSet(f, S) \in Int
  BY SumType
<1>1. ASSUME NEW T \in SUBSET R, \A x \in T : T \ {x} \in Good
      PROVE  T \in Good
  <2>1. CASE T = {}
    BY <1>0, <2>1, SumEmpty
  <2>2. CASE T # {}
    <3>1. PICK a \in T : TRUE
      BY <2>2
    <3>2. PICK U : U = T \ {a}
      OBVIOUS
    <3>3. IsFiniteSet(U) /\ U \subseteq R /\ a \notin U /\ T = U \cup {a}
      BY <3>2, FS_Subset
    <3>4. IsFiniteSet(S \cup U) /\ a \notin S \cup U /\ S \cup T = (S \cup U) \cup {a}
      BY <3>3, FS_Union
    <3>5. SumFunctionOnSet(f, (S \cup U) \cup {a}) = f[a] + SumFunctionOnSet(f, S \cup U)
      BY <3>3, <3>4, SumAdd
    <3>6. SumFunctionOnSet(f, U \cup {a}) = f[a] + SumFunctionOnSet(f, U)
      BY <3>3, SumAdd
    <3>7. SumFunctionOnSet(f, S \cup U) = SumFunctionOnSet(f, S) + SumFunctionOnSet(f, U)
      BY <1>1, <3>2
    <3>8. SumFunctionOnSet(f, U) \in Int /\ f[a] \in Int
      BY <3>3, SumType
    <3>9. SumFunctionOnSet(f, S \cup T)
            = f[a] + (SumFunctionOnSet(f, S) + SumFunctionOnSet(f, U))
      BY <3>4, <3>5, <3>7
    <3>10. SumFunctionOnSet(f, T) = f[a] + SumFunctionOnSet(f, U)
      BY <3>3, <3>6
    <3>11. SumFunctionOnSet(f, S \cup T) = SumFunctionOnSet(f, S) + SumFunctionOnSet(f, T)
      BY <1>0, <3>8, <3>9, <3>10
    <3> QED
      BY <3>11
  <2> QED
    BY <2>1, <2>2
<1>2. R \in Good
  <2> HIDE DEF Good
  <2> QED
    BY <1>1, SetInduction
<1> QED
  BY <1>2

(***************************************************************************)
(* How many are in the sets c[m].                                          *)
(***************************************************************************)
Together(c, M) == UNION {c[m] : m \in M}
Apart(c, M) == \A m, n \in M : m # n => c[m] \cap c[n] = {}

LEMMA CountTogether ==
  ASSUME NEW M, IsFiniteSet(M), NEW c, NEW f,
         \A m \in M : IsFiniteSet(c[m]) /\ f[m] = Cardinality(c[m])
  PROVE  /\ IsFiniteSet(Together(c, M))
         /\ Cardinality(Together(c, M)) <= SumFunctionOnSet(f, M)
         /\ Apart(c, M) => Cardinality(Together(c, M)) = SumFunctionOnSet(f, M)
<1> DEFINE Good == {T \in SUBSET M :
                      /\ IsFiniteSet(Together(c, T))
                      /\ Cardinality(Together(c, T)) <= SumFunctionOnSet(f, T)
                      /\ Apart(c, T) => Cardinality(Together(c, T)) = SumFunctionOnSet(f, T)}
<1>1. ASSUME NEW T \in SUBSET M, \A x \in T : T \ {x} \in Good
      PROVE  T \in Good
  <2>1. CASE T = {}
    <3>1. Together(c, T) = {}
      BY <2>1 DEF Together
    <3>2. IsFiniteSet(Together(c, T)) /\ Cardinality(Together(c, T)) = 0 /\ SumFunctionOnSet(f, T) = 0
      BY <2>1, <3>1, FS_EmptySet, SumEmpty
    <3> QED
      BY <3>2
  <2>2. CASE T # {}
    <3>1. PICK a \in T : TRUE
      BY <2>2
    <3>2. PICK U, A, B : U = T \ {a} /\ A = c[a] /\ B = Together(c, U)
      OBVIOUS
    <3>3. /\ IsFiniteSet(B) /\ Cardinality(B) <= SumFunctionOnSet(f, U)
          /\ Apart(c, U) => Cardinality(B) = SumFunctionOnSet(f, U)
      BY <1>1, <3>2
    <3>4. IsFiniteSet(A) /\ f[a] = Cardinality(A)
      BY <3>2
    <3>5. IsFiniteSet(U) /\ a \notin U /\ T = U \cup {a} /\ U \subseteq M
      BY <3>2, FS_Subset
    <3>6. \A x \in T : f[x] \in Nat
      BY FS_CardinalityType
    <3>7. SumFunctionOnSet(f, T) = f[a] + SumFunctionOnSet(f, U) /\ SumFunctionOnSet(f, U) \in Nat
      BY <3>5, <3>6, SumAdd, SumNat
    <3>8. Together(c, T) = A \cup B
      BY <3>2, <3>5 DEF Together
    <3>9. /\ IsFiniteSet(A \cup B)
          /\ Cardinality(A \cup B) = Cardinality(A) + Cardinality(B) - Cardinality(A \cap B)
      BY <3>3, <3>4, FS_Union
    <3>10. Cardinality(A) \in Nat /\ Cardinality(B) \in Nat /\ Cardinality(A \cap B) \in Nat
      BY <3>3, <3>4, FS_CardinalityType, FS_Intersection
    <3>11. Apart(c, T) => Apart(c, U) /\ Cardinality(A \cap B) = 0
      <4> SUFFICES ASSUME Apart(c, T) PROVE Apart(c, U) /\ A \cap B = {}
        BY FS_EmptySet
      <4>1. \A m \in U : A \cap c[m] = {}
        BY <3>2, <3>5 DEF Apart
      <4> QED
        BY <3>2, <3>5, <4>1 DEF Apart, Together
    <3>12. PICK x, y, z, s, t : /\ x = Cardinality(A) /\ y = Cardinality(B) /\ z = Cardinality(A \cap B)
                               /\ s = SumFunctionOnSet(f, U) /\ t = SumFunctionOnSet(f, T)
      OBVIOUS
    <3>13. Cardinality(Together(c, T)) = x + y - z /\ t = x + s
      BY <3>4, <3>7, <3>8, <3>9, <3>12
    <3>14. x \in Nat /\ y \in Nat /\ z \in Nat /\ s \in Nat /\ y <= s /\ (Apart(c, T) => y = s /\ z = 0)
      BY <3>3, <3>7, <3>10, <3>11, <3>12
    <3>15. x + y - z <= x + s /\ (Apart(c, T) => x + y - z = x + s)
      BY <3>14
    <3> QED
      BY <3>8, <3>9, <3>12, <3>13, <3>15
  <2> QED
    BY <2>1, <2>2
<1>2. M \in Good
  <2> HIDE DEF Good
  <2> QED
    BY <1>1, SetInduction
<1> QED
  BY <1>2
=============================================================================
