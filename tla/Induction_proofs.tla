-------------------------- MODULE Induction_proofs --------------------------
(***************************************************************************)
(* Induction and what it says of the recursive definitions of this         *)
(* project: the sums of Booking, the scans of MarketData and the draws of  *)
(* Ids.                                                                    *)
(*                                                                         *)
(* The library's induction theorems take the property as an operator,      *)
(* which the provers cannot instantiate.  Here the property is given as    *)
(* the set of the numbers, or of the subsets of a finite set, that have    *)
(* it.                                                                     *)
(***************************************************************************)
EXTENDS Integers, Sequences, Functions, SequenceTheorems, FiniteSetTheorems, WellFoundedInduction, TLAPS

LEMMA NatMinimum ==
  ASSUME NEW T \in SUBSET Nat, T # {}
  PROVE  \E n \in T : \A k \in T : n <= k
<1> DEFINE R == {ss \in Nat \X Nat : ss[1] < ss[2]}
<1>1. IsWellFoundedOn(R, Nat)
  BY NatLessThanWellFounded DEF OpToRel
<1>2. \A x, y \in Nat : <<y, x>> \in R <=> y < x
  BY Zenon
<1> HIDE DEF R
<1>3. PICK n \in T : \A k \in T : ~ (<<k, n>> \in R)
  BY <1>1, WFMin
<1>4. ASSUME NEW k \in T PROVE n <= k
  <2>1. n \in Nat /\ k \in Nat
    OBVIOUS
  <2>2. ~ (k < n)
    BY <1>2, <1>3, <2>1, Zenon
  <2> QED
    BY <2>1, <2>2
<1> QED
  BY <1>4

\* A set that has 0 and the successor of each of its members is Nat.
LEMMA NatSetInduction ==
  ASSUME NEW T \in SUBSET Nat, 0 \in T, \A n \in T : n + 1 \in T
  PROVE  T = Nat
<1> DEFINE F == Nat \ T
<1> SUFFICES ASSUME F # {} PROVE FALSE
  OBVIOUS
<1>1. PICK n \in F : \A k \in F : n <= k
  <2>1. F \in SUBSET Nat
    OBVIOUS
  <2> HIDE DEF F
  <2> QED
    BY <2>1, NatMinimum
<1>2. n \in Nat /\ n # 0 /\ n \notin T
  OBVIOUS
<1>3. n - 1 \in Nat /\ (n - 1) + 1 = n /\ ~ (n <= n - 1)
  BY <1>2
<1>4. n - 1 \in T
  BY <1>1, <1>3
<1> QED
  BY <1>2, <1>3, <1>4

LEMMA OneLess ==
  ASSUME NEW s, IsFiniteSet(s), NEW x \in s
  PROVE  /\ IsFiniteSet(s \ {x})
         /\ Cardinality(s) \in Nat /\ Cardinality(s \ {x}) \in Nat
         /\ Cardinality(s) = Cardinality(s \ {x}) + 1
<1>1. IsFiniteSet(s \ {x}) /\ Cardinality(s \ {x}) = Cardinality(s) - 1
  BY FS_RemoveElement
<1>2. Cardinality(s) \in Nat /\ Cardinality(s \ {x}) \in Nat
  BY <1>1, FS_CardinalityType
<1> QED
  BY <1>1, <1>2

\* A set of subsets of a finite set S that has every subset all of whose
\* subsets of one element less it has, has them all.
LEMMA SubsetInduction ==
  ASSUME NEW S, IsFiniteSet(S), NEW C \in SUBSET (SUBSET S),
         \A s \in SUBSET S : (\A x \in s : s \ {x} \in C) => s \in C
  PROVE  \A s \in SUBSET S : s \in C
<1> DEFINE T == {n \in Nat : \A s \in SUBSET S : Cardinality(s) = n => s \in C}
<1>1. \A s \in SUBSET S : IsFiniteSet(s) /\ Cardinality(s) \in Nat
  BY FS_Subset, FS_CardinalityType
<1>2. 0 \in T
  <2>1. \A s \in SUBSET S : Cardinality(s) = 0 => s = {}
    BY <1>1, FS_EmptySet
  <2> QED
    BY <2>1
<1>3. ASSUME NEW n \in T PROVE n + 1 \in T
  <2> SUFFICES ASSUME NEW s \in SUBSET S, Cardinality(s) = n + 1 PROVE s \in C
    OBVIOUS
  <2>1. ASSUME NEW x \in s PROVE s \ {x} \in C
    <3>1. Cardinality(s \ {x}) = n
      BY <1>1, OneLess
    <3> QED
      BY <3>1
  <2> QED
    BY <2>1
<1>4. T = Nat
  <2>1. T \in SUBSET Nat
    OBVIOUS
  <2> HIDE DEF T
  <2> QED
    BY <1>2, <1>3, <2>1, NatSetInduction
<1> QED
  BY <1>1, <1>4

-----------------------------------------------------------------------------
(* Recursion over 0 .. n, with the step as a function. *)

AreSteps(g, base, step, n) ==
  g = [i \in 0 .. n |-> IF i = 0 THEN base ELSE step[i][g[i - 1]]]

LEMMA StepsExist ==
  ASSUME NEW n \in Nat, NEW V, NEW base \in V, NEW step \in [1 .. n -> [V -> V]]
  PROVE  \E g : g \in [0 .. n -> V] /\ AreSteps(g, base, step, n)
<1> DEFINE G(g) == [i \in 0 .. n |-> IF i = 0 THEN base ELSE step[i][g[i - 1]]]
           Upto(k) == \E g \in [0 .. n -> V] : \A i \in 0 .. n : i <= k => g[i] = G(g)[i]
           T == {k \in Nat : Upto(k)}
<1>1. \A g \in [0 .. n -> V] : G(g) \in [0 .. n -> V]
  OBVIOUS
<1>2. 0 \in T
  <2> DEFINE g == [i \in 0 .. n |-> base]
  <2>1. g \in [0 .. n -> V] /\ \A i \in 0 .. n : i <= 0 => i = 0
    OBVIOUS
  <2>2. \A i \in 0 .. n : i <= 0 => g[i] = G(g)[i]
    OBVIOUS
  <2> HIDE DEF g, G
  <2> QED
    BY <2>1, <2>2
<1>3. ASSUME NEW k \in T PROVE k + 1 \in T
  <2>1. PICK g \in [0 .. n -> V] : \A i \in 0 .. n : i <= k => g[i] = G(g)[i]
    OBVIOUS
  <2> DEFINE h == G(g)
  <2>2. h \in [0 .. n -> V]
    BY <1>1
  <2>3. \A i \in 0 .. n : i <= k + 1 => h[i] = G(h)[i]
    <3>1. \A i \in 0 .. n : i <= k => h[i] = g[i]
      BY <2>1
    <3>2. \A i \in 0 .. n : i <= k + 1 /\ i # 0 => i - 1 \in 0 .. n /\ i - 1 <= k
      OBVIOUS
    <3> QED
      BY <3>1, <3>2
  <2> HIDE DEF h, G
  <2> QED
    BY <2>2, <2>3
<1>4. n \in T
  <2>1. T \in SUBSET Nat
    OBVIOUS
  <2> HIDE DEF T
  <2> QED
    BY <1>2, <1>3, <2>1, NatSetInduction
<1>5. PICK g \in [0 .. n -> V] : \A i \in 0 .. n : i <= n => g[i] = G(g)[i]
  BY <1>4
<1>6. g = G(g)
  BY <1>5
<1> QED
  BY <1>6 DEF AreSteps

\* The recursion has one solution, whether it is written with a step function
\* or not, and to a smaller bound it has the same.
LEMMA StepsAgree ==
  ASSUME NEW n \in Nat, NEW V, NEW base \in V, NEW step \in [1 .. n -> [V -> V]],
         NEW g, g[0] = base, \A i \in 1 .. n : g[i - 1] \in V => g[i] = step[i][g[i - 1]],
         NEW k \in 0 .. n,
         NEW h, h[0] = base, \A i \in 1 .. k : h[i - 1] \in V => h[i] = step[i][h[i - 1]]
  PROVE  \A i \in 0 .. k : g[i] \in V /\ h[i] = g[i]
<1> DEFINE T == {i \in Nat : i <= k => g[i] \in V /\ h[i] = g[i]}
<1>1. 0 \in T
  OBVIOUS
<1>2. ASSUME NEW i \in T PROVE i + 1 \in T
  <2> SUFFICES ASSUME i + 1 <= k PROVE g[i + 1] \in V /\ h[i + 1] = g[i + 1]
    OBVIOUS
  <2>1. i + 1 \in 1 .. n /\ i + 1 \in 1 .. k /\ (i + 1) - 1 = i /\ i <= k
    OBVIOUS
  <2>2. g[i] \in V /\ h[i] = g[i]
    BY <2>1
  <2>3. g[i + 1] = step[i + 1][g[i]] /\ h[i + 1] = step[i + 1][g[i]]
    <3>1. /\ g[(i + 1) - 1] \in V => g[i + 1] = step[i + 1][g[(i + 1) - 1]]
          /\ h[(i + 1) - 1] \in V => h[i + 1] = step[i + 1][h[(i + 1) - 1]]
      BY <2>1, Zenon
    <3> QED
      BY <2>1, <2>2, <3>1
  <2>4. step[i + 1] \in [V -> V]
    BY <2>1
  <2> QED
    BY <2>2, <2>3, <2>4
<1>3. T = Nat
  <2>1. T \in SUBSET Nat
    OBVIOUS
  <2> HIDE DEF T
  <2> QED
    BY <1>1, <1>2, <2>1, NatSetInduction
<1> TAKE i \in 0 .. k
<1>4. i \in Nat /\ i <= k
  OBVIOUS
<1>5. i \in T
  <2> HIDE DEF T
  <2> QED
    BY <1>3, <1>4
<1> QED
  BY <1>4, <1>5

(***************************************************************************)
(* A loop that keeps the position of the first of the largest numbers it   *)
(* has passed: best[i] is what it keeps after i turns, 0 at first.         *)
(***************************************************************************)
LEMMA FirstOfLargest ==
  ASSUME NEW n \in Nat, NEW number \in [1 .. n -> Int], NEW best, best[0] = 0,
         \A i \in 1 .. n : best[i - 1] = 0 => best[i] = i,
         \A i, v \in 1 .. n :
           best[i - 1] = v => best[i] = IF number[i] > number[v] THEN i ELSE v
  PROVE  \A k \in 1 .. n :
           /\ best[k] \in 1 .. k
           /\ \A j \in 1 .. k : number[j] <= number[best[k]]
           /\ \A j \in 1 .. k : j < best[k] => number[j] < number[best[k]]
<1> DEFINE First(k) ==
      /\ best[k] \in 1 .. k
      /\ \A j \in 1 .. k : number[j] <= number[best[k]]
      /\ \A j \in 1 .. k : j < best[k] => number[j] < number[best[k]]
    T == {k \in Nat : k + 1 <= n => First(k + 1)}
<1>1. 0 \in T
  <2> SUFFICES ASSUME 1 <= n PROVE First(1)
    OBVIOUS
  <2>1. 1 \in 1 .. n /\ best[1 - 1] = 0
    OBVIOUS
  <2>2. best[1] = 1
    BY <2>1
  <2> QED
    BY <2>1, <2>2
<1>2. ASSUME NEW k \in T PROVE k + 1 \in T
  <2> SUFFICES ASSUME (k + 1) + 1 <= n PROVE First((k + 1) + 1)
    OBVIOUS
  <2> DEFINE i == k + 2
             v == best[k + 1]
  <2>1. First(k + 1)
    OBVIOUS
  <2>2. i \in 1 .. n /\ i - 1 = k + 1 /\ v \in 1 .. k + 1 /\ v \in 1 .. n
    BY <2>1
  <2>3. best[i] = IF number[i] > number[v] THEN i ELSE v
    BY <2>2, Zenon
  <2>4. \A j \in 1 .. i : j = i \/ j \in 1 .. k + 1
    OBVIOUS
  <2>5. \A j \in 1 .. k + 1 : /\ number[j] \in Int /\ j < i
                              /\ number[j] <= number[v]
                              /\ j < v => number[j] < number[v]
    BY <2>1
  <2>6. number[i] \in Int /\ number[v] \in Int /\ i \in Nat /\ v \in Nat /\ v < i
    BY <2>2
  <2> HIDE DEF i, v
  <2>7. First(i)
    <3>1. CASE number[i] > number[v]
      <4>1. best[i] = i /\ i \in 1 .. i
        BY <2>2, <2>3, <3>1
      <4>2. \A j \in 1 .. k + 1 : number[j] < number[i]
        BY <2>5, <2>6, <3>1
      <4>3. \A j \in 1 .. i : number[j] <= number[i] /\ (j < i => number[j] < number[i])
        <5> TAKE j \in 1 .. i
        <5>1. CASE j = i
          BY <2>6, <5>1
        <5>2. CASE j \in 1 .. k + 1
          BY <2>5, <2>6, <4>2, <5>2
        <5> QED
          BY <2>4, <5>1, <5>2
      <4> QED
        BY <4>1, <4>3
    <3>2. CASE ~ (number[i] > number[v])
      <4>1. best[i] = v /\ v \in 1 .. i
        BY <2>2, <2>3, <2>6, <3>2
      <4>2. \A j \in 1 .. i : number[j] <= number[v] /\ (j < v => number[j] < number[v])
        <5> TAKE j \in 1 .. i
        <5>1. CASE j = i
          BY <2>6, <3>2, <5>1
        <5>2. CASE j \in 1 .. k + 1
          BY <2>5, <5>2
        <5> QED
          BY <2>4, <5>1, <5>2
      <4> QED
        BY <4>1, <4>2
    <3> QED
      BY <3>1, <3>2
  <2> QED
    BY <2>7 DEF i
<1>3. T = Nat
  <2>1. T \in SUBSET Nat
    OBVIOUS
  <2> HIDE DEF T
  <2> QED
    BY <1>1, <1>2, <2>1, NatSetInduction
<1> SUFFICES ASSUME NEW k \in 1 .. n PROVE First(k)
  OBVIOUS
<1>4. k - 1 \in Nat /\ (k - 1) + 1 = k /\ k <= n
  OBVIOUS
<1>5. k - 1 \in T
  <2> HIDE DEF T
  <2> QED
    BY <1>3, <1>4
<1> HIDE DEF First
<1>6. (k - 1) + 1 <= n => First((k - 1) + 1)
  BY <1>5
<1> QED
  BY <1>4, <1>6

-----------------------------------------------------------------------------
(* Sums.  Chosen is the element that a sum takes next. *)

Chosen(s) == CHOOSE x \in s : TRUE

AreSums(g, f, S) ==
  g = [s \in SUBSET S |-> IF s = {} THEN 0 ELSE f[Chosen(s)] + g[s \ {Chosen(s)}]]

LEMMA SumsExist ==
  ASSUME NEW f, NEW S, IsFiniteSet(S)
  PROVE  \E g : AreSums(g, f, S)
<1> DEFINE G(g) ==
      [s \in SUBSET S |-> IF s = {} THEN 0 ELSE f[Chosen(s)] + g[s \ {Chosen(s)}]]
    Upto(n) == \E g : \A s \in SUBSET S : Cardinality(s) <= n => g[s] = G(g)[s]
    T == {n \in Nat : Upto(n)}
<1>1. \A s \in SUBSET S : IsFiniteSet(s) /\ Cardinality(s) \in Nat
  BY FS_Subset, FS_CardinalityType
<1>2. 0 \in T
  <2>1. \A s \in SUBSET S : Cardinality(s) <= 0 => s = {}
    BY <1>1, FS_EmptySet
  <2> QED
    BY <2>1
<1>3. ASSUME NEW n \in T PROVE n + 1 \in T
  <2>1. PICK g : \A s \in SUBSET S : Cardinality(s) <= n => g[s] = G(g)[s]
    BY <1>3
  <2> DEFINE h == G(g)
  <2>2. \A s \in SUBSET S : Cardinality(s) <= n => h[s] = g[s]
    BY <2>1
  <2>3. ASSUME NEW s \in SUBSET S, Cardinality(s) <= n + 1, s # {}
        PROVE  h[s \ {Chosen(s)}] = g[s \ {Chosen(s)}]
    <3>1. Chosen(s) \in s
      BY <2>3 DEF Chosen
    <3>2. Cardinality(s \ {Chosen(s)}) <= n
      BY <1>1, <2>3, <3>1, OneLess
    <3>3. s \ {Chosen(s)} \in SUBSET S
      OBVIOUS
    <3> QED
      BY <2>2, <3>2, <3>3, Zenon
  <2>4. \A s \in SUBSET S : Cardinality(s) <= n + 1 => h[s] = G(h)[s]
    BY <2>3
  <2> HIDE DEF h, G
  <2> QED
    BY <2>4
<1>4. Cardinality(S) \in T
  <2>1. T \in SUBSET Nat /\ Cardinality(S) \in Nat
    BY <1>1
  <2> HIDE DEF T
  <2> QED
    BY <1>2, <1>3, <2>1, NatSetInduction
<1>5. PICK g : \A s \in SUBSET S : Cardinality(s) <= Cardinality(S) => g[s] = G(g)[s]
  BY <1>4
<1>6. \A s \in SUBSET S : G(g)[s] = g[s]
  <2>1. \A s \in SUBSET S : Cardinality(s) <= Cardinality(S)
    BY FS_Subset
  <2> QED
    BY <1>5, <2>1
<1>7. G(g) = G(G(g))
  BY <1>6
<1> QED
  BY <1>7 DEF AreSums

LEMMA SumIsOfSums ==
  ASSUME NEW f, NEW S, IsFiniteSet(S)
  PROVE  \E g : AreSums(g, f, S) /\ SumFunctionOnSet(f, S) = g[S]
<1> DEFINE g == CHOOSE g : AreSums(g, f, S)
<1>1. AreSums(g, f, S)
  BY SumsExist
<1>2. SumFunctionOnSet(f, S) = g[S]
  BY DEF SumFunctionOnSet, FoldFunctionOnSet, MapThenFoldSet, AreSums, Chosen
<1> QED
  BY <1>1, <1>2

LEMMA SumsAreIntegers ==
  ASSUME NEW f, NEW S, IsFiniteSet(S), NEW g, AreSums(g, f, S),
         \A x \in S : f[x] \in Int
  PROVE  \A s \in SUBSET S : g[s] \in Int
<1> DEFINE C == {s \in SUBSET S : g[s] \in Int}
<1>1. ASSUME NEW s \in SUBSET S, \A x \in s : s \ {x} \in C
      PROVE  s \in C
  <2>1. g[s] = IF s = {} THEN 0 ELSE f[Chosen(s)] + g[s \ {Chosen(s)}]
    BY DEF AreSums
  <2>2. CASE s = {}
    BY <2>1, <2>2
  <2>3. CASE s # {}
    <3>1. Chosen(s) \in s
      BY <2>3 DEF Chosen
    <3>2. f[Chosen(s)] \in Int /\ g[s \ {Chosen(s)}] \in Int
      BY <1>1, <3>1
    <3> QED
      BY <2>1, <2>3, <3>2
  <2> QED
    BY <2>2, <2>3
<1>2. \A s \in SUBSET S : s \in C
  <2>1. C \in SUBSET (SUBSET S)
    OBVIOUS
  <2> HIDE DEF C
  <2> QED
    BY <1>1, <2>1, SubsetInduction
<1> QED
  BY <1>2

\* The elements may be taken in any order.
LEMMA SumsTakeAny ==
  ASSUME NEW f, NEW S, IsFiniteSet(S), NEW g, AreSums(g, f, S),
         \A x \in S : f[x] \in Int
  PROVE  \A s \in SUBSET S : \A x \in s : g[s] = f[x] + g[s \ {x}]
<1> DEFINE C == {s \in SUBSET S : \A x \in s : g[s] = f[x] + g[s \ {x}]}
<1>1. ASSUME NEW s \in SUBSET S, \A x \in s : s \ {x} \in C, NEW x \in s
      PROVE  g[s] = f[x] + g[s \ {x}]
  <2> DEFINE y == Chosen(s)
             rest == g[(s \ {x}) \ {y}]
  <2>1. y \in s
    BY DEF Chosen
  <2>2. g[s] = f[y] + g[s \ {y}]
    BY <1>1 DEF AreSums
  <2>3. CASE x = y
    BY <2>2, <2>3
  <2>4. CASE x # y
    <3>1. s \ {y} \in C /\ s \ {x} \in C
      BY <1>1, <2>1
    <3> HIDE DEF y
    <3>2. g[s \ {y}] = f[x] + g[(s \ {y}) \ {x}]
      BY <2>4, <3>1
    <3>3. g[s \ {x}] = f[y] + rest
      BY <2>1, <2>4, <3>1
    <3>4. (s \ {y}) \ {x} = (s \ {x}) \ {y}
      OBVIOUS
    <3>5. g[s] = f[y] + (f[x] + rest)
      BY <2>2, <3>2, <3>4, Zenon
    <3>6. f[x] \in Int /\ f[y] \in Int /\ rest \in Int
      BY <2>1, SumsAreIntegers
    <3> HIDE DEF rest
    <3>7. f[y] + (f[x] + rest) = f[x] + (f[y] + rest)
      BY <3>6
    <3> QED
      BY <3>3, <3>5, <3>7, Zenon
  <2> QED
    BY <2>3, <2>4
<1>2. \A s \in SUBSET S : s \in C
  <2>1. \A s \in SUBSET S : (\A x \in s : s \ {x} \in C) => s \in C
    BY <1>1
  <2>2. C \in SUBSET (SUBSET S)
    OBVIOUS
  <2> HIDE DEF C
  <2> QED
    BY <2>1, <2>2, SubsetInduction
<1> QED
  BY <1>2

\* A sum over T depends on the values at members of T alone.
LEMMA SumsAgree ==
  ASSUME NEW f, NEW g, NEW S, IsFiniteSet(S), AreSums(g, f, S),
         NEW d, NEW h, NEW T \in SUBSET S, AreSums(h, d, T),
         \A x \in T : d[x] = f[x]
  PROVE  h[T] = g[T]
<1> DEFINE C == {s \in SUBSET T : h[s] = g[s]}
<1>1. ASSUME NEW s \in SUBSET T, \A x \in s : s \ {x} \in C
      PROVE  s \in C
  <2>1. /\ g[s] = IF s = {} THEN 0 ELSE f[Chosen(s)] + g[s \ {Chosen(s)}]
        /\ h[s] = IF s = {} THEN 0 ELSE d[Chosen(s)] + h[s \ {Chosen(s)}]
    BY DEF AreSums
  <2>2. s # {} => Chosen(s) \in s
    BY DEF Chosen
  <2> QED
    BY <1>1, <2>1, <2>2
<1>2. T \in C
  <2>1. C \in SUBSET (SUBSET T) /\ T \in SUBSET T /\ IsFiniteSet(T)
    BY FS_Subset
  <2> HIDE DEF C
  <2> QED
    BY <1>1, <2>1, SubsetInduction
<1> QED
  BY <1>2

\* What the proofs about Booking need of a sum.
LEMMA SumOfNone == \A f : SumFunctionOnSet(f, {}) = 0
<1> SUFFICES ASSUME NEW f PROVE SumFunctionOnSet(f, {}) = 0
  OBVIOUS
<1>1. PICK g : AreSums(g, f, {}) /\ SumFunctionOnSet(f, {}) = g[{}]
  BY FS_EmptySet, SumIsOfSums
<1> QED
  BY <1>1 DEF AreSums

LEMMA SumType ==
  ASSUME NEW f, NEW S, IsFiniteSet(S), \A x \in S : f[x] \in Int
  PROVE  SumFunctionOnSet(f, S) \in Int
<1>1. PICK g : AreSums(g, f, S) /\ SumFunctionOnSet(f, S) = g[S]
  BY SumIsOfSums
<1> QED
  BY <1>1, SumsAreIntegers

LEMMA SumSame ==
  ASSUME NEW f, NEW S, IsFiniteSet(S), NEW d, \A x \in S : d[x] = f[x]
  PROVE  SumFunctionOnSet(d, S) = SumFunctionOnSet(f, S)
<1>1. PICK g : AreSums(g, f, S) /\ SumFunctionOnSet(f, S) = g[S]
  BY SumIsOfSums
<1>2. PICK h : AreSums(h, d, S) /\ SumFunctionOnSet(d, S) = h[S]
  BY SumIsOfSums
<1> QED
  BY <1>1, <1>2, SumsAgree

LEMMA SumOfOneMore ==
  ASSUME NEW f, NEW S, IsFiniteSet(S), NEW x, x \notin S,
         \A y \in S \cup {x} : f[y] \in Int
  PROVE  SumFunctionOnSet(f, S \cup {x}) = SumFunctionOnSet(f, S) + f[x]
<1> DEFINE U == S \cup {x}
<1>1. IsFiniteSet(U)
  BY FS_AddElement
<1>2. U \ {x} = S /\ S \in SUBSET U /\ U \in SUBSET U /\ x \in U
  OBVIOUS
<1>3. \A y \in U : f[y] \in Int
  OBVIOUS
<1> HIDE DEF U
<1>4. PICK g : AreSums(g, f, U) /\ SumFunctionOnSet(f, U) = g[U]
  BY <1>1, SumIsOfSums
<1>5. PICK h : AreSums(h, f, S) /\ SumFunctionOnSet(f, S) = h[S]
  BY SumIsOfSums
<1>6. h[S] = g[S]
  BY <1>1, <1>2, <1>4, <1>5, SumsAgree
<1>7. g[U] = f[x] + g[S]
  BY <1>1, <1>2, <1>3, <1>4, SumsTakeAny
<1>8. g[S] \in Int /\ f[x] \in Int
  BY <1>1, <1>2, <1>3, <1>4, SumsAreIntegers
<1> QED
  BY <1>4, <1>5, <1>6, <1>7, <1>8 DEF U

-----------------------------------------------------------------------------
(* Sequences of two, as the wiring of the services joins them. *)

LEMMA JoinTwo ==
  ASSUME NEW b, NEW c
  PROVE  <<b>> \o <<c>> = <<b, c>>
<1> DEFINE S == {b, c}
           s == <<b>> \o <<c>>
           t == <<b, c>>
<1>1. b \in S /\ c \in S
  OBVIOUS
<1> HIDE DEF S
<1>2. <<b>> \in Seq(S) /\ <<c>> \in Seq(S) /\ t \in Seq(S)
  BY <1>1
<1>3. s \in Seq(S) /\ Len(s) = 2 /\ Len(t) = 2
  BY <1>2
<1>4. s[1] = b /\ s[2] = c /\ t[1] = b /\ t[2] = c
  BY <1>2
<1>5. \A i \in 1 .. 2 : i = 1 \/ i = 2
  OBVIOUS
<1> HIDE DEF s, t
<1>6. s = t
  BY <1>2, <1>3, <1>4, <1>5, SeqEqual
<1> QED
  BY <1>6 DEF s, t

=============================================================================
