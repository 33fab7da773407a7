---------------------------- MODULE DataInduction ---------------------------
(***************************************************************************)
(* Induction and recursion over natural numbers and finite sets, with sets *)
(* and functions in the place of predicates and operators: the form in     *)
(* which the proofs about folds, sums and ancestors can cite them.         *)
(***************************************************************************)
EXTENDS Integers, Functions, WellFoundedInduction, FiniteSetTheorems, TLAPS

\* A set with 0 and with every successor of its numbers has all numbers:
\* otherwise there would be a least one outside.
LEMMA NatSetInduction ==
    ASSUME NEW S, 0 \in S, \A n \in Nat : n \in S => n + 1 \in S
    PROVE  \A n \in Nat : n \in S
  <1> DEFINE T == {n \in Nat : n \notin S}
  <1> SUFFICES ASSUME T # {} PROVE FALSE
    OBVIOUS
  <1>1. \E k \in T : \A m \in T : ~(<<m, k>> \in OpToRel(<, Nat))
    <2>1. T \subseteq Nat
      OBVIOUS
    <2> HIDE DEF T
    <2> QED
      BY <2>1, NatLessThanWellFounded, WFMin
  <1>2. PICK k \in T : \A m \in T : ~(<<m, k>> \in OpToRel(<, Nat))
    BY <1>1
  <1>3. k \in Nat \ {0} /\ k - 1 \in Nat /\ k - 1 < k /\ k = (k - 1) + 1
    OBVIOUS
  <1>4. k - 1 \notin T
    <2>1. <<k - 1, k>> \in Nat \X Nat
      BY <1>3
    <2>2. <<k - 1, k>> \in OpToRel(<, Nat)
      BY <1>3, <2>1 DEF OpToRel
    <2> QED
      BY <1>2, <2>2
  <1> QED
    BY <1>3, <1>4

\* Some number of a set of natural numbers is the least of them.
LEMMA LeastOfNaturals ==
    ASSUME NEW T, T \subseteq Nat, T # {}
    PROVE  \E k \in T : \A m \in T : k <= m
  <1>1. \E k \in T : \A m \in T : ~(<<m, k>> \in OpToRel(<, Nat))
    BY NatLessThanWellFounded, WFMin
  <1>2. PICK k \in T : \A m \in T : ~(<<m, k>> \in OpToRel(<, Nat))
    BY <1>1
  <1>3. ASSUME NEW m \in T PROVE k <= m
    <2>1. <<m, k>> \in Nat \X Nat
      OBVIOUS
    <2>2. m < k => <<m, k>> \in OpToRel(<, Nat)
      BY <2>1 DEF OpToRel
    <2>3. ~(m < k)
      BY <1>2, <2>2
    <2>4. m \in Nat /\ k \in Nat
      OBVIOUS
    <2> QED
      BY <2>3, <2>4
  <1> QED
    BY <1>3

\* The functions on 0..n that begin with a and go on by g.
Beginnings(S, a, g, n) ==
    {h \in [0 .. n -> S] : h[0] = a /\ \A i \in 1 .. n : h[i] = g[<<i, h[i - 1]>>]}

\* f begins with a and goes on by g.
Follows(f, a, g) == f[0] = a /\ \A n \in Nat : f[n + 1] = g[<<n + 1, f[n]>>]

\* Recursion over the natural numbers: there is one function with a given
\* first value and a given step.
LEMMA NatRecursion ==
    ASSUME NEW S, NEW a \in S, NEW g \in [Nat \X S -> S]
    PROVE  \E f \in [Nat -> S] : Follows(f, a, g)
  <1> DEFINE B(n) == Beginnings(S, a, g, n)
  \* Two beginnings agree as far as both go.
  <1>1. ASSUME NEW m \in Nat, NEW n \in Nat, NEW h \in B(m), NEW k \in B(n)
        PROVE  \A i \in Nat : i <= m /\ i <= n => h[i] = k[i]
    <2> DEFINE P == {i \in Nat : i <= m /\ i <= n => h[i] = k[i]}
    <2>1. 0 \in P
      BY DEF Beginnings
    <2>2. ASSUME NEW i \in Nat, i \in P PROVE i + 1 \in P
      <3> SUFFICES ASSUME i + 1 <= m, i + 1 <= n PROVE h[i + 1] = k[i + 1]
        OBVIOUS
      <3>1. h[i] = k[i]
        BY <2>2
      <3>2. i + 1 \in 1 .. m /\ i + 1 \in 1 .. n /\ (i + 1) - 1 = i
        OBVIOUS
      <3> QED
        BY <3>1, <3>2 DEF Beginnings
    <2>3. \A i \in Nat : i \in P
      <3> HIDE DEF P
      <3> QED
        BY <2>1, <2>2, NatSetInduction
    <2> QED
      BY <2>3
  \* There is a beginning of every length.
  <1>2. \A n \in Nat : B(n) # {}
    <2> DEFINE P == {n \in Nat : B(n) # {}}
    <2>1. 0 \in P
      <3>1. [i \in 0 .. 0 |-> a] \in B(0)
        BY DEF Beginnings
      <3> QED
        BY <3>1
    <2>2. ASSUME NEW n \in Nat, n \in P PROVE n + 1 \in P
      <3>1. PICK h \in [0 .. n -> S] : h[0] = a /\ \A i \in 1 .. n : h[i] = g[<<i, h[i - 1]>>]
        BY <2>2 DEF Beginnings
      <3> DEFINE k == [i \in 0 .. n + 1 |-> IF i <= n THEN h[i] ELSE g[<<n + 1, h[n]>>]]
      <3>2. h[n] \in S /\ <<n + 1, h[n]>> \in Nat \X S
        BY <3>1
      <3>3. k \in [0 .. n + 1 -> S]
        BY <3>1, <3>2
      <3>4. k[0] = a
        BY <3>1
      <3>5. ASSUME NEW i \in 1 .. n + 1 PROVE k[i] = g[<<i, k[i - 1]>>]
        <4>1. i - 1 \in 0 .. n /\ i - 1 \in 0 .. n + 1 /\ i - 1 <= n
          OBVIOUS
        <4>2. k[i - 1] = h[i - 1]
          BY <4>1
        <4>3. i \in 0 .. n + 1
          OBVIOUS
        <4>4. CASE i <= n
          <5>1. k[i] = h[i] /\ i \in 1 .. n
            BY <4>3, <4>4
          <5> HIDE DEF k
          <5> QED
            BY <3>1, <4>2, <5>1
        <4>5. CASE i = n + 1
          <5>1. k[i] = g[<<n + 1, h[n]>>] /\ i - 1 = n
            BY <4>3, <4>5
          <5> HIDE DEF k
          <5> QED
            BY <4>2, <4>5, <5>1
        <4> QED
          BY <4>4, <4>5
      <3>6. k \in B(n + 1)
        BY <3>3, <3>4, <3>5 DEF Beginnings
      <3> QED
        BY <3>6
    <2> HIDE DEF P
    <2>3. \A n \in Nat : n \in P
      BY <2>1, <2>2, NatSetInduction
    <2> QED
      BY <2>3 DEF P
  <1> DEFINE b(n) == CHOOSE h : h \in B(n)
  <1>3. \A n \in Nat : b(n) \in B(n)
    BY <1>2
  <1> DEFINE f == [n \in Nat |-> b(n)[n]]
  <1>4. f \in [Nat -> S]
    <2>1. ASSUME NEW n \in Nat PROVE b(n)[n] \in S
      <3>1. b(n) \in B(n)
        BY <1>3
      <3> HIDE DEF b
      <3>2. b(n) \in [0 .. n -> S]
        BY <3>1 DEF Beginnings
      <3> QED
        BY <3>2
    <2> QED
      BY <2>1
  <1>5. f[0] = a
    BY <1>3 DEF Beginnings
  <1>6. ASSUME NEW n \in Nat PROVE f[n + 1] = g[<<n + 1, f[n]>>]
    <2>1. b(n) \in B(n) /\ b(n + 1) \in B(n + 1)
      BY <1>3
    <2>2. b(n + 1)[n] = b(n)[n]
      BY <1>1, <2>1
    <2>3. b(n + 1)[n + 1] = g[<<n + 1, b(n + 1)[n]>>]
      <3>1. n + 1 \in 1 .. n + 1 /\ (n + 1) - 1 = n
        OBVIOUS
      <3> QED
        BY <2>1, <3>1 DEF Beginnings
    <2> QED
      BY <2>2, <2>3
  <1> HIDE DEF f
  <1>7. Follows(f, a, g)
    BY <1>5, <1>6 DEF Follows
  <1> QED
    BY <1>4, <1>7

-----------------------------------------------------------------------------
(* Finite sets                                                             *)

\* What holds of the empty set, and of a set when it holds without any one of
\* its elements, holds of every subset of a finite set.
LEMMA FiniteSetInduction ==
    ASSUME NEW S, IsFiniteSet(S), NEW P, {} \in P,
           \A T \in SUBSET S : T # {} /\ (\A x \in T : T \ {x} \in P) => T \in P
    PROVE  \A T \in SUBSET S : T \in P
  <1> DEFINE Q == {n \in Nat : \A T \in SUBSET S : Cardinality(T) = n => T \in P}
  <1>1. \A T \in SUBSET S : IsFiniteSet(T) /\ Cardinality(T) \in Nat
    BY FS_Subset, FS_CardinalityType
  <1>2. 0 \in Q
    <2>1. \A T \in SUBSET S : Cardinality(T) = 0 => T = {}
      BY <1>1, FS_EmptySet
    <2> QED
      BY <2>1
  <1>3. ASSUME NEW n \in Nat, n \in Q PROVE n + 1 \in Q
    <2> SUFFICES ASSUME NEW T \in SUBSET S, Cardinality(T) = n + 1 PROVE T \in P
      OBVIOUS
    <2>1. T # {}
      <3>1. Cardinality(T) # 0
        BY <1>3
      <3> QED
        BY <3>1, FS_EmptySet
    <2>2. ASSUME NEW x \in T PROVE T \ {x} \in P
      <3>1. Cardinality(T \ {x}) = Cardinality(T) - 1
        BY <1>1, FS_RemoveElement
      <3>2. Cardinality(T \ {x}) = n
        BY <3>1
      <3> QED
        BY <1>3, <3>2
    <2> QED
      BY <2>1, <2>2
  <1>4. \A n \in Nat : n \in Q
    <2> HIDE DEF Q
    <2> QED
      BY <1>2, <1>3, NatSetInduction
  <1> QED
    BY <1>1, <1>4

\* iter is base for the empty set and goes on by g, one picked element at a time.
FollowsSets(iter, S, base, g, pick) ==
    /\ iter[{}] = base
    /\ \A T \in SUBSET S : T # {} => iter[T] = g[<<pick[T], iter[T \ {pick[T]}]>>]

\* Recursion over the subsets of a finite set: a function is given by its value
\* for the empty set and by how one element, picked by pick, is added.
LEMMA FiniteSetRecursion ==
    ASSUME NEW S, IsFiniteSet(S), NEW V, NEW base \in V, NEW g \in [S \X V -> V],
           NEW pick, \A T \in SUBSET S : T # {} => pick[T] \in T
    PROVE  \E iter \in [SUBSET S -> V] : FollowsSets(iter, S, base, g, pick)
  <1> DEFINE Step(F) == [T \in SUBSET S |-> IF T = {} THEN base
                                           ELSE g[<<pick[T], F[T \ {pick[T]}]>>]]
             Layers == [SUBSET S -> V]
             next == [p \in Nat \X Layers |-> Step(p[2])]
             zero == [T \in SUBSET S |-> base]
  <1>1. ASSUME NEW F \in Layers PROVE Step(F) \in Layers
    <2>1. ASSUME NEW T \in SUBSET S, T # {} PROVE g[<<pick[T], F[T \ {pick[T]}]>>] \in V
      <3>1. pick[T] \in S /\ F[T \ {pick[T]}] \in V
        BY <2>1
      <3> QED
        BY <3>1
    <2> QED
      BY <2>1
  <1>2. zero \in Layers /\ next \in [Nat \X Layers -> Layers]
    BY <1>1
  <1>3. PICK L \in [Nat -> Layers] : L[0] = zero /\ \A n \in Nat : L[n + 1] = next[<<n + 1, L[n]>>]
    <2> HIDE DEF Layers, next, zero
    <2>1. \E f \in [Nat -> Layers] : Follows(f, zero, next)
      BY <1>2, NatRecursion
    <2> QED
      BY <2>1 DEF Follows
  <1>4. ASSUME NEW n \in Nat PROVE L[n] \in Layers /\ L[n + 1] = Step(L[n])
    <2>1. L[n] \in Layers /\ <<n + 1, L[n]>> \in Nat \X Layers
      BY <1>3
    <2> HIDE DEF Layers, Step
    <2> QED
      BY <1>3, <2>1
  <1> DEFINE N == Cardinality(S)
  <1>5. N \in Nat
    BY FS_CardinalityType
  \* A layer is right for the sets that are smaller than its number.
  <1>6. \A n \in Nat : \A T \in SUBSET S : Cardinality(T) <= n => L[n + 1][T] = L[n][T]
    <2> DEFINE P == {n \in Nat : \A T \in SUBSET S : Cardinality(T) <= n => L[n + 1][T] = L[n][T]}
    <2>1. \A T \in SUBSET S : IsFiniteSet(T) /\ Cardinality(T) \in Nat
      BY FS_Subset, FS_CardinalityType
    <2>2. 0 \in P
      <3> SUFFICES ASSUME NEW T \in SUBSET S, Cardinality(T) <= 0 PROVE L[0 + 1][T] = L[0][T]
        OBVIOUS
      <3>1. Cardinality(T) = 0
        BY <2>1
      <3>2. T = {}
        BY <2>1, <3>1, FS_EmptySet
      <3>3. L[0 + 1] = Step(L[0]) /\ L[0] = zero
        BY <1>3, <1>4
      <3> QED
        BY <3>2, <3>3
    <2>3. ASSUME NEW n \in Nat, n \in P PROVE n + 1 \in P
      <3> SUFFICES ASSUME NEW T \in SUBSET S, Cardinality(T) <= n + 1
                   PROVE  L[(n + 1) + 1][T] = L[n + 1][T]
        OBVIOUS
      <3>1. L[(n + 1) + 1] = Step(L[n + 1]) /\ L[n + 1] = Step(L[n])
        <4>1. n + 1 \in Nat
          OBVIOUS
        <4> HIDE DEF Step
        <4> QED
          BY <1>4, <4>1
      <3>2. CASE T = {}
        BY <3>1, <3>2
      <3>3. CASE T # {}
        <4> DEFINE U == T \ {pick[T]}
        <4>1. pick[T] \in T /\ U \in SUBSET S
          BY <3>3
        <4>2. Cardinality(U) = Cardinality(T) - 1
          BY <2>1, <4>1, FS_RemoveElement
        <4>3. Cardinality(U) <= n
          BY <2>1, <4>2
        <4>4. L[n + 1][U] = L[n][U]
          <5> HIDE DEF U
          <5> QED
            BY <2>3, <4>1, <4>3
        <4>5. Step(L[n + 1])[T] = g[<<pick[T], L[n + 1][U]>>]
              /\ Step(L[n])[T] = g[<<pick[T], L[n][U]>>]
          BY <3>3
        <4> QED
          BY <3>1, <4>4, <4>5
      <3> QED
        BY <3>2, <3>3
    <2>4. \A n \in Nat : n \in P
      <3> HIDE DEF P
      <3> QED
        BY <2>2, <2>3, NatSetInduction
    <2> QED
      BY <2>4
  <1>7. \A T \in SUBSET S : L[N + 1][T] = L[N][T]
    <2>1. \A T \in SUBSET S : Cardinality(T) <= N
      BY FS_Subset
    <2> QED
      BY <1>5, <1>6, <2>1
  <1>8. L[N] \in Layers /\ L[N + 1] = Step(L[N])
    BY <1>4, <1>5
  <1>9. L[N][{}] = base
    BY <1>7, <1>8
  <1>10. ASSUME NEW T \in SUBSET S, T # {}
         PROVE  L[N][T] = g[<<pick[T], L[N][T \ {pick[T]}]>>]
    BY <1>7, <1>8, <1>10
  <1>11. FollowsSets(L[N], S, base, g, pick)
    <2> HIDE DEF N
    <2> QED
      BY <1>9, <1>10 DEF FollowsSets
  <1> QED
    BY <1>8, <1>11

\* A function that takes every value once shows that two sets have one size.
LEMMA SameSize ==
    ASSUME NEW S, IsFiniteSet(S), NEW T, NEW f \in [S -> T],
           \A x, y \in S : f[x] = f[y] => x = y,
           \A y \in T : \E x \in S : f[x] = y
    PROVE  IsFiniteSet(T) /\ Cardinality(T) = Cardinality(S)
  <1>1. f \in Injection(S, T)
    BY DEF Injection, IsInjective
  <1>2. f \in Surjection(S, T)
    BY DEF Surjection
  <1>3. ExistsBijection(S, T)
    BY <1>1, <1>2 DEF ExistsBijection, Bijection
  <1> QED
    BY <1>3, FS_Bijection

\* The values of a function on a finite set are finitely many.
LEMMA FiniteValues ==
    ASSUME NEW S, IsFiniteSet(S), NEW f
    PROVE  IsFiniteSet({f[x] : x \in S})
  <1> DEFINE g == [x \in S |-> f[x]]
             T == {f[x] : x \in S}
  <1>1. g \in Surjection(S, T)
    BY DEF Surjection
  <1> QED
    BY <1>1, FS_Surjection

-----------------------------------------------------------------------------
(* Sums                                                                    *)

\* The element a fold over T takes first.
Pick(T) == CHOOSE x \in T : TRUE

\* sum is the sum of f over each subset of S, one picked element after another.
PartialSums(sum, f, S) ==
    /\ sum \in [SUBSET S -> Int]
    /\ sum[{}] = 0
    /\ \A T \in SUBSET S : T # {} => sum[T] = f[Pick(T)] + sum[T \ {Pick(T)}]

\* The sum of the library is the last of its partial sums.
LEMMA SumIsPartialSum ==
    ASSUME NEW S, IsFiniteSet(S), NEW f, \A x \in S : f[x] \in Int
    PROVE  \E sum : PartialSums(sum, f, S) /\ SumFunctionOnSet(f, S) = sum[S]
  <1> DEFINE Equation(iter) ==
               iter = [T \in SUBSET S |-> IF T = {} THEN 0
                                          ELSE f[Pick(T)] + iter[T \ {Pick(T)}]]
             pick == [T \in SUBSET S |-> Pick(T)]
             g == [p \in S \X Int |-> f[p[1]] + p[2]]
  <1>1. SumFunctionOnSet(f, S) = (CHOOSE iter : Equation(iter))[S]
    BY DEF SumFunctionOnSet, FoldFunctionOnSet, MapThenFoldSet, Pick
  <1>2. \A T \in SUBSET S : T # {} => Pick(T) \in T
    BY DEF Pick
  <1>3. \E iter : Equation(iter)
    <2>1. g \in [S \X Int -> Int] /\ 0 \in Int
      OBVIOUS
    <2>2. \A T \in SUBSET S : T # {} => pick[T] \in T
      BY <1>2
    <2>3. PICK iter \in [SUBSET S -> Int] :
             /\ iter[{}] = 0
             /\ \A T \in SUBSET S : T # {} => iter[T] = g[<<pick[T], iter[T \ {pick[T]}]>>]
      <3> HIDE DEF g, pick
      <3>1. \E iter \in [SUBSET S -> Int] : FollowsSets(iter, S, 0, g, pick)
        BY <2>1, <2>2, FiniteSetRecursion
      <3> QED
        BY <3>1 DEF FollowsSets
    <2>4. ASSUME NEW T \in SUBSET S, T # {}
          PROVE  iter[T] = f[Pick(T)] + iter[T \ {Pick(T)}]
      <3>1. Pick(T) \in S /\ iter[T \ {Pick(T)}] \in Int
        BY <1>2, <2>3, <2>4
      <3> QED
        BY <2>3, <2>4, <3>1
    <2>5. Equation(iter)
      BY <2>3, <2>4
    <2> QED
      BY <2>5
  <1> DEFINE sum == CHOOSE iter : Equation(iter)
  <1>4. Equation(sum)
    BY <1>3
  <1> HIDE DEF sum
  <1>5. /\ sum[{}] = 0
        /\ \A T \in SUBSET S : T # {} => sum[T] = f[Pick(T)] + sum[T \ {Pick(T)}]
    BY <1>4
  <1>6. \A T \in SUBSET S : sum[T] \in Int
    <2> DEFINE P == {T \in SUBSET S : sum[T] \in Int}
    <2>1. {} \in P
      BY <1>5
    <2>2. ASSUME NEW T \in SUBSET S, T # {}, \A x \in T : T \ {x} \in P
          PROVE  T \in P
      <3>1. Pick(T) \in T /\ f[Pick(T)] \in Int
        BY <1>2, <2>2
      <3>2. sum[T \ {Pick(T)}] \in Int
        BY <2>2, <3>1
      <3> QED
        <4>1. sum[T] = f[Pick(T)] + sum[T \ {Pick(T)}]
          BY <1>5, <2>2
        <4>2. sum[T] \in Int
          BY <3>1, <3>2, <4>1
        <4> QED
          BY <4>2
    <2>3. \A T \in SUBSET S : T \in P
      <3> HIDE DEF P
      <3> QED
        BY <2>1, <2>2, FiniteSetInduction
    <2> QED
      BY <2>3
  <1>7. PartialSums(sum, f, S)
    <2>1. sum \in [SUBSET S -> Int]
      BY <1>4, <1>6
    <2> QED
      BY <1>5, <2>1 DEF PartialSums
  <1>8. SumFunctionOnSet(f, S) = sum[S]
    BY <1>1 DEF sum
  <1> QED
    BY <1>7, <1>8

\* A sum of integers is an integer.
LEMMA SumIsInteger ==
    ASSUME NEW S, IsFiniteSet(S), NEW f \in [S -> Int]
    PROVE  SumFunctionOnSet(f, S) \in Int
  <1>1. PICK sum : PartialSums(sum, f, S) /\ SumFunctionOnSet(f, S) = sum[S]
    BY SumIsPartialSum
  <1>2. sum[S] \in Int
    BY <1>1 DEF PartialSums
  <1> QED
    BY <1>1, <1>2

\* The element taken first is one of the set.
LEMMA PickElement == \A T : T # {} => Pick(T) \in T
  BY DEF Pick

\* The sum of differences is the difference of the sums.
LEMMA SumOfDifference ==
    ASSUME NEW S, IsFiniteSet(S), NEW f \in [S -> Int], NEW g \in [S -> Int],
           NEW d \in [S -> Int], \A x \in S : d[x] = f[x] - g[x]
    PROVE  SumFunctionOnSet(d, S) = SumFunctionOnSet(f, S) - SumFunctionOnSet(g, S)
  <1>1. PICK sf : PartialSums(sf, f, S) /\ SumFunctionOnSet(f, S) = sf[S]
    BY SumIsPartialSum
  <1>2. PICK sg : PartialSums(sg, g, S) /\ SumFunctionOnSet(g, S) = sg[S]
    BY SumIsPartialSum
  <1>3. PICK sd : PartialSums(sd, d, S) /\ SumFunctionOnSet(d, S) = sd[S]
    BY SumIsPartialSum
  <1> DEFINE P == {T \in SUBSET S : sd[T] = sf[T] - sg[T]}
  <1>4. {} \in P
    BY <1>1, <1>2, <1>3 DEF PartialSums
  <1>5. ASSUME NEW T \in SUBSET S, T # {}, \A x \in T : T \ {x} \in P
        PROVE  T \in P
    <2>1. Pick(T) \in T /\ Pick(T) \in S
      BY <1>5, PickElement
    <2> DEFINE x == Pick(T)
               U == T \ {x}
    <2>2. U \in SUBSET S /\ sd[U] = sf[U] - sg[U]
      BY <1>5, <2>1
    <2>3. sd[T] = d[x] + sd[U] /\ sf[T] = f[x] + sf[U] /\ sg[T] = g[x] + sg[U]
      BY <1>1, <1>2, <1>3, <1>5 DEF PartialSums
    <2>4. sf[U] \in Int /\ sg[U] \in Int /\ f[x] \in Int /\ g[x] \in Int
      BY <1>1, <1>2, <2>1, <2>2 DEF PartialSums
    <2>5. d[x] = f[x] - g[x]
      BY <2>1
    <2> HIDE DEF x, U
    <2>6. sd[T] = sf[T] - sg[T]
      BY <2>2, <2>3, <2>4, <2>5
    <2> QED
      BY <2>6
  <1>6. S \in P
    <2> HIDE DEF P
    <2> QED
      BY <1>4, <1>5, FiniteSetInduction
  <1> QED
    BY <1>1, <1>2, <1>3, <1>6

\* A sum over n elements between 0 and b lies between 0 and n times b.
LEMMA SumOfBounded ==
    ASSUME NEW S, IsFiniteSet(S), NEW f \in [S -> Int], NEW b \in Nat,
           \A x \in S : 0 <= f[x] /\ f[x] <= b
    PROVE  0 <= SumFunctionOnSet(f, S) /\ SumFunctionOnSet(f, S) <= b * Cardinality(S)
  <1>1. PICK sum : PartialSums(sum, f, S) /\ SumFunctionOnSet(f, S) = sum[S]
    BY SumIsPartialSum
  <1> DEFINE P == {T \in SUBSET S : 0 <= sum[T] /\ sum[T] <= b * Cardinality(T)}
  <1>2. {} \in P
    BY <1>1, FS_EmptySet DEF PartialSums
  <1>3. ASSUME NEW T \in SUBSET S, T # {}, \A x \in T : T \ {x} \in P
        PROVE  T \in P
    <2> DEFINE x == Pick(T)
               U == T \ {x}
    <2>1. x \in T /\ x \in S
      BY <1>3, PickElement
    <2>2. U \in SUBSET S /\ 0 <= sum[U] /\ sum[U] <= b * Cardinality(U)
      BY <1>3, <2>1
    <2>3. sum[T] = f[x] + sum[U] /\ sum[U] \in Int /\ f[x] \in Int /\ 0 <= f[x] /\ f[x] <= b
      BY <1>1, <1>3, <2>1, <2>2 DEF PartialSums
    <2>4. IsFiniteSet(T) /\ Cardinality(T) \in Nat
      BY FS_Subset, FS_CardinalityType
    <2>5. Cardinality(U) = Cardinality(T) - 1
      BY <2>1, <2>4, FS_RemoveElement
    <2> HIDE DEF x, U
    <2>6. b * (Cardinality(T) - 1) = b * Cardinality(T) - b
      BY <2>4
    <2>7. 0 <= sum[T] /\ sum[T] <= b * Cardinality(T)
      <3>1. b * Cardinality(T) \in Nat /\ sum[U] <= b * Cardinality(T) - b
        BY <2>2, <2>4, <2>5, <2>6
      <3> QED
        BY <2>2, <2>3, <3>1
    <2> QED
      BY <2>7
  <1>4. S \in P
    <2> HIDE DEF P
    <2> QED
      BY <1>2, <1>3, FiniteSetInduction
  <1> QED
    BY <1>1, <1>4

\* A sum of positive numbers, at least one, is positive.
LEMMA SumOfPositive ==
    ASSUME NEW S, IsFiniteSet(S), S # {}, NEW f \in [S -> Int], \A x \in S : f[x] > 0
    PROVE  SumFunctionOnSet(f, S) > 0
  <1>1. PICK sum : PartialSums(sum, f, S) /\ SumFunctionOnSet(f, S) = sum[S]
    BY SumIsPartialSum
  <1> DEFINE P == {T \in SUBSET S : T # {} => sum[T] > 0}
  <1>2. {} \in P
    OBVIOUS
  <1>3. ASSUME NEW T \in SUBSET S, T # {}, \A x \in T : T \ {x} \in P
        PROVE  T \in P
    <2> DEFINE x == Pick(T)
               U == T \ {x}
    <2>1. x \in T /\ x \in S
      BY <1>3, PickElement
    <2>2. U \in SUBSET S /\ (U # {} => sum[U] > 0)
      BY <1>3, <2>1
    <2>3. sum[T] = f[x] + sum[U] /\ sum[U] \in Int /\ f[x] \in Int /\ f[x] > 0 /\ sum[{}] = 0
      BY <1>1, <1>3, <2>1, <2>2 DEF PartialSums
    <2> HIDE DEF x, U
    <2>4. sum[T] > 0
      BY <2>2, <2>3
    <2> QED
      BY <2>4
  <1>4. S \in P
    <2> HIDE DEF P
    <2> QED
      BY <1>2, <1>3, FiniteSetInduction
  <1> QED
    BY <1>1, <1>4

\* A sum of natural numbers is one.
LEMMA SumOfNaturals ==
    ASSUME NEW S, IsFiniteSet(S), NEW f \in [S -> Nat]
    PROVE  SumFunctionOnSet(f, S) \in Nat
  <1>1. f \in [S -> Int] /\ \A x \in S : f[x] \in Nat
    OBVIOUS
  <1>2. PICK sum : PartialSums(sum, f, S) /\ SumFunctionOnSet(f, S) = sum[S]
    BY <1>1, SumIsPartialSum
  <1> DEFINE P == {T \in SUBSET S : sum[T] \in Nat}
  <1>3. {} \in P
    BY <1>2 DEF PartialSums
  <1>4. ASSUME NEW T \in SUBSET S, T # {}, \A x \in T : T \ {x} \in P
        PROVE  T \in P
    <2> DEFINE x == Pick(T)
               U == T \ {x}
    <2>1. x \in T /\ x \in S
      BY <1>4, PickElement
    <2>2. U \in SUBSET S /\ sum[U] \in Nat
      BY <1>4, <2>1
    <2>3. sum[T] = f[x] + sum[U] /\ f[x] \in Nat
      BY <1>1, <1>2, <1>4, <2>1, <2>2 DEF PartialSums
    <2> HIDE DEF x, U
    <2>4. sum[T] \in Nat
      BY <2>2, <2>3
    <2> QED
      BY <2>4
  <1>5. S \in P
    <2> HIDE DEF P
    <2> QED
      BY <1>3, <1>4, FiniteSetInduction
  <1> QED
    BY <1>2, <1>5

\* A sum of numbers that are not positive is not positive.
LEMMA SumOfNonPositive ==
    ASSUME NEW S, IsFiniteSet(S), NEW f \in [S -> Int], \A x \in S : f[x] <= 0
    PROVE  SumFunctionOnSet(f, S) <= 0
  <1>1. PICK sum : PartialSums(sum, f, S) /\ SumFunctionOnSet(f, S) = sum[S]
    BY SumIsPartialSum
  <1> DEFINE P == {T \in SUBSET S : sum[T] <= 0}
  <1>2. {} \in P
    BY <1>1 DEF PartialSums
  <1>3. ASSUME NEW T \in SUBSET S, T # {}, \A x \in T : T \ {x} \in P
        PROVE  T \in P
    <2> DEFINE x == Pick(T)
               U == T \ {x}
    <2>1. x \in T /\ x \in S
      BY <1>3, PickElement
    <2>2. U \in SUBSET S /\ sum[U] <= 0
      BY <1>3, <2>1
    <2>3. sum[T] = f[x] + sum[U] /\ sum[U] \in Int /\ f[x] \in Int /\ f[x] <= 0
      BY <1>1, <1>3, <2>1, <2>2 DEF PartialSums
    <2> HIDE DEF x, U
    <2>4. sum[T] <= 0
      BY <2>2, <2>3
    <2> QED
      BY <2>4
  <1>4. S \in P
    <2> HIDE DEF P
    <2> QED
      BY <1>2, <1>3, FiniteSetInduction
  <1> QED
    BY <1>1, <1>4

\* counts is the number of the elements of X at each place of D.
Tallies(counts, X, at, D) == \A d \in D : counts[d] = Cardinality({x \in X : at[x] = d})
Placed(X, at, D) == {x \in X : at[x] \in D}

\* The numbers of the elements at each place add up to the number of the
\* elements at all of them.
LEMMA SumOfTallies ==
    ASSUME NEW X, IsFiniteSet(X), NEW at, NEW D, IsFiniteSet(D), NEW counts,
           Tallies(counts, X, at, D)
    PROVE  SumFunctionOnSet(counts, D) = Cardinality(Placed(X, at, D))
  <1> USE DEF Tallies, Placed
  <1> DEFINE Fiber(d) == {x \in X : at[x] = d}
             All(T) == {x \in X : at[x] \in T}
  <1>1. \A d : IsFiniteSet(Fiber(d)) /\ Cardinality(Fiber(d)) \in Nat
    <2>1. \A d : Fiber(d) \in SUBSET X
      OBVIOUS
    <2> QED
      BY <2>1, FS_Subset, FS_CardinalityType
  <1>2. \A d \in D : counts[d] \in Int
    <2>1. \A d \in D : counts[d] = Cardinality(Fiber(d))
      OBVIOUS
    <2> HIDE DEF Fiber
    <2> QED
      BY <1>1, <2>1
  <1>3. PICK sum : PartialSums(sum, counts, D) /\ SumFunctionOnSet(counts, D) = sum[D]
    BY <1>2, SumIsPartialSum
  <1> DEFINE P == {T \in SUBSET D : sum[T] = Cardinality(All(T))}
  <1>4. {} \in P
    <2>1. All({}) = {}
      OBVIOUS
    <2>2. sum[{}] = Cardinality(All({}))
      BY <1>3, <2>1, FS_EmptySet DEF PartialSums
    <2> QED
      BY <2>2
  <1>5. ASSUME NEW T \in SUBSET D, T # {}, \A d \in T : T \ {d} \in P
        PROVE  T \in P
    <2> DEFINE d == Pick(T)
               U == T \ {d}
    <2>1. d \in T /\ d \in D
      BY <1>5, PickElement
    <2>2. U \in SUBSET D /\ sum[U] = Cardinality(All(U))
      BY <1>5, <2>1
    <2>3. sum[T] = counts[d] + sum[U]
      BY <1>3, <1>5 DEF PartialSums
    <2>4. counts[d] = Cardinality(Fiber(d))
      BY <2>1
    <2>5. All(T) = Fiber(d) \cup All(U) /\ Fiber(d) \cap All(U) = {}
      BY <2>1
    <2>6. IsFiniteSet(All(U)) /\ Cardinality(All(U)) \in Nat
      <3>1. All(U) \in SUBSET X
        OBVIOUS
      <3> QED
        BY <3>1, FS_Subset, FS_CardinalityType
    <2>7. IsFiniteSet(Fiber(d)) /\ Cardinality(Fiber(d)) \in Nat
      BY <1>1
    <2> HIDE DEF d, U, All, Fiber
    <2>8. Cardinality(All(T)) = Cardinality(Fiber(d)) + Cardinality(All(U)) - Cardinality({})
      BY <2>5, <2>6, <2>7, FS_Union
    <2>9. sum[T] = Cardinality(All(T))
      BY <2>2, <2>3, <2>4, <2>6, <2>7, <2>8, FS_EmptySet
    <2> QED
      BY <2>9
  <1>6. D \in P
    <2> HIDE DEF P
    <2> QED
      BY <1>4, <1>5, FiniteSetInduction
  <1> QED
    BY <1>3, <1>6
=============================================================================
