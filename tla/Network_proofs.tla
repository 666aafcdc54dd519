--------------------------- MODULE Network_proofs ---------------------------
(***************************************************************************)
(* What the other proofs rest on: induction, without an operator for the   *)
(* property, the powers of two, what the construction of cones computes    *)
(* for any number of fanins, and what the comparators of Relations compare *)
(* for variables of any length.                                            *)
(*                                                                         *)
(* From the library's theorem that proper inclusion of finite sets is well *)
(* founded it follows that every set of natural numbers has a least        *)
(* element, from this that a set with 0 and the successors of its elements *)
(* has all natural numbers, and from this that a function is iterated as   *)
(* often as one likes.                                                     *)
(***************************************************************************)
EXTENDS CompactCubes, Relations, FiniteSetTheorems, TLAPS

-----------------------------------------------------------------------------
(* Induction.                                                              *)

\* A set of natural numbers that is not empty has a least element.
LEMMA LeastOf ==
  ASSUME NEW T, T \subseteq Nat, T # {}
  PROVE  \E x \in T : \A y \in T : x <= y
<1> DEFINE R == StrictSubsetOrdering(Nat)
           Intervals == {0 .. n : n \in T}
<1>1. IsWellFoundedOn(R, FiniteSubsetsOf(Nat))
  BY FS_StrictSubsetOrderingWellFounded
<1>2. Intervals \subseteq FiniteSubsetsOf(Nat)
  <2>1. \A n \in T : IsFiniteSet(0 .. n) /\ (0 .. n) \subseteq Nat
    BY FS_Interval
  <2> QED BY <2>1 DEF FiniteSubsetsOf
<1>3. Intervals # {}
  OBVIOUS
<1>4. \E b \in Intervals : \A c \in Intervals : ~ (<<c, b>> \in R)
  <2> HIDE DEF R, Intervals
  <2> QED BY <1>1, <1>2, <1>3, WFMin
<1>5. PICK x \in T : \A c \in Intervals : ~ (<<c, 0 .. x>> \in R)
  <2> HIDE DEF R
  <2> QED BY <1>4
<1>6. \A y \in T : x <= y
  <2> SUFFICES ASSUME NEW y \in T, y < x
               PROVE  FALSE
    OBVIOUS
  <2>1. ~ (<<0 .. y, 0 .. x>> \in R)
    <3> HIDE DEF R
    <3> QED BY <1>5
  <2>2. (0 .. y) \subseteq (0 .. x) /\ (0 .. y) \in SUBSET Nat /\ (0 .. x) \in SUBSET Nat
    OBVIOUS
  <2>3. x \in 0 .. x /\ x \notin 0 .. y
    OBVIOUS
  <2> QED BY <2>1, <2>2, <2>3 DEF StrictSubsetOrdering
<1> QED BY <1>6

\* Induction as a fact about sets.
LEMMA NatSetInduction ==
  ASSUME NEW S, S \subseteq Nat, 0 \in S, \A n \in S : n + 1 \in S
  PROVE  S = Nat
<1> SUFFICES ASSUME Nat \ S # {} PROVE FALSE
  OBVIOUS
<1>1. PICK x \in Nat \ S : \A y \in Nat \ S : x <= y
  BY LeastOf
<1>2. x # 0 /\ x - 1 \in Nat
  BY <1>1
<1>3. x - 1 \in S
  BY <1>1, <1>2
<1>4. (x - 1) + 1 \in S
  BY <1>3
<1> QED BY <1>1, <1>4

\* Induction up to a bound.
LEMMA UpToInduction ==
  ASSUME NEW N \in Nat, NEW S, 0 \in S, \A n \in 0 .. N - 1 : n \in S => n + 1 \in S
  PROVE  0 .. N \subseteq S
<1> DEFINE T == {n \in Nat : n \in S \/ n > N}
<1>1. T \subseteq Nat /\ 0 \in T
  OBVIOUS
<1>2. \A n \in T : n + 1 \in T
  OBVIOUS
<1>3. T = Nat
  <2> HIDE DEF T
  <2> QED BY <1>1, <1>2, NatSetInduction
<1> QED BY <1>3

\* The first N iterates of a function.
Iteration(D, step, a, N, f) ==
  /\ f \in [0 .. N -> D]
  /\ f[0] = a
  /\ \A n \in 1 .. N : f[n] = step[f[n - 1]]

\* A function from a set to itself is iterated up to any number of times.
LEMMA Iterate ==
  ASSUME NEW D, NEW step \in [D -> D], NEW a \in D, NEW N \in Nat
  PROVE  \E f : Iteration(D, step, a, N, f)
<1> DEFINE S == {n \in Nat : \E f : Iteration(D, step, a, n, f)}
<1>1. 0 \in S
  <2>1. Iteration(D, step, a, 0, [i \in 0 .. 0 |-> a])
    BY DEF Iteration
  <2> QED BY <2>1
<1>2. \A n \in S : n + 1 \in S
  <2> SUFFICES ASSUME NEW n \in S PROVE n + 1 \in S
    OBVIOUS
  <2>1. PICK f : Iteration(D, step, a, n, f)
    OBVIOUS
  <2> DEFINE g == [i \in 0 .. n + 1 |-> IF i <= n THEN f[i] ELSE step[f[n]]]
  <2>2. n \in Nat /\ f[n] \in D
    BY <2>1 DEF Iteration
  <2>3. g \in [0 .. n + 1 -> D] /\ g[0] = a
    BY <2>1, <2>2 DEF Iteration
  <2>4. \A i \in 1 .. n + 1 : g[i] = step[g[i - 1]]
    <3> SUFFICES ASSUME NEW i \in 1 .. n + 1 PROVE g[i] = step[g[i - 1]]
      OBVIOUS
    <3>1. CASE i = n + 1
      BY <3>1, <2>2
    <3>2. CASE i # n + 1
      BY <3>2, <2>1, <2>2 DEF Iteration
    <3> QED BY <3>1, <3>2
  <2>5. Iteration(D, step, a, n + 1, g)
    <3> HIDE DEF g
    <3> QED BY <2>3, <2>4 DEF Iteration
  <2> QED BY <2>2, <2>5
<1>3. S = Nat
  <2>1. S \subseteq Nat
    OBVIOUS
  <2> HIDE DEF S
  <2> QED BY <1>1, <1>2, <2>1, NatSetInduction
<1> QED BY <1>3

\* The first N values of a function that is defined by recursion.
Recursive(D, step, a, N, f) ==
  /\ f \in [0 .. N -> D]
  /\ f[0] = a
  /\ \A n \in 1 .. N : f[n] = step[n][f[n - 1]]

\* The same with a step that depends on the number of steps before it.
LEMMA Recursion ==
  ASSUME NEW D, NEW N \in Nat, NEW a \in D, NEW step \in [1 .. N -> [D -> D]]
  PROVE  \E f : Recursive(D, step, a, N, f)
<1> DEFINE S == {k \in 0 .. N : \E f \in [0 .. k -> D] :
                                 f[0] = a /\ \A n \in 1 .. k : f[n] = step[n][f[n - 1]]}
<1>1. 0 \in S
  <2> DEFINE f == [i \in 0 .. 0 |-> a]
  <2>1. f \in [0 .. 0 -> D] /\ f[0] = a /\ \A n \in 1 .. 0 : f[n] = step[n][f[n - 1]]
    OBVIOUS
  <2>2. 0 \in 0 .. N
    OBVIOUS
  <2> HIDE DEF f
  <2> QED BY <2>1, <2>2
<1>2. \A k \in 0 .. N - 1 : k \in S => k + 1 \in S
  <2> SUFFICES ASSUME NEW k \in 0 .. N - 1, k \in S PROVE k + 1 \in S
    OBVIOUS
  <2>1. PICK f \in [0 .. k -> D] :
          f[0] = a /\ \A n \in 1 .. k : f[n] = step[n][f[n - 1]]
    OBVIOUS
  <2> DEFINE g == [i \in 0 .. k + 1 |-> IF i <= k THEN f[i] ELSE step[k + 1][f[k]]]
  <2>2. k \in Nat /\ f[k] \in D /\ k + 1 \in 1 .. N /\ step[k + 1] \in [D -> D]
    OBVIOUS
  <2>3. g \in [0 .. k + 1 -> D] /\ g[0] = a
    BY <2>1, <2>2
  <2>4. \A n \in 1 .. k + 1 : g[n] = step[n][g[n - 1]]
    <3> SUFFICES ASSUME NEW n \in 1 .. k + 1 PROVE g[n] = step[n][g[n - 1]]
      OBVIOUS
    <3>1. CASE n = k + 1
      BY <3>1, <2>2
    <3>2. CASE n # k + 1
      BY <3>2, <2>1, <2>2
    <3> QED BY <3>1, <3>2
  <2>5. k + 1 \in 0 .. N
    OBVIOUS
  <2> HIDE DEF g
  <2> QED BY <2>3, <2>4, <2>5
<1>3. 0 .. N \subseteq S
  <2> HIDE DEF S
  <2> QED BY <1>1, <1>2, UpToInduction
<1>4. N \in S
  BY <1>3
<1> QED BY <1>4 DEF Recursive

-----------------------------------------------------------------------------
(* Powers of two, of which the provers know nothing else.                  *)

\* The powers of two, as the numbers of subsets of the intervals.
LEMMA Powers ==
  /\ 2 ^ 0 = 1
  /\ \A n \in Nat : 2 ^ n \in Nat \ {0} /\ 2 ^ (n + 1) = 2 * 2 ^ n
<1>1. 2 ^ 0 = 1
  OBVIOUS
<1>2. ASSUME NEW n \in Nat
      PROVE  /\ IsFiniteSet(SUBSET (1 .. n)) /\ Cardinality(SUBSET (1 .. n)) = 2 ^ n
             /\ 2 ^ n \in Nat \ {0}
  <2>1. IsFiniteSet(1 .. n) /\ Cardinality(1 .. n) = n
    BY FS_Interval
  <2>2. PICK I : I = 1 .. n
    OBVIOUS
  <2>3. IsFiniteSet(SUBSET I) /\ Cardinality(SUBSET I) = 2 ^ n
    BY <2>1, <2>2, FS_SUBSET
  <2>4. Cardinality(SUBSET I) \in Nat
    BY <2>3, FS_CardinalityType
  <2>5. Cardinality(SUBSET I) # 0
    <3>1. {} \in SUBSET I
      OBVIOUS
    <3>2. SUBSET I # {}
      BY <3>1
    <3> QED BY <2>3, <3>2, FS_EmptySet
  <2> QED BY <2>2, <2>3, <2>4, <2>5
<1>3. ASSUME NEW n \in Nat PROVE 2 ^ (n + 1) = 2 * 2 ^ n
  <2> DEFINE A == SUBSET (1 .. n)
             B == {T \in SUBSET (1 .. n + 1) : n + 1 \in T}
             f == [T \in A |-> T \cup {n + 1}]
  <2>1. A \cup B = SUBSET (1 .. n + 1) /\ A \cap B = {}
    <3>1. \A T \in SUBSET (1 .. n + 1) : n + 1 \notin T => T \in SUBSET (1 .. n)
      OBVIOUS
    <3>2. 1 .. n \subseteq 1 .. n + 1 /\ n + 1 \notin 1 .. n
      OBVIOUS
    <3> QED BY <3>1, <3>2
  <2>2. f \in Bijection(A, B)
    <3>1. \A T \in A : f[T] \in B /\ T = f[T] \ {n + 1}
      OBVIOUS
    <3>2. \A T \in B : T \ {n + 1} \in A /\ T = f[T \ {n + 1}]
      <4> SUFFICES ASSUME NEW T \in B PROVE T \ {n + 1} \in A /\ T = f[T \ {n + 1}]
        OBVIOUS
      <4>1. T \subseteq 1 .. n + 1 /\ n + 1 \in T
        OBVIOUS
      <4>2. T \ {n + 1} \subseteq 1 .. n
        BY <4>1
      <4>3. T = (T \ {n + 1}) \cup {n + 1}
        BY <4>1, Zenon
      <4> QED BY <4>2, <4>3
    <3>3. f \in [A -> B]
      BY <3>1
    <3>4. \A S, T \in A : f[S] = f[T] => S = T
      <4> HIDE DEF f
      <4> QED BY <3>1, Zenon
    <3> HIDE DEF f, A, B
    <3> QED BY <3>2, <3>3, <3>4 DEF Bijection, Injection, Surjection, IsInjective
  <2>3. IsFiniteSet(A) /\ Cardinality(A) = 2 ^ n /\ 2 ^ n \in Nat
    BY <1>2
  <2>4. IsFiniteSet(B) /\ Cardinality(B) = 2 ^ n
    <3> HIDE DEF f, A, B
    <3> QED BY <2>2, <2>3, FS_Bijection DEF ExistsBijection
  <2>5. Cardinality(A \cup B) = Cardinality(A) + Cardinality(B)
    <3>1. Cardinality(A \cup B) = Cardinality(A) + Cardinality(B) - Cardinality(A \cap B)
      <4> HIDE DEF A, B
      <4> QED BY <2>3, <2>4, FS_Union
    <3>2. Cardinality(A \cap B) = 0
      BY <2>1, FS_EmptySet
    <3> HIDE DEF A, B
    <3> QED BY <2>3, <2>4, <3>1, <3>2
  <2>6. n + 1 \in Nat
    OBVIOUS
  <2>7. Cardinality(SUBSET (1 .. n + 1)) = 2 ^ (n + 1)
    BY <1>2, <2>6
  <2>8. 2 ^ (n + 1) = Cardinality(A) + Cardinality(B)
    BY <2>1, <2>5, <2>7, Zenon
  <2>9. PICK a \in Nat : a = Cardinality(A)
    BY <2>3, Zenon
  <2>10. 2 ^ n = a /\ 2 ^ (n + 1) = a + a
    BY <2>3, <2>4, <2>8, <2>9, Zenon
  <2> QED BY <2>10
<1> QED BY <1>1, <1>2, <1>3

-----------------------------------------------------------------------------
(* Cones.                                                                  *)

Fanins == Seq(OnSet) \ {<<>>}

\* The points where all, or some, of the fanins are 1.
AllOf(fanins) == {x \in Point : \A i \in DOMAIN fanins : x \in fanins[i]}
SomeOf(fanins) == {x \in Point : \E i \in DOMAIN fanins : x \in fanins[i]}

\* Whether an odd number of the first n fanins is 1 at x.
Odd(fanins, n, x) == Cardinality({i \in 1 .. n : x \in fanins[i]}) % 2 = 1
OddOf(fanins) == {x \in Point : Odd(fanins, Len(fanins), x)}

-----------------------------------------------------------------------------
(* One round.                                                              *)

\* The gates one by one.
LEMMA CombineIs ==
  ASSUME NEW a, NEW b
  PROVE  /\ Combine("and", a, b) = a \cap b
         /\ Combine("or", a, b) = a \cup b
         /\ Combine("xor", a, b) = Xor(a, b)
BY DEF Combine

\* Gates give nodes.
LEMMA CombineType ==
  ASSUME NEW gate \in Gate, NEW a \in OnSet, NEW b \in OnSet
  PROVE  Combine(gate, a, b) \in OnSet
BY CombineIs DEF Gate, OnSet, Xor

\* The two positions that are combined into one.
LEMMA Half ==
  ASSUME NEW n \in Nat
  PROVE  /\ n \div 2 \in Nat /\ n % 2 \in 0 .. 1 /\ n = 2 * (n \div 2) + (n % 2)
         /\ \A i \in 1 .. n \div 2 : 2 * i - 1 \in 1 .. n /\ 2 * i \in 1 .. n
         /\ \A j \in 1 .. n : \/ n % 2 = 1 /\ j = n
                              \/ \E i \in 1 .. n \div 2 : j \in {2 * i - 1, 2 * i}
<1>1. n \div 2 \in Nat /\ n % 2 \in 0 .. 1 /\ n = 2 * (n \div 2) + (n % 2)
  BY SMT
<1>2. \A i \in 1 .. n \div 2 : 2 * i - 1 \in 1 .. n /\ 2 * i \in 1 .. n
  BY <1>1, SMT
<1>3. ASSUME NEW j \in 1 .. n, ~ (n % 2 = 1 /\ j = n)
      PROVE  \E i \in 1 .. n \div 2 : j \in {2 * i - 1, 2 * i}
  <2> DEFINE h == (j + 1) \div 2
  <2>1. h \in Nat /\ (j = 2 * h \/ j = 2 * h - 1)
    <3>1. j + 1 \in Nat
      OBVIOUS
    <3>2. \A m \in Nat : m \div 2 \in Nat /\ (m = 2 * (m \div 2) \/ m = 2 * (m \div 2) + 1)
      BY SMT
    <3> QED BY <3>1, <3>2, SMT
  <2>2. h \in 1 .. n \div 2
    <3> HIDE DEF h
    <3> QED BY <1>1, <1>3, <2>1, SMT
  <2> QED BY <2>1, <2>2
<1> QED BY <1>1, <1>2, <1>3

\* The pairs, and the one that is left over.
LEMMA PairsAre ==
  ASSUME NEW gate \in Gate, NEW fanins \in Seq(OnSet)
  PROVE  /\ Pairs(gate, fanins) \in Seq(OnSet)
         /\ Len(Pairs(gate, fanins)) = Len(fanins) \div 2
         /\ \A i \in 1 .. Len(fanins) \div 2 :
              Pairs(gate, fanins)[i] = Combine(gate, fanins[2 * i - 1], fanins[2 * i])
<1> DEFINE n == Len(fanins)
<1>1. n \in Nat /\ n \div 2 \in Nat
  BY Half
<1>2. \A i \in 1 .. n \div 2 : fanins[2 * i - 1] \in OnSet /\ fanins[2 * i] \in OnSet
  BY <1>1, Half
<1>3. \A i \in 1 .. n \div 2 : Combine(gate, fanins[2 * i - 1], fanins[2 * i]) \in OnSet
  BY <1>2, CombineType
<1>4. Pairs(gate, fanins) \in [1 .. n \div 2 -> OnSet]
  BY <1>3 DEF Pairs
<1> QED BY <1>1, <1>4 DEF Pairs

\* A round gives nodes, half as many rounded up.
LEMMA RoundType ==
  ASSUME NEW gate \in Gate, NEW fanins \in Fanins
  PROVE  /\ Round(gate, fanins) \in Fanins
         /\ Len(Round(gate, fanins)) = Len(fanins) \div 2 + (Len(fanins) % 2)
<1> DEFINE n == Len(fanins)
<1>1. fanins \in Seq(OnSet) /\ n \in Nat \ {0}
  BY DEF Fanins
<1>2. n \div 2 \in Nat /\ n % 2 \in 0 .. 1 /\ n = 2 * (n \div 2) + (n % 2)
  BY <1>1, Half
<1>3. Pairs(gate, fanins) \in Seq(OnSet) /\ Len(Pairs(gate, fanins)) = n \div 2
  BY <1>1, PairsAre
<1>4. fanins[n] \in OnSet
  BY <1>1
<1>5. CASE n % 2 = 1
  BY <1>1, <1>2, <1>3, <1>4, <1>5 DEF Round, Fanins
<1>6. CASE n % 2 = 0
  BY <1>1, <1>2, <1>3, <1>6 DEF Round, Fanins
<1> QED BY <1>2, <1>5, <1>6

\* The fanins of a round, found among its results.
LEMMA RoundKeeps ==
  ASSUME NEW gate \in Gate, NEW fanins \in Fanins
  PROVE  /\ \A i \in 1 .. Len(fanins) \div 2 :
              Round(gate, fanins)[i] = Combine(gate, fanins[2 * i - 1], fanins[2 * i])
         /\ Len(fanins) % 2 = 1 =>
              Round(gate, fanins)[Len(fanins) \div 2 + 1] = fanins[Len(fanins)]
<1> DEFINE n == Len(fanins)
           p == Pairs(gate, fanins)
<1>1. fanins \in Seq(OnSet) /\ n \in Nat \ {0} /\ fanins[n] \in OnSet
  BY DEF Fanins
<1>2. p \in Seq(OnSet) /\ Len(p) = n \div 2 /\ n \div 2 \in Nat /\ n % 2 \in 0 .. 1
  BY <1>1, PairsAre, Half
<1>3. \A i \in 1 .. n \div 2 : p[i] = Combine(gate, fanins[2 * i - 1], fanins[2 * i])
  BY <1>1, PairsAre
<1>4. CASE n % 2 = 1
  <2>1. Round(gate, fanins) = Append(p, fanins[n])
    BY <1>4 DEF Round
  <2> HIDE DEF p
  <2> QED BY <1>1, <1>2, <1>3, <2>1
<1>5. CASE n % 2 = 0
  <2>1. Round(gate, fanins) = p
    BY <1>5 DEF Round
  <2> HIDE DEF p
  <2> QED BY <1>2, <1>3, <1>5, <2>1
<1> QED BY <1>2, <1>4, <1>5

\* A round of conjunctions keeps the points where all fanins are 1.
LEMMA RoundAnd ==
  ASSUME NEW fanins \in Fanins
  PROVE  AllOf(Round("and", fanins)) = AllOf(fanins)
<1> DEFINE n == Len(fanins)
           r == Round("and", fanins)
<1>1. fanins \in Seq(OnSet) /\ n \in Nat \ {0} /\ "and" \in Gate
  BY DEF Fanins, Gate
<1>2. r \in Seq(OnSet) /\ Len(r) = n \div 2 + (n % 2)
  BY <1>1, RoundType DEF Fanins
<1>3. /\ \A i \in 1 .. n \div 2 : r[i] = fanins[2 * i - 1] \cap fanins[2 * i]
      /\ n % 2 = 1 => r[n \div 2 + 1] = fanins[n]
  BY <1>1, RoundKeeps, CombineIs
<1>4. /\ n \div 2 \in Nat /\ n % 2 \in 0 .. 1
      /\ \A i \in 1 .. n \div 2 : 2 * i - 1 \in 1 .. n /\ 2 * i \in 1 .. n
      /\ \A j \in 1 .. n : \/ n % 2 = 1 /\ j = n
                           \/ \E i \in 1 .. n \div 2 : j \in {2 * i - 1, 2 * i}
  BY <1>1, Half
<1> HIDE DEF r
<1>5. ASSUME NEW x, \A i \in DOMAIN r : x \in r[i], NEW j \in 1 .. n
      PROVE  x \in fanins[j]
  <2>1. CASE n % 2 = 1 /\ j = n
    <3>1. n \div 2 + 1 \in DOMAIN r
      BY <1>1, <1>2, <1>4, <2>1
    <3> QED BY <1>3, <1>5, <2>1, <3>1
  <2>2. CASE \E i \in 1 .. n \div 2 : j \in {2 * i - 1, 2 * i}
    <3>1. PICK i \in 1 .. n \div 2 : j \in {2 * i - 1, 2 * i}
      BY <2>2
    <3>2. i \in DOMAIN r
      BY <1>1, <1>2, <1>4
    <3>3. x \in fanins[2 * i - 1] \cap fanins[2 * i]
      BY <1>3, <1>5, <3>2
    <3> QED BY <3>1, <3>3
  <2> QED BY <1>4, <2>1, <2>2
<1>6. ASSUME NEW x, \A j \in 1 .. n : x \in fanins[j], NEW i \in 1 .. Len(r)
      PROVE  x \in r[i]
  <2>1. CASE i \in 1 .. n \div 2
    BY <1>3, <1>4, <1>6, <2>1
  <2>2. CASE n % 2 = 1 /\ i = n \div 2 + 1
    BY <1>1, <1>3, <1>6, <2>2
  <2> QED BY <1>2, <1>4, <2>1, <2>2
<1>7. DOMAIN r = 1 .. Len(r) /\ DOMAIN fanins = 1 .. n
  BY <1>1, <1>2
<1>8. AllOf(r) = AllOf(fanins)
  BY <1>5, <1>6, <1>7 DEF AllOf
<1> QED BY <1>8 DEF r

\* A round of disjunctions keeps the points where some fanin is 1.
LEMMA RoundOr ==
  ASSUME NEW fanins \in Fanins
  PROVE  SomeOf(Round("or", fanins)) = SomeOf(fanins)
<1> DEFINE n == Len(fanins)
           r == Round("or", fanins)
<1>1. fanins \in Seq(OnSet) /\ n \in Nat \ {0} /\ "or" \in Gate
  BY DEF Fanins, Gate
<1>2. r \in Seq(OnSet) /\ Len(r) = n \div 2 + (n % 2)
  BY <1>1, RoundType DEF Fanins
<1>3. /\ \A i \in 1 .. n \div 2 : r[i] = fanins[2 * i - 1] \cup fanins[2 * i]
      /\ n % 2 = 1 => r[n \div 2 + 1] = fanins[n]
  BY <1>1, RoundKeeps, CombineIs
<1>4. /\ n \div 2 \in Nat /\ n % 2 \in 0 .. 1
      /\ \A i \in 1 .. n \div 2 : 2 * i - 1 \in 1 .. n /\ 2 * i \in 1 .. n
      /\ \A j \in 1 .. n : \/ n % 2 = 1 /\ j = n
                           \/ \E i \in 1 .. n \div 2 : j \in {2 * i - 1, 2 * i}
  BY <1>1, Half
<1> HIDE DEF r
<1>5. ASSUME NEW x, NEW i \in 1 .. Len(r), x \in r[i]
      PROVE  \E j \in 1 .. n : x \in fanins[j]
  <2>1. CASE i \in 1 .. n \div 2
    BY <1>3, <1>4, <1>5, <2>1
  <2>2. CASE n % 2 = 1 /\ i = n \div 2 + 1
    BY <1>1, <1>3, <1>5, <2>2
  <2> QED BY <1>2, <1>4, <2>1, <2>2
<1>6. ASSUME NEW x, NEW j \in 1 .. n, x \in fanins[j]
      PROVE  \E i \in 1 .. Len(r) : x \in r[i]
  <2>1. CASE n % 2 = 1 /\ j = n
    <3>1. n \div 2 + 1 \in 1 .. Len(r)
      BY <1>1, <1>2, <1>4, <2>1
    <3> QED BY <1>3, <1>6, <2>1, <3>1
  <2>2. CASE \E i \in 1 .. n \div 2 : j \in {2 * i - 1, 2 * i}
    <3>1. PICK i \in 1 .. n \div 2 : j \in {2 * i - 1, 2 * i}
      BY <2>2
    <3>2. i \in 1 .. Len(r)
      BY <1>1, <1>2, <1>4
    <3>3. x \in fanins[2 * i - 1] \cup fanins[2 * i]
      BY <1>6, <3>1
    <3> QED BY <1>3, <3>2, <3>3
  <2> QED BY <1>4, <2>1, <2>2
<1>7. DOMAIN r = 1 .. Len(r) /\ DOMAIN fanins = 1 .. n
  BY <1>1, <1>2
<1>8. SomeOf(r) = SomeOf(fanins)
  BY <1>5, <1>6, <1>7 DEF SomeOf
<1> QED BY <1>8 DEF r

\* No fanins are an even number of fanins.
LEMMA NoneOdd ==
  ASSUME NEW fanins, NEW x
  PROVE  ~Odd(fanins, 0, x)
<1>1. {i \in 1 .. 0 : x \in fanins[i]} = {}
  OBVIOUS
<1>2. Cardinality({}) = 0
  BY FS_EmptySet
<1>3. Cardinality({i \in 1 .. 0 : x \in fanins[i]}) = 0
  BY <1>1, <1>2
<1> QED BY <1>3 DEF Odd

\* A fanin that is 1 changes the parity.
LEMMA OneMoreOdd ==
  ASSUME NEW fanins, NEW x, NEW n \in Nat
  PROVE  Odd(fanins, n + 1, x) <=> ~(Odd(fanins, n, x) <=> x \in fanins[n + 1])
<1> DEFINE A == {i \in 1 .. n : x \in fanins[i]}
           B == {i \in 1 .. n + 1 : x \in fanins[i]}
<1>1. IsFiniteSet(A) /\ n + 1 \notin A
  <2>1. IsFiniteSet(1 .. n) /\ A \subseteq 1 .. n
    BY FS_Interval
  <2> QED BY <2>1, FS_Subset
<1>2. PICK c \in Nat : c = Cardinality(A)
  <2> HIDE DEF A
  <2> QED BY <1>1, FS_CardinalityType
<1>3. CASE x \in fanins[n + 1]
  <2>1. B = A \cup {n + 1}
    BY <1>3
  <2>2. Cardinality(B) = c + 1
    <3> HIDE DEF A, B
    <3> QED BY <1>1, <1>2, <2>1, FS_AddElement
  <2>3. (c + 1) % 2 = 1 <=> ~(c % 2 = 1)
    BY <1>2
  <2> QED BY <1>2, <1>3, <2>2, <2>3 DEF Odd
<1>4. CASE x \notin fanins[n + 1]
  <2>1. B = A
    BY <1>4
  <2> QED BY <1>4, <2>1 DEF Odd
<1> QED BY <1>3, <1>4

\* A round of exclusive-ors keeps the points where an odd number of fanins is 1.
LEMMA RoundXor ==
  ASSUME NEW fanins \in Fanins
  PROVE  OddOf(Round("xor", fanins)) = OddOf(fanins)
<1> DEFINE n == Len(fanins)
           r == Round("xor", fanins)
<1>1. fanins \in Seq(OnSet) /\ n \in Nat \ {0} /\ "xor" \in Gate
  BY DEF Fanins, Gate
<1>2. r \in Seq(OnSet) /\ Len(r) = n \div 2 + (n % 2)
  BY <1>1, RoundType DEF Fanins
<1>3. /\ \A i \in 1 .. n \div 2 : r[i] = Xor(fanins[2 * i - 1], fanins[2 * i])
      /\ n % 2 = 1 => r[n \div 2 + 1] = fanins[n]
  BY <1>1, RoundKeeps, CombineIs
<1>4. /\ n \div 2 \in Nat /\ n % 2 \in 0 .. 1 /\ n = 2 * (n \div 2) + (n % 2)
      /\ \A i \in 1 .. n \div 2 : 2 * i - 1 \in 1 .. n /\ 2 * i \in 1 .. n
  BY <1>1, Half
<1> HIDE DEF r
<1>5. ASSUME NEW x PROVE Odd(r, Len(r), x) <=> Odd(fanins, n, x)
  <2> DEFINE h == n \div 2
             S == {i \in 0 .. h : Odd(r, i, x) <=> Odd(fanins, 2 * i, x)}
  <2>1. 0 \in S
    BY <1>4, NoneOdd
  <2>2. \A i \in 0 .. h - 1 : i \in S => i + 1 \in S
    <3> SUFFICES ASSUME NEW i \in 0 .. h - 1, i \in S PROVE i + 1 \in S
      OBVIOUS
    <3>1. i \in Nat /\ i + 1 \in 1 .. h /\ i + 1 \in 0 .. h /\ 2 * i \in Nat /\ 2 * i + 1 \in Nat
      BY <1>4
    <3>2. Odd(r, i + 1, x) <=> ~(Odd(r, i, x) <=> x \in r[i + 1])
      BY <3>1, OneMoreOdd
    <3>3. Odd(fanins, 2 * i + 1, x) <=> ~(Odd(fanins, 2 * i, x) <=> x \in fanins[2 * i + 1])
      BY <3>1, OneMoreOdd
    <3>4. Odd(fanins, (2 * i + 1) + 1, x)
            <=> ~(Odd(fanins, 2 * i + 1, x) <=> x \in fanins[(2 * i + 1) + 1])
      BY <3>1, OneMoreOdd
    <3>5. (2 * i + 1) + 1 = 2 * (i + 1) /\ 2 * (i + 1) - 1 = 2 * i + 1
      BY <3>1
    <3>6. x \in r[i + 1] <=> ~(x \in fanins[2 * i + 1] <=> x \in fanins[2 * (i + 1)])
      BY <1>3, <3>1, <3>5 DEF Xor
    <3>7. Odd(r, i, x) <=> Odd(fanins, 2 * i, x)
      OBVIOUS
    <3>8. Odd(r, i + 1, x) <=> Odd(fanins, 2 * (i + 1), x)
      BY <3>2, <3>3, <3>4, <3>5, <3>6, <3>7
    <3> QED BY <3>1, <3>8
  <2>3. 0 .. h \subseteq S
    <3>1. h \in Nat
      BY <1>4
    <3> HIDE DEF h, S
    <3> QED BY <2>1, <2>2, <3>1, UpToInduction
  <2>4. h \in Nat /\ (Odd(r, h, x) <=> Odd(fanins, 2 * h, x))
    BY <1>4, <2>3
  <2>5. CASE n % 2 = 0
    <3>1. Len(r) = h /\ n = 2 * h
      BY <1>1, <1>2, <1>4, <2>5
    <3> HIDE DEF n, h
    <3> QED BY <2>4, <3>1
  <2>6. CASE n % 2 = 1
    <3>1. Len(r) = h + 1 /\ n = 2 * h + 1
      BY <1>1, <1>2, <1>4, <2>6
    <3>2. r[h + 1] = fanins[2 * h + 1]
      BY <1>3, <2>6, <3>1
    <3>3. Odd(r, h + 1, x) <=> ~(Odd(r, h, x) <=> x \in r[h + 1])
      BY <2>4, OneMoreOdd
    <3>4. Odd(fanins, 2 * h + 1, x) <=> ~(Odd(fanins, 2 * h, x) <=> x \in fanins[2 * h + 1])
      <4>1. 2 * h \in Nat
        BY <2>4
      <4> QED BY <4>1, OneMoreOdd
    <3> HIDE DEF n, h
    <3> QED BY <2>4, <3>1, <3>2, <3>3, <3>4
  <2> QED BY <1>4, <2>5, <2>6
<1>6. OddOf(r) = OddOf(fanins)
  BY <1>5 DEF OddOf
<1> QED BY <1>6 DEF r

-----------------------------------------------------------------------------
(* All rounds.                                                             *)

\* Rounds shorten the cone until a single node is left, which they keep.
LEMMA Rounds ==
  ASSUME NEW gate \in Gate, NEW fanins \in Fanins
  PROVE  \E rounds \in [0 .. Len(fanins) -> Fanins] :
           /\ rounds[0] = fanins
           /\ \A n \in 1 .. Len(fanins) : rounds[n] = Round(gate, rounds[n - 1])
           /\ Len(rounds[Len(fanins)]) = 1
           /\ AddCone(gate, fanins) = rounds[Len(fanins)][1]
<1> DEFINE L == Len(fanins)
           step == [s \in Fanins |-> Round(gate, s)]
           F(f) == [n \in 0 .. L |-> IF n = 0 THEN fanins ELSE Round(gate, f[n - 1])]
<1>1. fanins \in Seq(OnSet) /\ L \in Nat \ {0}
  BY DEF Fanins
<1>2. step \in [Fanins -> Fanins]
  BY RoundType
<1>3. \E f : Iteration(Fanins, step, fanins, L, f)
  <2>1. L \in Nat
    BY <1>1
  <2> HIDE DEF step, L
  <2> QED BY <1>2, <2>1, Iterate
<1>4. PICK f \in [0 .. L -> Fanins] : f[0] = fanins /\ \A n \in 1 .. L : f[n] = step[f[n - 1]]
  BY <1>3 DEF Iteration
<1>5. \A n \in 1 .. L : n - 1 \in 0 .. L /\ f[n - 1] \in Fanins
  BY <1>1, <1>4
<1>6. \A n \in 1 .. L : f[n] = Round(gate, f[n - 1])
  BY <1>4, <1>5
<1>7. f = F(f)
  <2>1. \A n \in 0 .. L : f[n] = F(f)[n]
    BY <1>1, <1>4, <1>6
  <2>2. DOMAIN F(f) = 0 .. L /\ DOMAIN f = 0 .. L
    BY <1>4
  <2> QED BY <1>4, <2>1, <2>2
<1>8. PICK g : g = (CHOOSE h : h = F(h))
  OBVIOUS
<1>9. g = F(g)
  <2> HIDE DEF F
  <2> QED BY <1>7, <1>8
<1>10. AddCone(gate, fanins) = g[L][1]
  BY <1>8 DEF AddCone
<1>11. g[0] = fanins /\ \A n \in 1 .. L : g[n] = Round(gate, g[n - 1])
  BY <1>1, <1>9
<1>12. DOMAIN g = 0 .. L
  BY <1>9
<1> DEFINE S == {n \in 0 .. L : g[n] \in Fanins /\ Len(g[n]) <= (IF n < L THEN L - n ELSE 1)}
<1>13. 0 \in S
  BY <1>1, <1>11
<1>14. \A n \in 0 .. L - 1 : n \in S => n + 1 \in S
  <2> SUFFICES ASSUME NEW n \in 0 .. L - 1, n \in S PROVE n + 1 \in S
    OBVIOUS
  <2>1. n + 1 \in 1 .. L /\ (n + 1) - 1 = n
    BY <1>1
  <2>2. g[n + 1] = Round(gate, g[n])
    BY <1>11, <2>1
  <2>3. PICK s \in Fanins : s = g[n]
    OBVIOUS
  <2>4. Len(s) \in Nat \ {0}
    BY DEF Fanins
  <2>5. g[n + 1] \in Fanins /\ Len(g[n + 1]) = Len(s) \div 2 + (Len(s) % 2)
    BY <2>2, <2>3, RoundType
  <2>6. PICK l \in Nat : l = Len(s)
    BY <2>4
  <2>7. l # 0 /\ l <= L - n
    BY <1>1, <2>3, <2>4, <2>6
  <2>8. l \div 2 + (l % 2) <= l /\ (l # 1 => l \div 2 + (l % 2) < l)
    BY <2>7, Half
  <2> QED BY <1>1, <2>1, <2>5, <2>6, <2>7, <2>8
<1>15. 0 .. L \subseteq S
  <2>1. L \in Nat
    BY <1>1
  <2> HIDE DEF S, L
  <2> QED BY <1>13, <1>14, <2>1, UpToInduction
<1>16. \A n \in 0 .. L : g[n] \in Fanins
  BY <1>15
<1>17. Len(g[L]) = 1
  <2>1. \A s \in Fanins : Len(s) \in Nat \ {0}
    BY DEF Fanins
  <2>2. PICK l : l = Len(g[L])
    OBVIOUS
  <2>3. l \in Nat \ {0} /\ l <= 1
    BY <1>1, <1>15, <2>1, <2>2
  <2>4. l = 1
    BY <2>3
  <2> QED BY <2>2, <2>4
<1>18. g \in [0 .. L -> Fanins]
  BY <1>9, <1>12, <1>16
<1> QED BY <1>10, <1>11, <1>17, <1>18

\* A cone is a node of the network.
THEOREM AddConeType ==
  ASSUME NEW gate \in Gate, NEW fanins \in Fanins
  PROVE  AddCone(gate, fanins) \in OnSet
<1>1. PICK rounds \in [0 .. Len(fanins) -> Fanins] :
        Len(rounds[Len(fanins)]) = 1 /\ AddCone(gate, fanins) = rounds[Len(fanins)][1]
  BY Rounds
<1>2. PICK s \in Fanins : Len(s) = 1 /\ AddCone(gate, fanins) = s[1]
  <2>1. Len(fanins) \in 0 .. Len(fanins)
    BY DEF Fanins
  <2> QED BY <1>1, <2>1
<1> QED BY <1>2 DEF Fanins

\* What every round keeps is kept by the cone. M is what is kept.
LEMMA ConeKeeps ==
  ASSUME NEW gate \in Gate, NEW fanins \in Fanins, NEW M,
         \A s \in Fanins : M[Round(gate, s)] = M[s]
  PROVE  M[<<AddCone(gate, fanins)>>] = M[fanins]
<1> DEFINE L == Len(fanins)
<1>1. fanins \in Seq(OnSet) /\ L \in Nat
  BY DEF Fanins
<1>2. PICK rounds \in [0 .. L -> Fanins] :
        /\ rounds[0] = fanins
        /\ \A n \in 1 .. L : rounds[n] = Round(gate, rounds[n - 1])
        /\ Len(rounds[L]) = 1
        /\ AddCone(gate, fanins) = rounds[L][1]
  BY <1>1, Rounds
<1> DEFINE S == {n \in 0 .. L : M[rounds[n]] = M[fanins]}
<1>3. 0 \in S
  BY <1>1, <1>2
<1>4. \A n \in 0 .. L - 1 : n \in S => n + 1 \in S
  <2> SUFFICES ASSUME NEW n \in 0 .. L - 1, n \in S PROVE n + 1 \in S
    OBVIOUS
  <2>1. rounds[n + 1] = Round(gate, rounds[n]) /\ rounds[n] \in Fanins
    BY <1>1, <1>2
  <2> QED BY <1>1, <2>1
<1>5. 0 .. L \subseteq S
  <2> HIDE DEF S, L
  <2> QED BY <1>1, <1>3, <1>4, UpToInduction
<1>6. PICK s \in Fanins : s = rounds[L] /\ Len(s) = 1 /\ M[s] = M[fanins]
  BY <1>1, <1>2, <1>5
<1>7. s = <<s[1]>>
  BY <1>6 DEF Fanins
<1> QED BY <1>2, <1>6, <1>7

\* A cone of conjunctions is 1 where all its fanins are, however many there are.
THEOREM AddConeAnd ==
  ASSUME NEW fanins \in Fanins
  PROVE  AddCone("and", fanins) = AllOf(fanins)
<1> DEFINE M == [s \in Fanins |-> AllOf(s)]
<1>1. "and" \in Gate
  BY DEF Gate
<1>2. \A s \in Fanins : M[Round("and", s)] = M[s]
  BY <1>1, RoundType, RoundAnd
<1>3. PICK a \in OnSet : a = AddCone("and", fanins)
  BY <1>1, AddConeType
<1>4. <<a>> \in Fanins /\ AllOf(<<a>>) = a
  BY DEF Fanins, AllOf, OnSet
<1>5. M[<<a>>] = M[fanins]
  <2> HIDE DEF M
  <2> QED BY <1>1, <1>2, <1>3, ConeKeeps
<1> QED BY <1>3, <1>4, <1>5

\* A cone of disjunctions is 1 where some of its fanins are, however many there are.
THEOREM AddConeOr ==
  ASSUME NEW fanins \in Fanins
  PROVE  AddCone("or", fanins) = SomeOf(fanins)
<1> DEFINE M == [s \in Fanins |-> SomeOf(s)]
<1>1. "or" \in Gate
  BY DEF Gate
<1>2. \A s \in Fanins : M[Round("or", s)] = M[s]
  BY <1>1, RoundType, RoundOr
<1>3. PICK a \in OnSet : a = AddCone("or", fanins)
  BY <1>1, AddConeType
<1>4. <<a>> \in Fanins /\ SomeOf(<<a>>) = a
  BY DEF Fanins, SomeOf, OnSet
<1>5. M[<<a>>] = M[fanins]
  <2> HIDE DEF M
  <2> QED BY <1>1, <1>2, <1>3, ConeKeeps
<1> QED BY <1>3, <1>4, <1>5

\* A cone of exclusive-ors is 1 where an odd number of its fanins is.
THEOREM AddConeXor ==
  ASSUME NEW fanins \in Fanins
  PROVE  AddCone("xor", fanins) = OddOf(fanins)
<1> DEFINE M == [s \in Fanins |-> OddOf(s)]
<1>1. "xor" \in Gate
  BY DEF Gate
<1>2. \A s \in Fanins : M[Round("xor", s)] = M[s]
  BY <1>1, RoundType, RoundXor
<1>3. PICK a \in OnSet : a = AddCone("xor", fanins)
  BY <1>1, AddConeType
<1>4. <<a>> \in Fanins /\ OddOf(<<a>>) = a
  <2>1. <<a>> \in Fanins /\ Len(<<a>>) = 0 + 1 /\ <<a>>[0 + 1] = a
    BY DEF Fanins
  <2>2. \A x : Odd(<<a>>, 0 + 1, x) <=> x \in a
    <3> TAKE x
    <3>1. Odd(<<a>>, 0 + 1, x) <=> ~(Odd(<<a>>, 0, x) <=> x \in <<a>>[0 + 1])
      BY OneMoreOdd
    <3> QED BY <2>1, <3>1, NoneOdd
  <2> QED BY <2>1, <2>2 DEF OddOf, OnSet
<1>5. M[<<a>>] = M[fanins]
  <2> HIDE DEF M
  <2> QED BY <1>1, <1>2, <1>3, ConeKeeps
<1> QED BY <1>3, <1>4, <1>5

-----------------------------------------------------------------------------
(* Lists of inputs.                                                        *)

\* Different elements have different numbers of smaller ones.
LEMMA RankGrows ==
  ASSUME NEW S \in SUBSET Nat, IsFiniteSet(S), NEW a \in S, NEW b \in S, a < b
  PROVE  Cardinality({j \in S : j < a}) < Cardinality({j \in S : j < b})
<1> DEFINE A == {j \in S : j < a}
           B == {j \in S : j < b}
<1>1. A \subseteq B /\ a \in B /\ a \notin A
  <2>1. a \in Nat /\ b \in Nat /\ \A j \in S : j \in Nat
    OBVIOUS
  <2>2. \A j \in S : j < a => j < b
    BY <2>1
  <2>3. ~ (a < a)
    BY <2>1
  <2> QED BY <2>2, <2>3
<1>2. IsFiniteSet(B) /\ Cardinality(B) \in Nat
  <2>1. B \subseteq S
    OBVIOUS
  <2> HIDE DEF B
  <2> QED BY <2>1, FS_Subset, FS_CardinalityType
<1>3. Cardinality(A) <= Cardinality(B) /\ Cardinality(A) # Cardinality(B)
  <2> HIDE DEF A, B
  <2> QED BY <1>1, <1>2, FS_Subset
<1>4. Cardinality(A) \in Nat
  <2>1. IsFiniteSet(A)
    <3> HIDE DEF A, B
    <3> QED BY <1>1, <1>2, FS_Subset
  <2> HIDE DEF A
  <2> QED BY <2>1, FS_CardinalityType
<1> HIDE DEF A, B
<1>5. Cardinality(A) < Cardinality(B)
  BY <1>2, <1>3, <1>4
<1> QED BY <1>5 DEF A, B

\* Every element of a finite set of numbers is listed, and once.
LEMMA AscendingLists ==
  ASSUME NEW S \in SUBSET Nat, IsFiniteSet(S)
  PROVE  /\ Cardinality(S) \in Nat
         /\ Ascending(S) \in [1 .. Cardinality(S) -> S]
         /\ \A i \in S : \E n \in 1 .. Cardinality(S) : Ascending(S)[n] = i
         /\ \A m, n \in 1 .. Cardinality(S) : Ascending(S)[m] = Ascending(S)[n] => m = n
<1> DEFINE c == Cardinality(S)
           r(i) == Cardinality({j \in S : j < i})
           f == [i \in S |-> r(i) + 1]
<1>1. c \in Nat /\ IsFiniteSet(1 .. c) /\ Cardinality(1 .. c) = c
  <2>1. c \in Nat
    BY FS_CardinalityType
  <2> HIDE DEF c
  <2>2. IsFiniteSet(1 .. c) /\ Cardinality(1 .. c) = IF 1 > c THEN 0 ELSE c - 1 + 1
    BY <2>1, FS_Interval
  <2> QED BY <2>1, <2>2
<1>2. \A i \in S : r(i) \in Nat /\ r(i) < c
  <2> SUFFICES ASSUME NEW i \in S PROVE r(i) \in Nat /\ r(i) < c
    OBVIOUS
  <2> DEFINE A == {j \in S : j < i}
  <2>1. A \subseteq S /\ i \notin A
    OBVIOUS
  <2>2. IsFiniteSet(A) /\ Cardinality(A) \in Nat /\ Cardinality(A) <= c /\ Cardinality(A) # c
    <3> HIDE DEF A
    <3> QED BY <2>1, FS_Subset, FS_CardinalityType
  <2> HIDE DEF c
  <2> QED BY <1>1, <2>2
<1>3. \A i, j \in S : i # j => r(i) # r(j)
  <2> SUFFICES ASSUME NEW i \in S, NEW j \in S, i < j PROVE r(i) # r(j)
    OBVIOUS
  <2>1. r(i) < r(j)
    BY RankGrows
  <2> HIDE DEF r
  <2> QED BY <1>2, <2>1
<1>4. f \in Injection(S, 1 .. c)
  <2> HIDE DEF r, c
  <2> QED BY <1>1, <1>2, <1>3 DEF Injection, IsInjective
<1>5. f \in Surjection(S, 1 .. c)
  <2> HIDE DEF f
  <2> QED BY <1>1, <1>4, FS_Injection
<1>6. \A n \in 1 .. c : \E i \in S : r(i) = n - 1
  <2> HIDE DEF r, c
  <2>1. \A n \in 1 .. c : \E i \in S : f[i] = n
    <3> HIDE DEF f
    <3> QED BY <1>5 DEF Surjection
  <2>2. \A i \in S : f[i] = r(i) + 1 /\ r(i) \in Nat
    BY <1>2
  <2> HIDE DEF f
  <2>3. ASSUME NEW n \in 1 .. c PROVE \E i \in S : r(i) = n - 1
    <3>1. PICK i \in S : f[i] = n
      BY <2>1
    <3>2. r(i) + 1 = n /\ r(i) \in Nat
      BY <2>2, <3>1
    <3>3. r(i) = n - 1
      BY <3>2
    <3> QED BY <3>3
  <2> QED BY <2>3
<1> DEFINE g(n) == CHOOSE i \in S : r(i) = n - 1
<1>7. \A n \in 1 .. c : g(n) \in S /\ r(g(n)) = n - 1
  <2> HIDE DEF r
  <2> QED BY <1>6
<1>8. Ascending(S) = [n \in 1 .. c |-> g(n)]
  BY DEF Ascending
<1> HIDE DEF g
<1>9. Ascending(S) \in [1 .. c -> S] /\ \A n \in 1 .. c : r(Ascending(S)[n]) = n - 1
  <2> HIDE DEF r, c
  <2> QED BY <1>7, <1>8
<1>10. \A i \in S : \E n \in 1 .. c : Ascending(S)[n] = i
  <2> SUFFICES ASSUME NEW i \in S PROVE \E n \in 1 .. c : Ascending(S)[n] = i
    OBVIOUS
  <2> HIDE DEF r, c
  <2>1. r(i) + 1 \in 1 .. c /\ (r(i) + 1) - 1 = r(i)
    BY <1>1, <1>2
  <2>2. Ascending(S)[r(i) + 1] = i
    BY <1>3, <1>9, <2>1
  <2> QED BY <2>1, <2>2
<1>11. \A m, n \in 1 .. c : Ascending(S)[m] = Ascending(S)[n] => m = n
  <2> HIDE DEF r, c
  <2> SUFFICES ASSUME NEW m \in 1 .. c, NEW n \in 1 .. c,
                      Ascending(S)[m] = Ascending(S)[n]
               PROVE  m = n
    OBVIOUS
  <2>1. m - 1 = n - 1
    BY <1>9
  <2> QED BY <1>1, <2>1
<1> QED BY <1>1, <1>9, <1>10, <1>11

\* A list of inputs is not empty when the set is not.
LEMMA InputsListed ==
  ASSUME NEW S \in SUBSET PI
  PROVE  /\ S \in SUBSET Nat /\ IsFiniteSet(S)
         /\ Cardinality(S) \in Nat /\ (S # {} => Cardinality(S) # 0)
<1>1. IsFiniteSet(PI) /\ PI \subseteq Nat
  BY NumPIAssumption, FS_Interval DEF PI
<1>2. IsFiniteSet(S)
  BY <1>1, FS_Subset
<1> QED BY <1>1, <1>2, FS_CardinalityType, FS_EmptySet

\* The exclusive-or of the inputs in a set shows their parity.
LEMMA XorOfInputs ==
  ASSUME NEW S \in SUBSET PI, S # {}
  PROVE  /\ [n \in DOMAIN Ascending(S) |-> On(Ascending(S)[n])] \in Fanins
         /\ AddCone("xor", [n \in DOMAIN Ascending(S) |-> On(Ascending(S)[n])])
              = {x \in Point : Parity(x, S) = 1}
<1> DEFINE c == Cardinality(S)
<1>1. c \in Nat /\ c # 0 /\ S \in SUBSET Nat /\ IsFiniteSet(S)
  BY InputsListed
<1>2. PICK a \in [1 .. c -> S] :
        /\ a = Ascending(S)
        /\ \A i \in S : \E n \in 1 .. c : a[n] = i
        /\ \A m, n \in 1 .. c : a[m] = a[n] => m = n
  BY <1>1, AscendingLists
<1> DEFINE f == [n \in DOMAIN a |-> On(a[n])]
<1> HIDE DEF c
<1>3. f \in Seq(OnSet) /\ Len(f) = c /\ f \in Fanins
  <2>1. f \in [1 .. c -> OnSet]
    BY <1>2 DEF On, OnSet
  <2>2. f \in Seq(OnSet) /\ Len(f) = c
    BY <1>1, <2>1
  <2> QED BY <1>1, <2>2 DEF Fanins
<1>4. ASSUME NEW x \in Point PROVE Odd(f, c, x) <=> Parity(x, S) = 1
  <2> DEFINE A == {n \in 1 .. c : x \in f[n]}
             B == {i \in S : x[i] = "1"}
             g == [n \in A |-> a[n]]
  <2>1. \A n \in 1 .. c : x \in f[n] <=> x[a[n]] = "1"
    BY <1>2 DEF On
  <2>2. IsFiniteSet(A)
    <3>1. IsFiniteSet(1 .. c) /\ A \subseteq 1 .. c
      BY <1>1, FS_Interval
    <3> HIDE DEF A
    <3> QED BY <3>1, FS_Subset
  <2>3. g \in [A -> B]
    BY <1>2, <2>1
  <2>4. \A i \in B : \E n \in A : g[n] = i
    BY <1>2, <2>1
  <2>5. \A m, n \in A : g[m] = g[n] => m = n
    BY <1>2
  <2>6. g \in Bijection(A, B)
    <3> HIDE DEF g, A, B
    <3> QED BY <2>3, <2>4, <2>5 DEF Bijection, Injection, Surjection, IsInjective
  <2>7. Cardinality(B) = Cardinality(A)
    <3> HIDE DEF g, A, B
    <3> QED BY <2>2, <2>6, FS_Bijection DEF ExistsBijection
  <2> QED BY <2>7 DEF Odd, Parity
<1>5. AddCone("xor", f) = {x \in Point : Odd(f, c, x)}
  <2> HIDE DEF f
  <2> QED BY <1>3, AddConeXor DEF OddOf
<1>6. {x \in Point : Odd(f, c, x)} = {x \in Point : Parity(x, S) = 1}
  <2> HIDE DEF f
  <2> QED BY <1>4
<1> QED BY <1>2, <1>3, <1>5, <1>6

\* my_Abc_AddXor adds the points of the cube where the parity of its free inputs is
\* odd, or all but these when it is inverted.
THEOREM AddXorIs ==
  ASSUME NEW old \in OnSet, NEW s \in CubeString, Free(s) # {}, NEW invert \in BOOLEAN
  PROVE  AddXor(old, s, invert)
           = old \cup InvertIf(invert, {x \in Region(s) : Parity(x, Free(s)) = 1})
<1> DEFINE x0 == {x \in Point : Parity(x, Free(s)) = 1}
           c == Cardinality(Assigned(s))
<1>1. Free(s) \in SUBSET PI /\ Assigned(s) \in SUBSET PI
  BY DEF Free, Assigned
<1>2. PICK node : node = AddCone("xor", [n \in DOMAIN Ascending(Free(s)) |->
                                         On(Ascending(Free(s))[n])])
  OBVIOUS
<1>3. node = x0
  BY <1>1, <1>2, XorOfInputs
<1>4. c \in Nat /\ Assigned(s) \in SUBSET Nat /\ IsFiniteSet(Assigned(s))
  BY <1>1, InputsListed
<1>5. PICK a \in [1 .. c -> Assigned(s)] :
        a = Ascending(Assigned(s)) /\ \A i \in Assigned(s) : \E n \in 1 .. c : a[n] = i
  BY <1>4, AscendingLists
<1> HIDE DEF c
<1> DEFINE lits == [n \in DOMAIN a |-> InvertIf(s[a[n]] # "1", On(a[n]))]
<1>6. lits \in Seq(OnSet) /\ Len(lits) = c
  <2>1. lits \in [1 .. c -> OnSet]
    BY <1>5 DEF InvertIf, On, OnSet
  <2> HIDE DEF lits
  <2> QED BY <1>4, <2>1
<1>7. node \in OnSet
  BY <1>3 DEF OnSet
<1>8. PICK fs : fs = Append(lits, node)
  OBVIOUS
<1>9. /\ fs \in Fanins /\ DOMAIN fs = 1 .. c + 1 /\ fs[c + 1] = node
      /\ \A n \in 1 .. c : fs[n] = lits[n]
  <2> HIDE DEF lits
  <2> QED BY <1>4, <1>6, <1>7, <1>8 DEF Fanins
<1>10. AddXor(old, s, invert) = old \cup InvertIf(invert, AddCone("and", fs))
  BY <1>2, <1>5, <1>8 DEF AddXor
<1>11. AddCone("and", fs) = AllOf(fs)
  BY <1>9, AddConeAnd
<1>12. ASSUME NEW x \in Point
       PROVE  (\A n \in DOMAIN fs : x \in fs[n]) <=> Covers(s, x) /\ x \in node
  <2>1. (\A n \in DOMAIN fs : x \in fs[n]) <=> (\A n \in 1 .. c : x \in lits[n]) /\ x \in node
    <3> HIDE DEF lits
    <3> QED BY <1>4, <1>9
  <2>2. \A n \in 1 .. c : x \in lits[n] <=> (x[a[n]] = "1" <=> s[a[n]] = "1")
    BY <1>5 DEF InvertIf, On
  <2>3. (\A n \in 1 .. c : x \in lits[n])
          <=> \A i \in Assigned(s) : x[i] = "1" <=> s[i] = "1"
    <3> HIDE DEF lits
    <3> QED BY <1>5, <2>2
  <2>4. \A i \in PI : x[i] \in Bit /\ s[i] \in Bit \cup {DontCare}
    BY DEF Point, CubeString
  <2>5. (\A i \in Assigned(s) : x[i] = "1" <=> s[i] = "1") <=> Covers(s, x)
    BY <2>4 DEF Covers, Assigned, Free, Bit
  <2> QED BY <2>1, <2>3, <2>5
<1>13. AllOf(fs) = {x \in Region(s) : Parity(x, Free(s)) = 1}
  BY <1>3, <1>12 DEF AllOf, Region
<1> QED BY <1>10, <1>11, <1>13

-----------------------------------------------------------------------------
(* Cubes over groups.                                                      *)

\* A compact cube with a literal, and the points where all its literals hold.
Literal(s) == \E k \in DOMAIN s : s[k] # DontCare
Meets(ci, s) ==
  {x \in Point : \A k \in DOMAIN s :
     s[k] # DontCare => (x \in CompactFanin(ci, k) <=> s[k] = "1")}

\* The literals of a cube are nodes, and there is one.
LEMMA CompactFaninType ==
  ASSUME NEW ci \in ComcubeInfo, NEW k \in Nat \ {0}
  PROVE  CompactFanin(ci, k) \in OnSet
<1>1. CASE k <= Len(ci.nodes)
  BY <1>1 DEF CompactFanin, ComcubeInfo
<1>2. CASE ~ (k <= Len(ci.nodes))
  BY <1>2 DEF CompactFanin, On, OnSet
<1> QED BY <1>1, <1>2

\* The node of a cube is the conjunction of its literals.
LEMMA CompactNodeIs ==
  ASSUME NEW ci \in ComcubeInfo, NEW s \in CompactString, Literal(s)
  PROVE  CompactNode(ci, s) = Meets(ci, s)
<1> DEFINE K == {k \in DOMAIN s : s[k] # DontCare}
           c == Cardinality(K)
<1>1. DOMAIN s = 1 .. Len(s) /\ Len(s) \in Nat
  BY DEF CompactString
<1>2. K \in SUBSET Nat /\ IsFiniteSet(K) /\ K # {} /\ \A k \in K : k \in Nat \ {0}
  <2>1. K # {}
    BY DEF Literal
  <2>2. IsFiniteSet(1 .. Len(s))
    BY <1>1, FS_Interval
  <2>3. K \subseteq 1 .. Len(s)
    BY <1>1
  <2>4. \A k \in K : k \in Nat \ {0}
    <3> HIDE DEF K
    <3> QED BY <1>1, <2>3
  <2> HIDE DEF K
  <2> QED BY <2>1, <2>2, <2>3, <2>4, FS_Subset
<1>3. c \in Nat /\ c # 0
  <2> HIDE DEF K
  <2> QED BY <1>2, FS_CardinalityType, FS_EmptySet
<1>4. PICK a \in [1 .. c -> K] :
        a = Ascending(K) /\ \A k \in K : \E n \in 1 .. c : a[n] = k
  <2> HIDE DEF K
  <2> QED BY <1>2, AscendingLists
<1> HIDE DEF c
<1> DEFINE fs == [n \in DOMAIN a |-> InvertIf(s[a[n]] # "1", CompactFanin(ci, a[n]))]
<1>5. \A n \in 1 .. c : CompactFanin(ci, a[n]) \in OnSet
  <2> HIDE DEF K
  <2> QED BY <1>2, <1>4, CompactFaninType
<1>6. fs \in Fanins /\ DOMAIN fs = 1 .. c
  <2>1. fs \in [1 .. c -> OnSet]
    BY <1>4, <1>5 DEF InvertIf, OnSet
  <2> HIDE DEF fs
  <2> QED BY <1>3, <2>1 DEF Fanins
<1>7. CompactNode(ci, s) = AddCone("and", fs)
  BY <1>4 DEF CompactNode
<1>8. AddCone("and", fs) = AllOf(fs)
  <2> HIDE DEF fs
  <2> QED BY <1>6, AddConeAnd
<1>9. ASSUME NEW x \in Point
      PROVE  (\A n \in DOMAIN fs : x \in fs[n]) <=> x \in Meets(ci, s)
  <2>1. \A n \in 1 .. c : x \in fs[n] <=> (x \in CompactFanin(ci, a[n]) <=> s[a[n]] = "1")
    BY <1>4, <1>5 DEF InvertIf, OnSet
  <2>2. (\A n \in 1 .. c : x \in fs[n])
          <=> \A k \in K : x \in CompactFanin(ci, k) <=> s[k] = "1"
    <3> HIDE DEF fs, K
    <3> QED BY <1>4, <2>1
  <2> QED BY <1>6, <2>2 DEF Meets
<1>10. AllOf(fs) = {x \in Point : x \in Meets(ci, s)}
  <2> HIDE DEF fs
  <2> QED BY <1>9 DEF AllOf
<1>11. {x \in Point : x \in Meets(ci, s)} = Meets(ci, s)
  BY DEF Meets
<1> QED BY <1>7, <1>8, <1>10, <1>11

\* my_Abc_AddCubes adds the points that meet one of the cubes.
THEOREM AddCompactIs ==
  ASSUME NEW old \in OnSet, NEW ci \in ComcubeInfo, NEW pats \in Seq(CompactString),
         \A n \in DOMAIN pats : Literal(pats[n])
  PROVE  AddCompact(old, ci, pats) = old \cup UNION {Meets(ci, pats[n]) : n \in DOMAIN pats}
<1> DEFINE nodes == [n \in DOMAIN pats |-> CompactNode(ci, pats[n])]
           c == Len(pats)
<1>1. c \in Nat /\ DOMAIN pats = 1 .. c /\ \A n \in 1 .. c : pats[n] \in CompactString
  OBVIOUS
<1>2. \A n \in 1 .. c : nodes[n] = Meets(ci, pats[n])
  BY <1>1, CompactNodeIs
<1>3. nodes \in Seq(OnSet) /\ Len(nodes) = c
  <2>1. nodes \in [1 .. c -> OnSet]
    BY <1>1, <1>2 DEF Meets, OnSet
  <2> HIDE DEF nodes
  <2> QED BY <1>1, <2>1
<1>4. PICK fs : fs = Append(nodes, old)
  OBVIOUS
<1>5. /\ fs \in Fanins /\ DOMAIN fs = 1 .. c + 1 /\ fs[c + 1] = old
      /\ \A n \in 1 .. c : fs[n] = nodes[n]
  <2> HIDE DEF nodes
  <2> QED BY <1>1, <1>3, <1>4 DEF Fanins
<1>6. AddCompact(old, ci, pats) = SomeOf(fs)
  BY <1>4, <1>5, AddConeOr DEF AddCompact
<1>7. SomeOf(fs) = {x \in Point : x \in old \/ \E n \in 1 .. c : x \in Meets(ci, pats[n])}
  <2> HIDE DEF nodes
  <2>1. \A x : (\E n \in DOMAIN fs : x \in fs[n])
                 <=> (x \in old \/ \E n \in 1 .. c : x \in Meets(ci, pats[n]))
    BY <1>1, <1>2, <1>5
  <2> QED BY <2>1 DEF SomeOf
<1>8. \A n : Meets(ci, pats[n]) \subseteq Point
  BY DEF Meets
<1> QED BY <1>1, <1>6, <1>7, <1>8 DEF OnSet

-----------------------------------------------------------------------------
(* The comparators.                                                        *)

\* Two variables of the same length, and what they show at x.
SameLength(v, w) == v \in Seq(PI) /\ w \in Seq(PI) /\ Len(v) = Len(w) /\ Len(v) # 0
Equal(v, w, x, n) == x[v[n]] = "1" <=> x[w[n]] = "1"
Greater(v, w, x, n) == x[v[n]] = "1" /\ x[w[n]] # "1"

\* The first position from n on where the variables differ has a 1 in v.
LargerFrom(v, w, n) ==
  {x \in Point : \E m \in n .. Len(v) :
     Greater(v, w, x, m) /\ \A j \in n .. m - 1 : Equal(v, w, x, j)}

\* build_equiv is 1 where all bits are equal.
LEMMA EquivIs ==
  ASSUME NEW v, NEW w, SameLength(v, w)
  PROVE  BuildEquiv(v, w) = {x \in Point : \A n \in 1 .. Len(v) : Equal(v, w, x, n)}
<1> DEFINE fs == [n \in DOMAIN v |-> Not(Xor(On(v[n]), On(w[n])))]
<1>1. DOMAIN v = 1 .. Len(v) /\ Len(v) \in Nat \ {0}
  BY DEF SameLength
<1>2. fs \in Fanins /\ DOMAIN fs = 1 .. Len(v)
  <2>1. fs \in [1 .. Len(v) -> OnSet]
    BY <1>1 DEF Not, Xor, On, OnSet
  <2> HIDE DEF fs
  <2> QED BY <1>1, <2>1 DEF Fanins
<1>3. BuildEquiv(v, w) = AllOf(fs)
  <2>1. BuildEquiv(v, w) = AddCone("and", fs)
    BY DEF BuildEquiv
  <2> HIDE DEF fs
  <2> QED BY <1>2, <2>1, AddConeAnd
<1>4. \A x \in Point, n \in 1 .. Len(v) : x \in fs[n] <=> Equal(v, w, x, n)
  BY <1>1 DEF Equal, Not, Xor, On
<1> HIDE DEF fs
<1> QED BY <1>2, <1>3, <1>4 DEF AllOf

\* build_xor is 1 where all bits differ.
LEMMA XorIs ==
  ASSUME NEW v, NEW w, SameLength(v, w)
  PROVE  BuildXor(v, w) = {x \in Point : \A n \in 1 .. Len(v) : ~Equal(v, w, x, n)}
<1> DEFINE fs == [n \in DOMAIN v |-> Xor(On(v[n]), On(w[n]))]
<1>1. DOMAIN v = 1 .. Len(v) /\ Len(v) \in Nat \ {0}
  BY DEF SameLength
<1>2. fs \in Fanins /\ DOMAIN fs = 1 .. Len(v)
  <2>1. fs \in [1 .. Len(v) -> OnSet]
    BY <1>1 DEF Xor, On, OnSet
  <2> HIDE DEF fs
  <2> QED BY <1>1, <2>1 DEF Fanins
<1>3. BuildXor(v, w) = AllOf(fs)
  <2>1. BuildXor(v, w) = AddCone("and", fs)
    BY DEF BuildXor
  <2> HIDE DEF fs
  <2> QED BY <1>2, <2>1, AddConeAnd
<1>4. \A x \in Point, n \in 1 .. Len(v) : x \in fs[n] <=> ~Equal(v, w, x, n)
  BY <1>1 DEF Equal, Xor, On
<1> HIDE DEF fs
<1> QED BY <1>2, <1>3, <1>4 DEF AllOf

\* The recursion of build_larger_than and build_smaller_than, one position further.
LEMMA LargerStep ==
  ASSUME NEW v, NEW w, SameLength(v, w), NEW n \in 1 .. Len(v)
  PROVE  LargerFrom(v, w, n)
           = LET here == On(v[n]) \ On(w[n])
             IN  IF n = Len(v) THEN here
                 ELSE here \cup (Not(Xor(On(v[n]), On(w[n]))) \cap LargerFrom(v, w, n + 1))
<1>1. Len(v) \in Nat /\ n \in Nat
  BY DEF SameLength
<1>2. PICK L \in Nat : L = Len(v)
  BY <1>1
<1>3. ASSUME NEW x \in Point
      PROVE  x \in LargerFrom(v, w, n)
               <=> \/ Greater(v, w, x, n)
                   \/ n # L /\ Equal(v, w, x, n) /\ x \in LargerFrom(v, w, n + 1)
  <2>1. ASSUME NEW m \in n .. L, Greater(v, w, x, m),
               \A j \in n .. m - 1 : Equal(v, w, x, j), m # n
        PROVE  n # L /\ Equal(v, w, x, n) /\ x \in LargerFrom(v, w, n + 1)
    <3>1. m \in n + 1 .. L /\ n \in n .. m - 1 /\ n # L
      BY <1>1, <2>1
    <3>2. \A j \in n + 1 .. m - 1 : Equal(v, w, x, j)
      BY <1>1, <2>1
    <3> QED BY <1>2, <2>1, <3>1, <3>2 DEF LargerFrom
  <2>2. ASSUME Greater(v, w, x, n) PROVE x \in LargerFrom(v, w, n)
    <3>1. n \in n .. L /\ n .. n - 1 = {}
      BY <1>1, <1>2
    <3> QED BY <1>2, <2>2, <3>1 DEF LargerFrom
  <2>3. ASSUME n # L, Equal(v, w, x, n), x \in LargerFrom(v, w, n + 1)
        PROVE  x \in LargerFrom(v, w, n)
    <3>1. PICK m \in n + 1 .. L :
            Greater(v, w, x, m) /\ \A j \in n + 1 .. m - 1 : Equal(v, w, x, j)
      BY <1>2, <2>3 DEF LargerFrom
    <3>2. m \in n .. L
      BY <1>1, <1>2
    <3>3. \A j \in n .. m - 1 : Equal(v, w, x, j)
      <4>1. \A j \in n .. m - 1 : j = n \/ j \in n + 1 .. m - 1
        BY <1>1
      <4> QED BY <2>3, <3>1, <4>1
    <3> QED BY <1>2, <3>1, <3>2, <3>3 DEF LargerFrom
  <2> QED BY <1>2, <2>1, <2>2, <2>3 DEF LargerFrom
<1>4. \A x \in Point : Greater(v, w, x, n) <=> x \in On(v[n]) \ On(w[n])
  BY DEF Greater, On
<1>5. \A x \in Point : Equal(v, w, x, n) <=> x \in Not(Xor(On(v[n]), On(w[n])))
  BY DEF Equal, Not, Xor, On
<1>6. LargerFrom(v, w, n) \subseteq Point /\ LargerFrom(v, w, n + 1) \subseteq Point
      /\ On(v[n]) \subseteq Point
  BY DEF LargerFrom, On
<1> QED BY <1>2, <1>3, <1>4, <1>5, <1>6

\* Induction from the last position down to the first.
LEMMA Downward ==
  ASSUME NEW L \in Nat \ {0}, NEW S, L \in S, \A n \in 1 .. L - 1 : n + 1 \in S => n \in S
  PROVE  1 .. L \subseteq S
<1> DEFINE T == {i \in 0 .. L - 1 : L - i \in S}
<1>1. 0 \in T
  OBVIOUS
<1>2. \A i \in 0 .. (L - 1) - 1 : i \in T => i + 1 \in T
  <2> SUFFICES ASSUME NEW i \in 0 .. (L - 1) - 1, i \in T PROVE i + 1 \in T
    OBVIOUS
  <2>1. L - (i + 1) \in 1 .. L - 1 /\ (L - (i + 1)) + 1 = L - i /\ i + 1 \in 0 .. L - 1
    OBVIOUS
  <2>2. L - (i + 1) \in S
    BY <2>1
  <2> QED BY <2>1, <2>2
<1>3. 0 .. L - 1 \subseteq T
  <2>1. L - 1 \in Nat
    OBVIOUS
  <2> HIDE DEF T
  <2> QED BY <1>1, <1>2, <2>1, UpToInduction
<1>4. \A n \in 1 .. L : L - n \in 0 .. L - 1 /\ L - (L - n) = n
  OBVIOUS
<1> QED BY <1>3, <1>4

\* The recursion of the comparators has one solution.
Chained(L, here, same, f) ==
  \A n \in 1 .. L : f[n] = IF n = L THEN here[n] ELSE here[n] \cup (same[n] \cap f[n + 1])

\* Two functions that satisfy it start with the same value.
LEMMA OneChain ==
  ASSUME NEW L \in Nat \ {0}, NEW here, NEW same, NEW f, Chained(L, here, same, f),
         NEW g, Chained(L, here, same, g)
  PROVE  f[1] = g[1]
<1> DEFINE S == {n \in 1 .. L : f[n] = g[n]}
<1>1. L \in S
  <2>1. L \in 1 .. L
    OBVIOUS
  <2>2. f[L] = here[L] /\ g[L] = here[L]
    BY <2>1 DEF Chained
  <2> QED BY <2>1, <2>2
<1>2. \A n \in 1 .. L - 1 : n + 1 \in S => n \in S
  <2> SUFFICES ASSUME NEW n \in 1 .. L - 1, n + 1 \in S PROVE n \in S
    OBVIOUS
  <2>1. n \in 1 .. L /\ n # L
    OBVIOUS
  <2>2. /\ f[n] = here[n] \cup (same[n] \cap f[n + 1])
        /\ g[n] = here[n] \cup (same[n] \cap g[n + 1])
    BY <2>1 DEF Chained
  <2> QED BY <2>1, <2>2
<1>3. 1 .. L \subseteq S
  <2> HIDE DEF S
  <2> QED BY <1>1, <1>2, Downward
<1>4. 1 \in 1 .. L
  OBVIOUS
<1> QED BY <1>3, <1>4

\* build_larger_than is 1 where the first difference has a 1 in v.
LEMMA LargerIs ==
  ASSUME NEW v, NEW w, SameLength(v, w)
  PROVE  BuildLargerThan(v, w) = LargerFrom(v, w, 1)
<1> DEFINE here == [n \in DOMAIN v |-> On(v[n]) \ On(w[n])]
           same == [n \in DOMAIN v |-> Not(Xor(On(v[n]), On(w[n])))]
           F(f) == [n \in DOMAIN v |->
                      IF n = Len(v) THEN On(v[n]) \ On(w[n])
                      ELSE (On(v[n]) \ On(w[n])) \cup (Not(Xor(On(v[n]), On(w[n]))) \cap f[n + 1])]
           closed == [n \in DOMAIN v |-> LargerFrom(v, w, n)]
<1>1. PICK L \in Nat \ {0} : L = Len(v) /\ DOMAIN v = 1 .. L
  BY DEF SameLength
<1>2. \A n \in 1 .. L : n # L => n + 1 \in 1 .. L
  BY <1>1
<1>3. closed = F(closed)
  <2>1. \A n \in 1 .. L : closed[n] = F(closed)[n]
    BY <1>1, <1>2, LargerStep
  <2> QED BY <1>1, <2>1
<1>4. PICK g : g = (CHOOSE f : f = F(f))
  OBVIOUS
<1>5. g = F(g)
  <2> HIDE DEF F, closed
  <2> QED BY <1>3, <1>4
<1>6. BuildLargerThan(v, w) = g[1]
  BY <1>4 DEF BuildLargerThan
<1>7. Chained(L, here, same, closed) /\ Chained(L, here, same, g)
  BY <1>1, <1>3, <1>5 DEF Chained
<1>8. closed[1] = g[1]
  <2> HIDE DEF closed, here, same
  <2> QED BY <1>7, OneChain
<1>9. 1 \in 1 .. L
  BY <1>1
<1> QED BY <1>1, <1>6, <1>8, <1>9

\* build_smaller_than is build_larger_than with the variables exchanged.
LEMMA SmallerIs ==
  ASSUME NEW v, NEW w, SameLength(v, w)
  PROVE  BuildSmallerThan(v, w) = LargerFrom(w, v, 1)
<1> DEFINE here == [n \in DOMAIN v |-> On(w[n]) \ On(v[n])]
           same == [n \in DOMAIN v |-> Not(Xor(On(v[n]), On(w[n])))]
           F(f) == [n \in DOMAIN v |->
                      IF n = Len(v) THEN On(w[n]) \ On(v[n])
                      ELSE (On(w[n]) \ On(v[n])) \cup (Not(Xor(On(v[n]), On(w[n]))) \cap f[n + 1])]
           closed == [n \in DOMAIN v |-> LargerFrom(w, v, n)]
<1>1. PICK L \in Nat \ {0} : L = Len(v) /\ L = Len(w) /\ DOMAIN v = 1 .. L
  BY DEF SameLength
<1>2. \A n \in 1 .. L : n # L => n + 1 \in 1 .. L
  BY <1>1
<1> HIDE DEF here, same
<1>3. closed = F(closed)
  <2>1. SameLength(w, v)
    BY DEF SameLength
  <2>2. \A n \in 1 .. L : Xor(On(v[n]), On(w[n])) = Xor(On(w[n]), On(v[n]))
    BY DEF Xor
  <2>3. \A n \in 1 .. L : closed[n] = F(closed)[n]
    BY <1>1, <1>2, <2>1, <2>2, LargerStep
  <2> QED BY <1>1, <2>3
<1>4. PICK g : g = (CHOOSE f : f = F(f))
  OBVIOUS
<1>5. g = F(g)
  <2> HIDE DEF F, closed
  <2> QED BY <1>3, <1>4
<1>6. BuildSmallerThan(v, w) = g[1]
  BY <1>4 DEF BuildSmallerThan
<1>7. Chained(L, here, same, closed) /\ Chained(L, here, same, g)
  BY <1>1, <1>3, <1>5 DEF Chained, here, same
<1>8. closed[1] = g[1]
  <2> HIDE DEF closed, here, same
  <2> QED BY <1>7, OneChain
<1>9. 1 \in 1 .. L
  BY <1>1
<1> QED BY <1>1, <1>6, <1>8, <1>9

\* The comparator of each relation.
LEMMA FanoutIs ==
  ASSUME NEW v, NEW w
  PROVE  /\ Fanout("XOR", v, w) = BuildXor(v, w)
         /\ Fanout("EQUIVALENCE", v, w) = BuildEquiv(v, w)
         /\ Fanout("LARGER_THAN", v, w) = BuildLargerThan(v, w)
         /\ Fanout("SMALLER_THAN", v, w) = BuildSmallerThan(v, w)
         /\ Fanout("LARGER_EQ_THAN", v, w) = Not(BuildSmallerThan(v, w))
         /\ Fanout("SMALLER_EQ_THAN", v, w) = Not(BuildLargerThan(v, w))
<1> USE DEF Fanout
<1>1. Fanout("XOR", v, w) = BuildXor(v, w)
  BY Zenon
<1>2. Fanout("EQUIVALENCE", v, w) = BuildEquiv(v, w)
  BY Zenon
<1>3. Fanout("LARGER_THAN", v, w) = BuildLargerThan(v, w)
  BY Zenon
<1>4. Fanout("SMALLER_THAN", v, w) = BuildSmallerThan(v, w)
  BY Zenon
<1>5. Fanout("LARGER_EQ_THAN", v, w) = Not(BuildSmallerThan(v, w))
  BY Zenon
<1>6. Fanout("SMALLER_EQ_THAN", v, w) = Not(BuildLargerThan(v, w))
  BY Zenon
<1> QED BY <1>1, <1>2, <1>3, <1>4, <1>5, <1>6

-----------------------------------------------------------------------------
(* Lists of the elements of a finite set.                                  *)

\* A finite set is listed in full: of c elements, c are taken one after the other.
LEMMA SomeOrderLists ==
  ASSUME NEW S, IsFiniteSet(S)
  PROVE  /\ Cardinality(S) \in Nat
         /\ InSomeOrder(S) \in [1 .. Cardinality(S) -> S]
         /\ \A e \in S : \E n \in 1 .. Cardinality(S) : InSomeOrder(S)[n] = e
<1>1. PICK c \in Nat : c = Cardinality(S)
  BY FS_CardinalityType
<1> DEFINE take == [T \in SUBSET S |-> T \ {CHOOSE e \in T : TRUE}]
           F(f) == [n \in 0 .. Cardinality(S) |->
                      IF n = 0 THEN S ELSE f[n - 1] \ {CHOOSE e \in f[n - 1] : TRUE}]
<1>2. \E f : Iteration(SUBSET S, take, S, c, f)
  <2>1. take \in [SUBSET S -> SUBSET S] /\ S \in SUBSET S
    OBVIOUS
  <2> HIDE DEF take
  <2> QED BY <2>1, Iterate
<1>3. PICK f : Iteration(SUBSET S, take, S, c, f)
  BY <1>2
<1>4. f \in [0 .. c -> SUBSET S] /\ f[0] = S /\ \A n \in 1 .. c : f[n] = take[f[n - 1]]
  <2> HIDE DEF take
  <2> QED BY <1>3 DEF Iteration
<1>5. \A n \in 1 .. c : f[n] = f[n - 1] \ {CHOOSE e \in f[n - 1] : TRUE}
  <2> SUFFICES ASSUME NEW n \in 1 .. c
               PROVE  f[n] = f[n - 1] \ {CHOOSE e \in f[n - 1] : TRUE}
    OBVIOUS
  <2>1. n - 1 \in 0 .. c /\ f[n - 1] \in SUBSET S
    BY <1>4
  <2> QED BY <1>4, <2>1
<1>6. f = F(f)
  <2>1. \A n \in 0 .. c : f[n] = F(f)[n]
    BY <1>1, <1>4, <1>5
  <2> QED BY <1>1, <1>4, <2>1
<1>7. PICK g : g = (CHOOSE h : h = F(h))
  OBVIOUS
<1>8. g = F(g)
  <2> HIDE DEF F
  <2> QED BY <1>6, <1>7
<1>9. InSomeOrder(S) = [n \in 1 .. c |-> CHOOSE e \in g[n - 1] : TRUE]
  BY <1>1, <1>7 DEF InSomeOrder
<1>10. g[0] = S /\ \A n \in 1 .. c : g[n] = g[n - 1] \ {CHOOSE e \in g[n - 1] : TRUE}
  <2>1. \A n \in 0 .. c : F(g)[n] = IF n = 0 THEN S
                                    ELSE g[n - 1] \ {CHOOSE e \in g[n - 1] : TRUE}
    BY <1>1
  <2>2. \A n \in 0 .. c : g[n] = IF n = 0 THEN S
                                 ELSE g[n - 1] \ {CHOOSE e \in g[n - 1] : TRUE}
    <3> HIDE DEF F
    <3> QED BY <1>8, <2>1
  <2> HIDE DEF F, take
  <2>3. 0 \in 0 .. c /\ \A n \in 1 .. c : n \in 0 .. c /\ n # 0
    OBVIOUS
  <2> QED BY <2>2, <2>3, Zenon
<1> DEFINE Left == {n \in 0 .. c : /\ g[n] \subseteq S /\ IsFiniteSet(g[n])
                                   /\ Cardinality(g[n]) = c - n}
<1>11. 0 \in Left
  BY <1>1, <1>10
<1>12. \A n \in 0 .. c - 1 : n \in Left => n + 1 \in Left
  <2> SUFFICES ASSUME NEW n \in 0 .. c - 1, n \in Left PROVE n + 1 \in Left
    OBVIOUS
  <2>1. PICK T : T = g[n]
    OBVIOUS
  <2>2. T \subseteq S /\ IsFiniteSet(T) /\ Cardinality(T) = c - n /\ c - n # 0
    BY <2>1
  <2>3. T # {}
    BY <2>2, FS_EmptySet
  <2>4. PICK e \in T : e = (CHOOSE x \in T : TRUE)
    BY <2>3
  <2>5. n + 1 \in 1 .. c /\ (n + 1) - 1 = n /\ n + 1 \in 0 .. c
    OBVIOUS
  <2>6. g[n + 1] = T \ {e}
    BY <1>10, <2>1, <2>4, <2>5
  <2>7. IsFiniteSet(T \ {e}) /\ Cardinality(T \ {e}) = Cardinality(T) - 1
    BY <2>2, FS_RemoveElement
  <2> QED BY <2>2, <2>5, <2>6, <2>7
<1>13. 0 .. c \subseteq Left
  <2> HIDE DEF Left
  <2> QED BY <1>11, <1>12, UpToInduction
<1>14. ASSUME NEW n \in 1 .. c
       PROVE  (CHOOSE e \in g[n - 1] : TRUE) \in g[n - 1] /\ g[n - 1] \subseteq S
  <2>1. n - 1 \in 0 .. c /\ c - (n - 1) # 0
    OBVIOUS
  <2>2. g[n - 1] \subseteq S /\ IsFiniteSet(g[n - 1]) /\ Cardinality(g[n - 1]) = c - (n - 1)
    BY <1>13, <2>1
  <2>3. g[n - 1] # {}
    BY <2>1, <2>2, FS_EmptySet
  <2> QED BY <2>2, <2>3
<1>15. InSomeOrder(S) \in [1 .. c -> S]
  BY <1>9, <1>14
<1>16. ASSUME NEW e \in S, \A n \in 1 .. c : InSomeOrder(S)[n] # e PROVE FALSE
  <2> DEFINE In == {n \in 0 .. c : e \in g[n]}
  <2>1. 0 \in In
    BY <1>10
  <2>2. \A n \in 0 .. c - 1 : n \in In => n + 1 \in In
    <3> SUFFICES ASSUME NEW n \in 0 .. c - 1, n \in In PROVE n + 1 \in In
      OBVIOUS
    <3>1. n + 1 \in 1 .. c /\ (n + 1) - 1 = n /\ n + 1 \in 0 .. c
      OBVIOUS
    <3>2. InSomeOrder(S)[n + 1] = CHOOSE x \in g[n] : TRUE
      BY <1>9, <3>1
    <3>3. g[n + 1] = g[n] \ {CHOOSE x \in g[n] : TRUE}
      BY <1>10, <3>1
    <3> QED BY <1>16, <3>1, <3>2, <3>3
  <2>3. 0 .. c \subseteq In
    <3> HIDE DEF In
    <3> QED BY <2>1, <2>2, UpToInduction
  <2>4. c \in 0 .. c
    OBVIOUS
  <2>5. e \in g[c]
    BY <2>3, <2>4
  <2>6. IsFiniteSet(g[c]) /\ Cardinality(g[c]) = 0
    BY <1>13, <2>4
  <2> QED BY <2>5, <2>6, FS_EmptySet
<1> QED BY <1>1, <1>15, <1>16
=============================================================================
