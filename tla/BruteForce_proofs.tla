------------------------- MODULE BruteForce_proofs -------------------------
(***************************************************************************)
(* Brute force is exact for any number of inputs and outputs, any numbers  *)
(* of samples and any black box: the two records of the sampling agree,    *)
(* every assignment of the inputs they name is asked for once, and what is *)
(* recorded is the function of the black box when no input was missed.     *)
(***************************************************************************)
EXTENDS BruteForce, Network_proofs

-----------------------------------------------------------------------------
(* Bits of a number.                                                       *)

\* Half of a number, and the half of its quotients.
LEMMA HalfOf ==
  ASSUME NEW n \in Nat, NEW p \in Nat \ {0}, NEW b \in {0, 1}
  PROVE  /\ (2 * n + b) \div (2 * p) = n \div p
         /\ ((2 * n + b) % 2) = b
<1>1. PICK q \in Nat : q = n \div p
  OBVIOUS
<1>2. PICK r \in Nat : r < p /\ n = p * q + r
  <2>1. (n % p) \in Nat /\ (n % p) < p /\ n = p * (n \div p) + (n % p)
    OBVIOUS
  <2> QED BY <1>1, <2>1
<1>3. PICK w \in Nat \ {0} : w = 2 * p
  OBVIOUS
<1>4. 2 * n + b = w * q + (2 * r + b) /\ 2 * r + b < w /\ 2 * r + b \in Nat
  <2>1. 2 * (p * q) = (2 * p) * q
    OBVIOUS
  <2> QED BY <1>2, <1>3, <2>1
<1>5. (w * q + (2 * r + b)) \div w = q
  BY <1>4
<1> QED BY <1>1, <1>3, <1>4, <1>5

\* The bits of a number that is doubled, and of the bit put behind it.
LEMMA BitsOfDouble ==
  ASSUME NEW n \in Nat, NEW b \in {0, 1}
  PROVE  /\ BitOf(2 * n + b, 0) = IF b = 1 THEN "1" ELSE "0"
         /\ \A j \in Nat : BitOf(2 * n + b, j + 1) = BitOf(n, j)
<1>1. PICK m \in Nat : m = 2 * n + b
  OBVIOUS
<1>2. m \div 1 = m /\ (m % 2) = b
  <2>1. m \div 1 = m
    OBVIOUS
  <2>2. 1 \in Nat \ {0}
    OBVIOUS
  <2> QED BY <1>1, <2>1, <2>2, HalfOf
<1>3. BitOf(m, 0) = IF b = 1 THEN "1" ELSE "0"
  BY <1>2, Powers DEF BitOf
<1>4. ASSUME NEW j \in Nat PROVE BitOf(m, j + 1) = BitOf(n, j)
  <2>1. PICK p \in Nat \ {0} : p = 2 ^ j /\ 2 ^ (j + 1) = 2 * p
    BY Powers
  <2>2. m \div (2 * p) = n \div p
    BY <1>1, HalfOf
  <2>3. m \div 2 ^ (j + 1) = n \div 2 ^ j
    BY <2>1, <2>2
  <2> QED BY <2>3 DEF BitOf
<1> QED BY <1>1, <1>3, <1>4

\* The first d bits of n.
HasBits(d, n, b) == \A j \in 0 .. d - 1 : BitOf(n, j) = b[j]

\* Every row of d bits is that of a number below 2 ^ d.
LEMMA NumberWith ==
  ASSUME NEW d \in Nat, NEW b \in [Nat -> Bit]
  PROVE  \E n \in 0 .. 2 ^ d - 1 : HasBits(d, n, b)
<1> DEFINE S == {k \in Nat : \A c \in [Nat -> Bit] : \E n \in 0 .. 2 ^ k - 1 : HasBits(k, n, c)}
<1>1. 0 \in S
  <2>1. 0 \in 0 .. 2 ^ 0 - 1
    OBVIOUS
  <2> QED BY <2>1 DEF HasBits
<1>2. \A k \in S : k + 1 \in S
  <2> SUFFICES ASSUME NEW k \in Nat, k \in S, NEW c \in [Nat -> Bit]
               PROVE  \E n \in 0 .. 2 ^ (k + 1) - 1 : HasBits(k + 1, n, c)
    OBVIOUS
  <2>1. PICK r \in [Nat -> Bit] : \A j \in Nat : r[j] = c[j + 1]
    <3>1. [j \in Nat |-> c[j + 1]] \in [Nat -> Bit]
      OBVIOUS
    <3> QED BY <3>1
  <2>2. PICK n \in 0 .. 2 ^ k - 1 : HasBits(k, n, r)
    OBVIOUS
  <2>3. PICK p \in Nat \ {0} : p = 2 ^ k /\ 2 ^ (k + 1) = 2 * p
    BY Powers
  <2>4. n \in Nat /\ n <= p - 1
    BY <2>2, <2>3
  <2>5. PICK b0 \in {0, 1} : c[0] = IF b0 = 1 THEN "1" ELSE "0"
    BY DEF Bit
  <2>6. 2 * n + b0 \in 0 .. 2 ^ (k + 1) - 1
    BY <2>3, <2>4, <2>5
  <2>7. ASSUME NEW j \in 0 .. k PROVE BitOf(2 * n + b0, j) = c[j]
    <3>1. CASE j = 0
      BY <2>4, <2>5, <3>1, BitsOfDouble
    <3>2. CASE j # 0
      <4>1. PICK i \in Nat : i \in 0 .. k - 1 /\ j = i + 1
        <5>1. j - 1 \in 0 .. k - 1 /\ j - 1 \in Nat /\ j = (j - 1) + 1
          BY <3>2
        <5> QED BY <5>1
      <4>2. BitOf(n, i) = r[i] /\ r[i] = c[i + 1]
        BY <2>1, <2>2, <4>1 DEF HasBits
      <4>3. BitOf(2 * n + b0, i + 1) = BitOf(n, i)
        BY <2>4, <2>5, BitsOfDouble
      <4> QED BY <4>1, <4>2, <4>3
    <3> QED BY <3>1, <3>2
  <2>8. HasBits(k + 1, 2 * n + b0, c)
    BY <2>7 DEF HasBits
  <2> QED BY <2>6, <2>8
<1>3. S = Nat
  <2>1. S \subseteq Nat
    OBVIOUS
  <2> HIDE DEF S
  <2> QED BY <1>1, <1>2, <2>1, NatSetInduction
<1> QED BY <1>3

-----------------------------------------------------------------------------
(* Inputs that do not matter.                                              *)

\* Points that agree on the support of an output have the same answer.
LEMMA SupportDecides ==
  ASSUME NEW o \in PO, oracle \in [PO -> [Point -> BOOLEAN]],
         NEW x \in Point, NEW y \in Point, Agree(x, y, Support(o))
  PROVE  oracle[o][x] = oracle[o][y]
<1> DEFINE mix(k) == [i \in PI |-> IF i < k THEN y[i] ELSE x[i]]
           S == {k \in 0 .. NumPI : oracle[o][mix(k)] = oracle[o][x]}
<1>1. NumPI \in Nat /\ PI = 0 .. NumPI - 1
  BY NumPIAssumption DEF PI
<1>2. \A k : mix(k) \in Point
  BY DEF Point
<1>3. mix(0) = x /\ mix(NumPI) = y
  <2>1. x = [i \in PI |-> x[i]] /\ y = [i \in PI |-> y[i]]
    BY DEF Point
  <2>2. \A i \in PI : i \in Int /\ 0 <= i /\ i < NumPI
    BY <1>1
  <2>3. mix(0) = [i \in PI |-> x[i]]
    BY <2>2
  <2>4. mix(NumPI) = [i \in PI |-> y[i]]
    BY <2>2
  <2> HIDE DEF mix
  <2> QED BY <2>1, <2>3, <2>4, Zenon
<1>4. 0 \in S
  <2>1. 0 \in 0 .. NumPI
    BY <1>1
  <2> HIDE DEF mix
  <2> QED BY <1>3, <2>1
<1>5. \A k \in 0 .. NumPI - 1 : k \in S => k + 1 \in S
  <2> SUFFICES ASSUME NEW k \in 0 .. NumPI - 1, k \in S
               PROVE  oracle[o][mix(k + 1)] = oracle[o][mix(k)]
    BY <1>1
  <2>1. k \in PI
    BY <1>1
  <2>2. CASE x[k] = y[k]
    <3>1. \A i \in PI : mix(k + 1)[i] = mix(k)[i]
      BY <1>1, <2>2
    <3>2. mix(k + 1) = mix(k)
      BY <3>1
    <3> QED BY <3>2
  <2>3. CASE x[k] # y[k]
    <3>1. \A i \in PI : mix(k + 1)[i] = Flip(mix(k), k)[i]
      BY <1>1, <2>1, <2>3 DEF Flip, Point, Bit
    <3>2. Flip(mix(k), k) \in [PI -> Bit]
      BY <1>2, <2>1 DEF Flip, Point, Bit
    <3>3. mix(k + 1) = Flip(mix(k), k)
      BY <3>1, <3>2
    <3>4. k \notin Support(o)
      BY <2>3 DEF Agree
    <3> QED BY <1>2, <2>1, <3>3, <3>4 DEF Support
  <2> QED BY <2>2, <2>3
<1>6. 0 .. NumPI \subseteq S
  <2> HIDE DEF S
  <2> QED BY <1>1, <1>4, <1>5, UpToInduction
<1>7. NumPI \in S
  <2>1. NumPI \in 0 .. NumPI
    BY <1>1
  <2> HIDE DEF S
  <2> QED BY <1>6, <2>1, Zenon
<1>8. oracle[o][mix(NumPI)] = oracle[o][x]
  BY <1>7
<1> QED BY <1>3, <1>8, Zenon

-----------------------------------------------------------------------------
(* The ranking of the inputs.                                              *)

\* A set of numbers that has all numbers below its own is an interval from 0.
LEMMA DownwardClosed ==
  ASSUME NEW N \in Nat, NEW I, I \subseteq 0 .. N - 1,
         \A i \in I : \A k \in 0 .. i : k \in I
  PROVE  IsFiniteSet(I) /\ Cardinality(I) \in 0 .. N /\ I = 0 .. Cardinality(I) - 1
<1>1. N \in Nat \ I
  OBVIOUS
<1>2. PICK m \in Nat \ I : \A k \in Nat \ I : m <= k
  <2>1. Nat \ I \subseteq Nat /\ Nat \ I # {}
    BY <1>1
  <2> QED BY <2>1, LeastOf
<1>3. I = 0 .. m - 1
  <2>1. \A k \in I : k < m
    <3> SUFFICES ASSUME NEW k \in I, m <= k PROVE FALSE
      BY <1>2
    <3>1. m \in 0 .. k
      BY <1>2
    <3> QED BY <1>2, <3>1
  <2>2. \A k \in 0 .. m - 1 : k \in I
    BY <1>2
  <2>3. \A k \in I : k \in 0 .. m - 1
    <3>1. \A k \in I : k \in Nat
      OBVIOUS
    <3> QED BY <1>2, <2>1, <3>1
  <2> QED BY <2>2, <2>3, Zenon
<1>4. IsFiniteSet(0 .. m - 1) /\ Cardinality(0 .. m - 1) = m
  <2>1. 0 \in Int /\ m - 1 \in Int
    BY <1>2
  <2>2. /\ IsFiniteSet(0 .. m - 1)
        /\ Cardinality(0 .. m - 1) = IF 0 > m - 1 THEN 0 ELSE (m - 1) - 0 + 1
    BY <2>1, FS_Interval
  <2> QED BY <1>2, <2>2
<1>5. m <= N
  BY <1>1, <1>2
<1> QED BY <1>2, <1>3, <1>4, <1>5

\* A function between sets, as a bijection with its image.
LEMMA SameSize ==
  ASSUME NEW S, IsFiniteSet(S), NEW T, NEW f \in [S -> T],
         \A a, b \in S : f[a] = f[b] => a = b, \A c \in T : \E a \in S : f[a] = c
  PROVE  IsFiniteSet(T) /\ Cardinality(T) = Cardinality(S)
<1>1. f \in Bijection(S, T)
  BY DEF Bijection, Injection, Surjection, IsInjective
<1> QED BY <1>1, FS_Bijection DEF ExistsBijection

\* Every input is in an order, once.
LEMMA OrderIsOnto ==
  ASSUME NEW s \in Orders
  PROVE  /\ s \in [PI -> PI] /\ \A i, k \in PI : s[i] = s[k] => i = k
         /\ \A j \in PI : \E i \in PI : s[i] = j
<1>1. s \in [PI -> PI] /\ \A i, k \in PI : s[i] = s[k] => i = k
  BY DEF Orders, PI
<1>2. IsFiniteSet(PI)
  <2>1. 0 \in Int /\ NumPI - 1 \in Int
    BY NumPIAssumption
  <2> QED BY <2>1, FS_Interval DEF PI
<1>3. PICK T : T = {s[i] : i \in PI}
  OBVIOUS
<1>4. T \in SUBSET PI /\ s \in [PI -> T] /\ \A c \in T : \E i \in PI : s[i] = c
  BY <1>1, <1>3
<1>5. Cardinality(T) = Cardinality(PI)
  BY <1>1, <1>2, <1>4, SameSize
<1>6. PI = T
  BY <1>2, <1>4, <1>5, FS_Subset
<1> QED BY <1>1, <1>4, <1>6

\* As many inputs as changed an output, from the top of the ranking, are the inputs
\* that changed it.
LEMMA TopIs ==
  ASSUME NEW s \in Orders, NEW o \in PO, NEW D \in SUBSET PI, Ranked(o, s),
         changes \in [PI -> [PO -> Nat]], \A j \in PI : j \in D <=> changes[j][o] # 0
  PROVE  Top(s, Cardinality(D)) = D /\ Cardinality(D) \in 0 .. NumPI
<1> DEFINE I == {i \in PI : s[i] \in D}
<1>1. /\ s \in [PI -> PI] /\ \A i, k \in PI : s[i] = s[k] => i = k
      /\ \A j \in PI : \E i \in PI : s[i] = j
  BY OrderIsOnto
<1>2. NumPI \in Nat /\ PI = 0 .. NumPI - 1
  BY NumPIAssumption DEF PI
<1>3. \A i \in I : \A k \in 0 .. i : k \in I
  <2> SUFFICES ASSUME NEW i \in I, NEW k \in 0 .. i PROVE s[k] \in D /\ k \in PI
    OBVIOUS
  <2>1. i \in PI /\ k \in PI /\ s[i] \in D /\ s[i] \in PI /\ s[k] \in PI
    <3>1. i \in PI /\ s[i] \in D
      OBVIOUS
    <3>2. k \in PI
      BY <1>2, <3>1
    <3> QED BY <1>1, <3>1, <3>2
  <2>2. changes[s[i]][o] # 0 /\ changes[s[i]][o] \in Nat /\ changes[s[k]][o] \in Nat
    BY <2>1
  <2>3. CASE k = i
    BY <2>1, <2>3
  <2>4. CASE k # i
    <3>1. k < i
      BY <1>2, <2>1, <2>4
    <3>2. changes[s[k]][o] >= changes[s[i]][o]
      BY <1>2, <2>1, <3>1 DEF Ranked
    <3>3. changes[s[k]][o] # 0
      BY <2>2, <3>2
    <3> QED BY <2>1, <3>3
  <2> QED BY <2>3, <2>4
<1>4. IsFiniteSet(I) /\ Cardinality(I) \in 0 .. NumPI /\ I = 0 .. Cardinality(I) - 1
  <2>1. I \subseteq 0 .. NumPI - 1
    BY <1>2
  <2> HIDE DEF I
  <2> QED BY <1>2, <1>3, <2>1, DownwardClosed
<1>5. Cardinality(D) = Cardinality(I)
  <2>1. PICK f : f = [i \in I |-> s[i]]
    OBVIOUS
  <2>2. /\ f \in [I -> D] /\ \A a, b \in I : f[a] = f[b] => a = b
        /\ \A c \in D : \E a \in I : f[a] = c
    BY <1>1, <2>1
  <2> HIDE DEF I
  <2> QED BY <1>4, <2>2, SameSize
<1>6. Top(s, Cardinality(I)) = {s[i] : i \in I}
  <2>1. Top(s, Cardinality(I)) = {s[i] : i \in 0 .. Cardinality(I) - 1}
    BY DEF Top
  <2> HIDE DEF I
  <2> QED BY <1>4, <2>1
<1>7. {s[i] : i \in I} = D
  BY <1>1
<1> HIDE DEF I
<1> QED BY <1>4, <1>5, <1>6, <1>7

-----------------------------------------------------------------------------
(* The patterns brute force asks for.                                      *)

\* One pattern for each assignment of D.
OneOfEach(pats, D) ==
  /\ pats \subseteq Point
  /\ \A y \in Point : \E x \in pats : Agree(x, y, D)
  /\ \A x, z \in pats : Agree(x, z, D) => x = z

\* The first patterns of their kinds are one for each assignment.
LEMMA FirstsAreOneOfEach ==
  ASSUME NEW s \in Orders, NEW d \in 0 .. NumPI, NEW p \in BruteForcePatterns(s, d)
  PROVE  OneOfEach(FirstOfKind(p, Top(s, d)), Top(s, d))
<1> DEFINE D == Top(s, d)
<1>1. /\ NumPI \in Nat /\ PI = 0 .. NumPI - 1 /\ d \in Nat /\ 0 .. d - 1 \subseteq PI
      /\ s \in [PI -> PI]
  <2>1. NumPI \in Nat /\ PI = 0 .. NumPI - 1
    BY NumPIAssumption DEF PI
  <2>2. d \in Nat /\ 0 .. d - 1 \subseteq PI
    BY <2>1
  <2> QED BY <2>1, <2>2, OrderIsOnto
<1>2. /\ p \in [0 .. 2 ^ d - 1 -> Point] /\ DOMAIN p = 0 .. 2 ^ d - 1
      /\ \A n \in DOMAIN p, j \in 0 .. d - 1 : p[n][s[j]] = BitOf(n, j)
  BY DEF BruteForcePatterns
<1>3. FirstOfKind(p, D) \subseteq Point
  BY <1>2 DEF FirstOfKind
<1>4. ASSUME NEW y \in Point PROVE \E x \in FirstOfKind(p, D) : Agree(x, y, D)
  <2>1. PICK b \in [Nat -> Bit] : \A j \in 0 .. d - 1 : b[j] = y[s[j]]
    <3>1. \A j \in 0 .. d - 1 : y[s[j]] \in Bit /\ j \in Nat
      BY <1>1 DEF Point
    <3>2. [j \in Nat |-> IF j < d THEN y[s[j]] ELSE "0"] \in [Nat -> Bit]
      BY <1>1, <3>1 DEF Bit
    <3>3. PICK b \in [Nat -> Bit] : b = [j \in Nat |-> IF j < d THEN y[s[j]] ELSE "0"]
      BY <3>2
    <3>4. \A j \in 0 .. d - 1 : j \in Nat /\ j < d
      BY <1>1
    <3> QED BY <3>3, <3>4
  <2>2. PICK n \in DOMAIN p : HasBits(d, n, b)
    BY <1>1, <1>2, NumberWith
  <2>3. \A j \in 0 .. d - 1 : p[n][s[j]] = y[s[j]]
    BY <1>2, <2>1, <2>2 DEF HasBits
  <2>4. Agree(p[n], y, D)
    BY <2>3 DEF Agree, Top
  <2> DEFINE T == {m \in DOMAIN p : Agree(p[m], y, D)}
  <2>5. T \subseteq Nat /\ T # {}
    BY <1>2, <2>2, <2>4
  <2>6. PICK m \in T : \A l \in T : m <= l
    <3> HIDE DEF T
    <3> QED BY <2>5, LeastOf
  <2>7. m \in DOMAIN p /\ Agree(p[m], y, D)
    OBVIOUS
  <2>8. ASSUME NEW l \in DOMAIN p, l < m, Agree(p[l], p[m], D) PROVE FALSE
    <3>1. Agree(p[l], y, D)
      BY <2>7, <2>8 DEF Agree
    <3>2. l \in T /\ l \in Nat /\ m \in Nat
      BY <2>5, <3>1
    <3> HIDE DEF T
    <3> QED BY <2>6, <2>8, <3>2
  <2>9. p[m] \in FirstOfKind(p, D)
    BY <2>7, <2>8 DEF FirstOfKind
  <2> QED BY <2>7, <2>9
<1>5. ASSUME NEW x \in FirstOfKind(p, D), NEW z \in FirstOfKind(p, D), Agree(x, z, D)
      PROVE  x = z
  <2>1. PICK m \in DOMAIN p : x = p[m] /\ \A l \in DOMAIN p : l < m => ~Agree(p[l], p[m], D)
    BY DEF FirstOfKind
  <2>2. PICK n \in DOMAIN p : z = p[n] /\ \A l \in DOMAIN p : l < n => ~Agree(p[l], p[n], D)
    BY DEF FirstOfKind
  <2>3. Agree(p[m], p[n], D) /\ Agree(p[n], p[m], D)
    BY <1>5, <2>1, <2>2 DEF Agree
  <2>4. ~ (m < n) /\ ~ (n < m)
    BY <2>1, <2>2, <2>3
  <2>5. m \in Nat /\ n \in Nat
    BY <1>2
  <2> QED BY <2>1, <2>2, <2>4, <2>5
<1> QED BY <1>3, <1>4, <1>5 DEF OneOfEach

-----------------------------------------------------------------------------
(* The inductive invariant.                                                *)

\* An input is in the set of those that changed an output exactly when it is counted.
Counted == \A j \in PI, o \in PO : o \in in_dep[j] <=> changes[j][o] # 0

\* The inputs an output depends on are those that changed it.
Depends == pc # "sample" => \A o \in PO : out_dep[o] = {j \in PI : o \in in_dep[j]}

\* The loop over the outputs.
Asking ==
  /\ pc = "sample" => out = 0
  /\ pc = "ask" => out < NumPO /\ OneOfEach(in_pat, out_dep[out])

IInv == TypeOK /\ Counted /\ Depends /\ Asking

\* Numbers of golden patterns.
LEMMA TogglingCount ==
  ASSUME NEW g, NEW j, NEW o
  PROVE  /\ Cardinality(Toggling(g, j, o)) \in Nat
         /\ Cardinality(Toggling(g, j, o)) = 0 <=> Toggling(g, j, o) = {}
<1>1. PICK T : T = Toggling(g, j, o)
  OBVIOUS
<1>2. T \in SUBSET (1 .. NumSamples)
  BY <1>1 DEF Toggling
<1>3. IsFiniteSet(1 .. NumSamples)
  BY BruteForceAssumption, FS_Interval
<1>4. IsFiniteSet(T)
  BY <1>2, <1>3, FS_Subset
<1> QED BY <1>1, <1>4, FS_CardinalityType, FS_EmptySet

\* No more ones are counted in a call than patterns are looked up.
LEMMA OnesCount ==
  ASSUME NEW K \in SUBSET ((1 .. NumSamples) \X PI)
  PROVE  Cardinality(K) \in 0 .. Updates
<1>1. /\ NumSamples \in Nat \ {0} /\ NumPI \in Nat \ {0} /\ PI = 0 .. NumPI - 1
  BY BruteForceAssumption, NumPIAssumption DEF PI
<1>2. IsFiniteSet(1 .. NumSamples) /\ Cardinality(1 .. NumSamples) = NumSamples
  BY <1>1, FS_Interval
<1>3. IsFiniteSet(PI) /\ Cardinality(PI) = NumPI
  <2>1. 0 \in Int /\ NumPI - 1 \in Int
    BY <1>1
  <2>2. /\ IsFiniteSet(0 .. NumPI - 1)
        /\ Cardinality(0 .. NumPI - 1) = IF 0 > NumPI - 1 THEN 0 ELSE (NumPI - 1) - 0 + 1
    BY <2>1, FS_Interval
  <2> QED BY <1>1, <2>2
<1>4. PICK S : S = (1 .. NumSamples) \X PI
  OBVIOUS
<1>5. IsFiniteSet(S) /\ Cardinality(S) = NumSamples * NumPI
  BY <1>2, <1>3, <1>4, FS_Product
<1>6. IsFiniteSet(K) /\ Cardinality(K) <= Cardinality(S)
  BY <1>4, <1>5, FS_Subset
<1>7. Cardinality(K) \in Nat
  BY <1>6, FS_CardinalityType
<1> QED BY <1>1, <1>5, <1>6, <1>7 DEF Updates

\* Before the first sample.
LEMMA InitIInv == Init => IInv
<1> SUFFICES ASSUME Init PROVE IInv
  OBVIOUS
<1> USE DEF Init
<1>1. /\ NumPO \in Nat /\ SampleIter \in Nat
      /\ Oracles \subseteq [PO -> [Point -> BOOLEAN]]
  BY BruteForceAssumption
<1>2. TypeOK
  BY <1>1 DEF TypeOK
<1>3. Counted
  BY DEF Counted
<1>4. Depends /\ Asking
  BY DEF Depends, Asking
<1> QED BY <1>2, <1>3, <1>4 DEF IInv

\* The set and the counts are updated together.
LEMMA SampleFits ==
  ASSUME IInv, Sample
  PROVE  TypeOK' /\ Counted'
<1>1. /\ pc = "sample" /\ round < 3 * SampleIter /\ tested' = tested + Updates
      /\ round' = round + 1
      /\ UNCHANGED <<oracle, out_dep, tendency, out, in_pat, cubes, pc>>
  BY DEF Sample
<1>2. PICK g \in GoldenPatterns(round) :
        /\ in_dep' = [j \in PI |-> in_dep[j] \cup {o \in PO : Toggling(g, j, o) # {}}]
        /\ changes' = [j \in PI |-> [o \in PO |-> CountChanges(g, j, o)]]
        /\ ones' = [o \in PO |-> ones[o] +
                      Cardinality({kj \in (1 .. NumSamples) \X PI :
                                     Entry(Flip(g[kj[1]], kj[2]))[o]})]
  BY DEF Sample
<1>3. TypeOK /\ Counted
  BY DEF IInv
<1>4. SampleIter \in Nat /\ Updates \in Nat
  BY BruteForceAssumption, NumPIAssumption DEF Updates
<1>5. \A j \in PI, o \in PO :
        /\ changes'[j][o] = changes[j][o] + Cardinality(Toggling(g, j, o))
        /\ o \in in_dep'[j] <=> o \in in_dep[j] \/ Toggling(g, j, o) # {}
  BY <1>2 DEF CountChanges
<1>6. \A j \in PI, o \in PO : changes[j][o] \in Nat /\ CountChanges(g, j, o) \in Nat
  BY <1>3, TogglingCount DEF TypeOK, CountChanges
<1>7. Counted'
  BY <1>3, <1>5, <1>6, TogglingCount DEF Counted
<1>8. changes' \in [PI -> [PO -> Nat]]
  BY <1>2, <1>6
<1>9. in_dep' \in [PI -> SUBSET PO]
  BY <1>2, <1>3 DEF TypeOK
<1>10. ones' \in [PO -> 0 .. tested']
  <2>1. ASSUME NEW o \in PO PROVE ones'[o] \in 0 .. tested'
    <3>1. PICK K \in SUBSET ((1 .. NumSamples) \X PI) : ones'[o] = ones[o] + Cardinality(K)
      BY <1>2
    <3>2. Cardinality(K) \in 0 .. Updates
      BY OnesCount
    <3>3. ones[o] \in 0 .. tested /\ tested \in Nat
      BY <1>3 DEF TypeOK
    <3> QED BY <1>1, <1>4, <3>1, <3>2, <3>3
  <2>2. PICK f : ones' = [o \in PO |-> f[o]]
    <3>1. ones' = [o \in PO |-> ones'[o]]
      BY <1>2
    <3> QED BY <3>1
  <2> QED BY <2>1, <2>2
<1>11. round' \in 0 .. 3 * SampleIter /\ tested' \in Nat
  BY <1>1, <1>3, <1>4 DEF TypeOK
<1> QED BY <1>1, <1>3, <1>7, <1>8, <1>9, <1>10, <1>11 DEF TypeOK

\* The ranking names the inputs that are known already, and the patterns asked for are
\* one for each assignment of them.
LEMMA ChooseKeeps ==
  ASSUME IInv, Choose
  PROVE  out_dep' = out_dep /\ OneOfEach(in_pat', out_dep[out])
<1>1. /\ pc = "choose" /\ out < NumPO /\ out \in PO
      /\ changes \in [PI -> [PO -> Nat]] /\ out_dep \in [PO -> SUBSET PI]
  BY BruteForceAssumption DEF Choose, IInv, TypeOK, PO
<1>2. PICK D \in SUBSET PI : D = out_dep[out]
  BY <1>1
<1>3. PICK s \in Orders :
        /\ Ranked(out, s)
        /\ out_dep' = [out_dep EXCEPT ![out] = Top(s, Cardinality(D))]
        /\ \E p \in BruteForcePatterns(s, Cardinality(D)) :
             in_pat' = FirstOfKind(p, Top(s, Cardinality(D)))
  BY <1>2 DEF Choose
<1>4. \A j \in PI : j \in D <=> changes[j][out] # 0
  BY <1>1, <1>2 DEF IInv, Depends, Counted
<1>5. Top(s, Cardinality(D)) = D /\ Cardinality(D) \in 0 .. NumPI
  BY <1>1, <1>3, <1>4, TopIs
<1>6. out_dep' = out_dep
  <2>1. out_dep' = [out_dep EXCEPT ![out] = out_dep[out]]
    BY <1>2, <1>3, <1>5, Zenon
  <2> QED BY <1>1, <2>1
<1>7. OneOfEach(in_pat', Top(s, Cardinality(D)))
  BY <1>3, <1>5, FirstsAreOneOfEach
<1> QED BY <1>2, <1>5, <1>6, <1>7

\* Every step keeps the invariant.
LEMMA StepIInv == IInv /\ [Next]_vars => IInv'
<1> SUFFICES ASSUME IInv, [Next]_vars PROVE IInv'
  OBVIOUS
<1>1. TypeOK /\ Counted /\ Depends /\ Asking /\ NumPO \in Nat
  BY BruteForceAssumption DEF IInv
<1>2. CASE Sample
  <2>1. TypeOK' /\ Counted'
    BY <1>2, SampleFits
  <2>2. pc' = "sample" /\ out' = 0
    BY <1>1, <1>2 DEF Sample, Asking
  <2> QED BY <2>1, <2>2 DEF IInv, Depends, Asking
<1>3. CASE StartLearning
  <2>1. /\ pc = "sample" /\ pc' = "choose"
        /\ out_dep' = [o \in PO |-> {j \in PI : o \in in_dep[j]}]
        /\ tendency' = [o \in PO |-> ones[o] > tested \div 2]
        /\ UNCHANGED <<oracle, round, in_dep, changes, ones, tested, out, in_pat, cubes>>
    BY <1>3 DEF StartLearning
  <2>2. TypeOK'
    BY <1>1, <2>1 DEF TypeOK
  <2>3. Counted' /\ Depends' /\ Asking'
    BY <1>1, <2>1 DEF Counted, Depends, Asking
  <2> QED BY <2>2, <2>3 DEF IInv
<1>4. CASE Choose
  <2>1. /\ pc = "choose" /\ pc' = "ask" /\ out < NumPO
        /\ UNCHANGED <<oracle, round, in_dep, changes, ones, tested, tendency, out, cubes>>
    BY <1>4 DEF Choose
  <2>2. out_dep' = out_dep /\ OneOfEach(in_pat', out_dep[out])
    BY <1>4, ChooseKeeps
  <2>3. TypeOK'
    BY <1>1, <2>1, <2>2 DEF TypeOK, OneOfEach
  <2>4. Counted' /\ Depends' /\ Asking'
    BY <1>1, <2>1, <2>2 DEF Counted, Depends, Asking
  <2> QED BY <2>3, <2>4 DEF IInv
<1>5. CASE Ask
  <2>1. /\ pc = "ask" /\ pc' = "choose" /\ out' = out + 1 /\ in_pat' = {}
        /\ cubes' = [cubes EXCEPT ![out] = Record(out)]
        /\ UNCHANGED <<oracle, round, in_dep, changes, ones, tested, out_dep, tendency>>
    BY <1>5 DEF Ask
  <2>2. Record(out) \in SUBSET CubeString
    <3>1. \A x \in Point : \A D : Minterm(x, D) \in CubeString
      BY DEF Minterm, CubeString, Point
    <3> QED BY <1>1, <3>1 DEF Record, TypeOK
  <2>3. out < NumPO /\ out \in 0 .. NumPO
    BY <1>1, <2>1 DEF Asking, TypeOK
  <2>4. TypeOK'
    <3>1. out' \in 0 .. NumPO /\ in_pat' \in SUBSET Point
      BY <1>1, <2>1, <2>3
    <3>2. cubes' \in [PO -> SUBSET CubeString]
      BY <1>1, <2>1, <2>2 DEF TypeOK
    <3> QED BY <1>1, <2>1, <3>1, <3>2 DEF TypeOK
  <2>5. Counted' /\ Depends' /\ Asking'
    BY <1>1, <2>1 DEF Counted, Depends, Asking
  <2> QED BY <2>4, <2>5 DEF IInv
<1>6. CASE LeaveToFBDT
  <2>1. /\ pc = "choose" /\ pc' = pc /\ out' = out + 1 /\ out < NumPO
        /\ UNCHANGED <<oracle, round, in_dep, changes, ones, tested, out_dep, tendency,
                       in_pat, cubes>>
    BY <1>6 DEF LeaveToFBDT
  <2>2. TypeOK'
    BY <1>1, <2>1 DEF TypeOK
  <2>3. Counted' /\ Depends' /\ Asking'
    BY <1>1, <2>1 DEF Counted, Depends, Asking
  <2> QED BY <2>2, <2>3 DEF IInv
<1>7. CASE Finish
  <2>1. /\ pc = "choose" /\ pc' = "done"
        /\ UNCHANGED <<oracle, round, in_dep, changes, ones, tested, out_dep, tendency,
                       out, in_pat, cubes>>
    BY <1>7 DEF Finish
  <2>2. TypeOK'
    BY <1>1, <2>1 DEF TypeOK
  <2>3. Counted' /\ Depends' /\ Asking'
    BY <1>1, <2>1 DEF Counted, Depends, Asking
  <2> QED BY <2>2, <2>3 DEF IInv
<1>8. CASE Returned \/ UNCHANGED vars
  <2>1. UNCHANGED vars
    BY <1>8 DEF Returned
  <2> QED BY <1>1, <2>1 DEF IInv, TypeOK, Counted, Depends, Asking, vars
<1> QED BY <1>2, <1>3, <1>4, <1>5, <1>6, <1>7, <1>8 DEF Next

-----------------------------------------------------------------------------
(* What is recorded.                                                       *)

\* The minterms of an output describe the function of the black box, when no input that
\* matters was missed.
LEMMA RecordIsExact ==
  ASSUME TypeOK, NEW o \in PO, o < BlockBits, OneOfEach(in_pat, out_dep[o]),
         Support(o) \subseteq out_dep[o], NEW x \in Point
  PROVE  RecordedValue(Record(o), {}, tendency[o], x) = oracle[o][x]
<1> DEFINE D == out_dep[o]
<1>1. /\ oracle \in [PO -> [Point -> BOOLEAN]] /\ tendency[o] \in BOOLEAN
      /\ D \in SUBSET PI /\ in_pat \subseteq Point
  BY DEF TypeOK
<1>2. PICK y \in in_pat : Agree(y, x, D) /\ y \in Point
  BY <1>1 DEF OneOfEach
<1>3. \A z \in in_pat : Agree(z, x, D) => z = y
  <2> SUFFICES ASSUME NEW z \in in_pat, Agree(z, x, D) PROVE z = y
    OBVIOUS
  <2>1. Agree(z, y, D)
    BY <1>2 DEF Agree
  <2> QED BY <2>1 DEF OneOfEach
<1>4. \A z \in in_pat : Covers(Minterm(z, D), x) <=> Agree(z, x, D)
  <2> SUFFICES ASSUME NEW z \in in_pat PROVE Covers(Minterm(z, D), x) <=> Agree(z, x, D)
    OBVIOUS
  <2>1. \A i \in PI : Minterm(z, D)[i] = IF i \in D THEN z[i] ELSE DontCare
    BY DEF Minterm
  <2>2. \A i \in PI : z[i] # DontCare
    BY <1>1 DEF Point, Bit, DontCare
  <2> QED BY <1>1, <2>1, <2>2 DEF Covers, Agree
<1>5. (\E c \in Record(o) : Covers(c, x)) <=> Entry(y)[o] # tendency[o]
  BY <1>2, <1>3, <1>4 DEF Record
<1>6. Entry(y)[o] = oracle[o][y] /\ oracle[o][y] \in BOOLEAN /\ oracle[o][x] \in BOOLEAN
  BY <1>1, <1>2 DEF Entry, ParseOutput
<1>7. oracle[o][y] = oracle[o][x]
  <2>1. Agree(y, x, Support(o))
    BY <1>2 DEF Agree
  <2> QED BY <1>1, <1>2, <2>1, SupportDecides
<1> DEFINE covered == \E c \in Record(o) : Covers(c, x)
<1>8. RecordedValue(Record(o), {}, tendency[o], x) = (covered # tendency[o])
  BY DEF RecordedValue
<1>9. covered <=> ~ (oracle[o][x] <=> tendency[o])
  BY <1>1, <1>5, <1>6, <1>7
<1>10. covered \in BOOLEAN
  OBVIOUS
<1> HIDE DEF covered
<1> QED BY <1>1, <1>6, <1>8, <1>9, <1>10

\* Every step keeps what is recorded exact.
LEMMA StepExact ==
  IInv /\ ExactWhenDependenciesFound /\ [Next]_vars => ExactWhenDependenciesFound'
<1> DEFINE Said(o) == /\ o < BlockBits /\ Cardinality(out_dep[o]) <= Depth
                      /\ Support(o) \subseteq out_dep[o]
           Right(o) == \A x \in Point :
                         RecordedValue(cubes[o], {}, tendency[o], x) = oracle[o][x]
<1> SUFFICES ASSUME IInv, ExactWhenDependenciesFound, [Next]_vars,
                    NEW o \in 0 .. out' - 1, Said(o)'
             PROVE  Right(o)'
  BY DEF ExactWhenDependenciesFound
<1>1. TypeOK /\ Asking /\ NumPO \in Nat /\ out \in 0 .. NumPO
  BY BruteForceAssumption DEF IInv, TypeOK
<1>2. ASSUME o \in 0 .. out - 1, UNCHANGED <<oracle, out_dep, tendency>>, cubes'[o] = cubes[o]
      PROVE  Right(o)'
  <2>1. Said(o)
    BY <1>2 DEF Support
  <2>2. Right(o)
    BY <1>2, <2>1 DEF ExactWhenDependenciesFound
  <2> QED BY <1>2, <2>2
<1>3. CASE Sample \/ StartLearning
  <2>1. out' = 0
    BY <1>1, <1>3 DEF Sample, StartLearning, Asking
  <2> QED BY <2>1
<1>4. CASE Choose
  <2>1. out_dep' = out_dep
    BY <1>4, ChooseKeeps
  <2> QED BY <1>2, <1>4, <2>1 DEF Choose
<1>5. CASE Ask
  <2>1. /\ pc = "ask" /\ out' = out + 1 /\ cubes' = [cubes EXCEPT ![out] = Record(out)]
        /\ UNCHANGED <<oracle, out_dep, tendency>>
    BY <1>5 DEF Ask
  <2>2. out < NumPO /\ OneOfEach(in_pat, out_dep[out]) /\ out \in PO
        /\ cubes \in [PO -> SUBSET CubeString]
    BY <1>1, <2>1 DEF Asking, TypeOK, PO
  <2>3. CASE o = out
    <3>1. cubes'[o] = Record(o)
      BY <2>1, <2>2, <2>3
    <3>2. Said(o)
      BY <2>1 DEF Support
    <3>3. \A x \in Point : RecordedValue(Record(o), {}, tendency[o], x) = oracle[o][x]
      BY <1>1, <2>2, <2>3, <3>2, RecordIsExact
    <3> QED BY <2>1, <3>1, <3>3
  <2>4. CASE o # out
    <3>1. o \in 0 .. out - 1 /\ cubes'[o] = cubes[o]
      BY <1>1, <2>1, <2>2, <2>4 DEF PO
    <3> QED BY <1>2, <2>1, <3>1
  <2> QED BY <2>3, <2>4
<1>6. CASE LeaveToFBDT
  <2>1. /\ out' = out + 1 /\ Cardinality(out_dep[out]) > Depth
        /\ UNCHANGED <<oracle, out_dep, tendency, cubes>>
    BY <1>6 DEF LeaveToFBDT
  <2>2. o # out
    <3> SUFFICES ASSUME o = out PROVE FALSE
      OBVIOUS
    <3>1. Cardinality(out_dep[out]) <= Depth
      BY <2>1
    <3>2. Cardinality(out_dep[out]) \in Nat /\ Depth \in Nat
      <4>1. PICK D \in SUBSET PI : D = out_dep[out]
        <5>1. out < NumPO /\ out \in PO
          BY <1>1, <1>6 DEF LeaveToFBDT, PO
        <5> QED BY <1>1, <5>1 DEF TypeOK
      <4>2. 0 \in Int /\ NumPI - 1 \in Int
        BY NumPIAssumption
      <4>3. IsFiniteSet(PI)
        BY <4>2, FS_Interval DEF PI
      <4> QED BY <4>1, <4>3, FS_Subset, FS_CardinalityType, BruteForceAssumption
    <3> QED BY <2>1, <3>1, <3>2
  <2>3. o \in 0 .. out - 1
    BY <1>1, <2>1, <2>2
  <2> QED BY <1>2, <2>1, <2>3
<1>7. CASE Finish \/ Returned \/ UNCHANGED vars
  BY <1>2, <1>7 DEF Finish, Returned, vars
<1> QED BY <1>3, <1>4, <1>5, <1>6, <1>7 DEF Next

-----------------------------------------------------------------------------
(* The theorems.                                                           *)

\* The invariant is inductive.
LEMMA Inductive == Spec => []IInv
BY InitIInv, StepIInv, PTL DEF Spec

\* The counts and results have their types, and no output is counted 1 more often than
\* it was tested (inputs.cpp:139-149).
THEOREM TypeCorrect == Spec => []TypeOK
<1>1. IInv => TypeOK
  BY DEF IInv
<1> QED BY <1>1, Inductive, PTL

\* The inputs at the top of the ranking are those the sampling saw change the output: the
\* assignment of lrg.cpp:528 changes nothing.
THEOREM RankingAgreesCorrect == Spec => RankingAgrees
<1>1. IInv /\ [Next]_vars => [pc = "choose" => out_dep' = out_dep]_vars
  <2> SUFFICES ASSUME IInv, [Next]_vars, pc = "choose" PROVE out_dep' = out_dep
    OBVIOUS
  <2>1. CASE Choose
    BY <2>1, ChooseKeeps
  <2>2. CASE ~Choose
    BY <2>2 DEF Next, Sample, StartLearning, Ask, LeaveToFBDT, Finish, Returned, vars
  <2> QED BY <2>1, <2>2
<1> QED BY <1>1, Inductive, PTL DEF Spec, RankingAgrees

\* Every assignment of the inputs an output depends on is asked for exactly once, for
\* any number of them (lrg.cpp:129-147, 531-533).
THEOREM EveryAssignmentOnceCorrect == Spec => []EveryAssignmentOnce
<1>1. IInv => EveryAssignmentOnce
  <2> SUFFICES ASSUME IInv, pc = "ask", NEW y \in Point
               PROVE  Cardinality({x \in in_pat : Agree(x, y, out_dep[out])}) = 1
    BY DEF EveryAssignmentOnce
  <2>1. OneOfEach(in_pat, out_dep[out])
    BY DEF IInv, Asking
  <2>2. PICK x \in in_pat : Agree(x, y, out_dep[out])
    BY <2>1 DEF OneOfEach
  <2>3. \A z \in in_pat : Agree(z, y, out_dep[out]) => z = x
    <3> SUFFICES ASSUME NEW z \in in_pat, Agree(z, y, out_dep[out]) PROVE z = x
      OBVIOUS
    <3>1. Agree(z, x, out_dep[out])
      BY <2>2 DEF Agree
    <3> QED BY <2>1, <3>1 DEF OneOfEach
  <2>4. {z \in in_pat : Agree(z, y, out_dep[out])} = {x}
    BY <2>2, <2>3
  <2> QED BY <2>4, FS_Singleton
<1> QED BY <1>1, Inductive, PTL

\* Outputs of the first block are recorded exactly, for any black box, when the sampling
\* saw every input that matters change them (lrg.cpp:456-471, 525-541).
THEOREM ExactCorrect == Spec => []ExactWhenDependenciesFound
<1>1. Init => ExactWhenDependenciesFound
  BY DEF Init, ExactWhenDependenciesFound
<1> QED BY <1>1, Inductive, StepExact, PTL DEF Spec
=============================================================================
