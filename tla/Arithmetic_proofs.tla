------------------------- MODULE Arithmetic_proofs -------------------------
(***************************************************************************)
(* The circuit of an arithmetic expression, for any widths of variables    *)
(* and outputs, any number of groups and any black box: the adders add,    *)
(* the subtractors subtract modulo a power of two that is not below that   *)
(* of the output, and what the chain of them computes is the expression    *)
(* found, which is the black box if that is such an expression.            *)
(***************************************************************************)
EXTENDS Arithmetic, Network_proofs

-----------------------------------------------------------------------------
(* The value of a vector, from its most significant end.                   *)

Digit(on, x) == IF x \in on THEN 1 ELSE 0

IsUp(up, v, x) ==
  /\ up \in [0 .. Len(v) -> Nat]
  /\ up[0] = 0
  /\ \A n \in 1 .. Len(v) : up[n] = 2 * up[n - 1] + Digit(v[n], x)

\* The values of the prefixes of a vector, the last of which is that of the vector.
LEMMA NodeValueIs ==
  ASSUME NEW v \in Vector, NEW x
  PROVE  \E up : IsUp(up, v, x) /\ NodeValue(v, x) = up[Len(v)]
<1> DEFINE L == Len(v)
           step == [n \in 1 .. L |-> [d \in Nat |-> 2 * d + Digit(v[n], x)]]
           F(f) == [n \in 0 .. L |-> IF n = 0 THEN 0
                                     ELSE 2 * f[n - 1] + (IF x \in v[n] THEN 1 ELSE 0)]
<1>1. L \in Nat
  BY DEF Vector
<1>2. step \in [1 .. L -> [Nat -> Nat]]
  BY DEF Digit
<1>3. PICK f : Recursive(Nat, step, 0, L, f)
  <2> HIDE DEF step, L
  <2> QED BY <1>1, <1>2, Recursion
<1>4. f \in [0 .. L -> Nat] /\ f[0] = 0 /\ \A n \in 1 .. L : f[n] = step[n][f[n - 1]]
  BY <1>3 DEF Recursive
<1>5. \A n \in 1 .. L : f[n] = 2 * f[n - 1] + Digit(v[n], x)
  <2>1. \A n \in 1 .. L : n - 1 \in 0 .. L /\ f[n - 1] \in Nat
    BY <1>1, <1>4
  <2> QED BY <1>4, <2>1
<1>6. f = F(f)
  <2>1. \A n \in 0 .. L : f[n] = F(f)[n]
    BY <1>1, <1>4, <1>5 DEF Digit
  <2>2. DOMAIN F(f) = 0 .. L /\ DOMAIN f = 0 .. L
    BY <1>4
  <2> QED BY <1>4, <2>1, <2>2
<1>7. PICK g : g = (CHOOSE h : h = F(h))
  OBVIOUS
<1>8. g = F(g)
  <2> HIDE DEF F
  <2> QED BY <1>6, <1>7
<1>9. NodeValue(v, x) = g[L]
  BY <1>7 DEF NodeValue
<1>10. g[0] = 0 /\ \A n \in 1 .. L : g[n] = 2 * g[n - 1] + Digit(v[n], x)
  <2>1. \A n \in 0 .. L : g[n] = F(g)[n]
    <3> HIDE DEF F
    <3> QED BY <1>8
  <2>2. \A n \in 0 .. L : g[n] = IF n = 0 THEN 0 ELSE 2 * g[n - 1] + Digit(v[n], x)
    <3> HIDE DEF L
    <3> QED BY <2>1, Zenon DEF Digit
  <2> HIDE DEF L, F
  <2> QED BY <1>1, <2>2
<1> DEFINE S == {n \in 0 .. L : g[n] = f[n]}
<1>11. 0 \in S
  BY <1>1, <1>4, <1>10
<1>12. \A n \in 0 .. L - 1 : n \in S => n + 1 \in S
  <2> SUFFICES ASSUME NEW n \in 0 .. L - 1, n \in S PROVE n + 1 \in S
    OBVIOUS
  <2>1. n + 1 \in 1 .. L /\ (n + 1) - 1 = n
    BY <1>1
  <2>2. g[n + 1] = 2 * g[n] + Digit(v[n + 1], x)
    BY <1>10, <2>1
  <2>3. f[n + 1] = 2 * f[n] + Digit(v[n + 1], x)
    BY <1>5, <2>1
  <2> QED BY <1>1, <2>1, <2>2, <2>3
<1>13. 0 .. L \subseteq S
  <2> HIDE DEF S, L
  <2> QED BY <1>1, <1>11, <1>12, UpToInduction
<1>14. g[L] = f[L]
  BY <1>1, <1>13
<1>15. IsUp(f, v, x)
  BY <1>4, <1>5 DEF IsUp
<1> QED BY <1>9, <1>14, <1>15

\* These values are determined by the vector.
LEMMA UpIsValue ==
  ASSUME NEW v \in Vector, NEW x, NEW f, IsUp(f, v, x)
  PROVE  NodeValue(v, x) = f[Len(v)]
<1>1. PICK g : IsUp(g, v, x) /\ NodeValue(v, x) = g[Len(v)]
  BY NodeValueIs
<1>2. PICK L \in Nat : L = Len(v)
  BY DEF Vector
<1> DEFINE S == {n \in 0 .. L : g[n] = f[n]}
<1>3. 0 \in S
  BY <1>1, <1>2 DEF IsUp
<1>4. \A n \in 0 .. L - 1 : n \in S => n + 1 \in S
  <2> SUFFICES ASSUME NEW n \in 0 .. L - 1, n \in S PROVE n + 1 \in S
    OBVIOUS
  <2>1. n + 1 \in 1 .. L /\ (n + 1) - 1 = n /\ n + 1 \in 0 .. L
    OBVIOUS
  <2>2. g[n + 1] = 2 * g[n] + Digit(v[n + 1], x)
    BY <1>1, <1>2, <2>1 DEF IsUp
  <2>3. f[n + 1] = 2 * f[n] + Digit(v[n + 1], x)
    BY <1>2, <2>1 DEF IsUp
  <2> QED BY <2>1, <2>2, <2>3
<1>5. 0 .. L \subseteq S
  <2> HIDE DEF S
  <2> QED BY <1>3, <1>4, UpToInduction
<1> QED BY <1>1, <1>2, <1>5

-----------------------------------------------------------------------------
(* The value of a vector, from its least significant end.                  *)

IsLow(low, v, x, N) ==
  /\ low \in [0 .. N -> Nat]
  /\ low[0] = 0
  /\ \A i \in 0 .. N - 1 : low[i + 1] = low[i] + (IF x \in Weighted(v, i) THEN 2 ^ i ELSE 0)

\* The values of the suffixes of a vector, which is padded with zeros.
LEMMA LowExists ==
  ASSUME NEW v, NEW x, NEW N \in Nat
  PROVE  \E low : IsLow(low, v, x, N)
<1> DEFINE step == [n \in 1 .. N |->
                      [d \in Nat |-> d + (IF x \in Weighted(v, n - 1) THEN 2 ^ (n - 1) ELSE 0)]]
<1>1. step \in [1 .. N -> [Nat -> Nat]]
  <2>1. ASSUME NEW n \in 1 .. N, NEW d \in Nat
        PROVE  d + (IF x \in Weighted(v, n - 1) THEN 2 ^ (n - 1) ELSE 0) \in Nat
    <3>1. n - 1 \in Nat
      OBVIOUS
    <3>2. 2 ^ (n - 1) \in Nat
      BY <3>1, Powers
    <3> QED BY <3>2
  <2> QED BY <2>1
<1>2. PICK f : Recursive(Nat, step, 0, N, f)
  <2> HIDE DEF step
  <2> QED BY <1>1, Recursion
<1>3. f \in [0 .. N -> Nat] /\ f[0] = 0 /\ \A n \in 1 .. N : f[n] = step[n][f[n - 1]]
  BY <1>2 DEF Recursive
<1>4. ASSUME NEW i \in 0 .. N - 1
      PROVE  f[i + 1] = f[i] + (IF x \in Weighted(v, i) THEN 2 ^ i ELSE 0)
  <2>1. i + 1 \in 1 .. N /\ (i + 1) - 1 = i /\ f[i] \in Nat
    BY <1>3
  <2>2. f[i + 1] = step[i + 1][f[i]]
    BY <1>3, <2>1
  <2> QED BY <2>1, <2>2
<1> QED BY <1>3, <1>4 DEF IsLow

\* The value of a suffix is below the power of two of its length.
LEMMA LowBelow ==
  ASSUME NEW v, NEW x, NEW N \in Nat, NEW low, IsLow(low, v, x, N), NEW i \in 0 .. N
  PROVE  low[i] \in 0 .. 2 ^ i - 1
<1> DEFINE S == {n \in 0 .. N : low[n] \in Nat /\ low[n] < 2 ^ n}
<1>1. 0 \in S
  <2>1. 0 \in 0 .. N
    OBVIOUS
  <2>2. 2 ^ 0 = 1
    BY Powers
  <2>3. low[0] = 0
    BY DEF IsLow
  <2> QED BY <2>1, <2>2, <2>3
<1>2. \A n \in 0 .. N - 1 : n \in S => n + 1 \in S
  <2> SUFFICES ASSUME NEW n \in 0 .. N - 1, n \in S PROVE n + 1 \in S
    OBVIOUS
  <2>1. low[n + 1] = low[n] + (IF x \in Weighted(v, n) THEN 2 ^ n ELSE 0)
    BY DEF IsLow
  <2>2. PICK p \in Nat \ {0} : p = 2 ^ n /\ 2 ^ (n + 1) = 2 * p
    BY Powers
  <2>3. PICK l \in Nat : l = low[n] /\ l < p
    BY <2>2
  <2>4. low[n + 1] \in Nat /\ low[n + 1] < 2 * p
    BY <2>1, <2>2, <2>3
  <2> QED BY <2>2, <2>4
<1>3. 0 .. N \subseteq S
  <2> HIDE DEF S
  <2> QED BY <1>1, <1>2, UpToInduction
<1>4. i \in Nat /\ low[i] \in Nat /\ low[i] < 2 ^ i
  BY <1>3
<1>5. PICK p \in Nat : p = 2 ^ i
  BY <1>4, Powers
<1> QED BY <1>4, <1>5

\* A vector is cut in two anywhere.
LEMMA Halves ==
  ASSUME NEW v \in Vector, NEW x, NEW N \in Nat, N >= Len(v),
         NEW up, IsUp(up, v, x), NEW low, IsLow(low, v, x, N), NEW j \in 0 .. Len(v)
  PROVE  up[Len(v)] = 2 ^ j * up[Len(v) - j] + low[j]
<1>1. PICK L \in Nat : L = Len(v)
  BY DEF Vector
<1> DEFINE S == {n \in 0 .. L : up[L] = 2 ^ n * up[L - n] + low[n]}
<1>2. 0 \in S
  <2>1. 0 \in 0 .. L /\ L - 0 = L
    OBVIOUS
  <2>2. 2 ^ 0 = 1
    BY Powers
  <2>3. PICK u \in Nat : u = up[L]
    BY <1>1 DEF IsUp
  <2>4. low[0] = 0
    BY DEF IsLow
  <2>5. up[L] = 1 * up[L - 0] + 0
    BY <2>1, <2>3
  <2> QED BY <2>1, <2>2, <2>4, <2>5
<1>3. \A n \in 0 .. L - 1 : n \in S => n + 1 \in S
  <2> SUFFICES ASSUME NEW n \in 0 .. L - 1, n \in S PROVE n + 1 \in S
    OBVIOUS
  <2>1. /\ n \in 0 .. N - 1 /\ n + 1 \in 0 .. L /\ L - n \in 1 .. L
        /\ (L - n) - 1 = L - (n + 1) /\ L - (n + 1) \in 0 .. L
    BY <1>1
  <2>2. Weighted(v, n) = v[L - n]
    BY <1>1, <2>1 DEF Weighted
  <2>3. low[n + 1] = low[n] + (IF x \in v[L - n] THEN 2 ^ n ELSE 0)
    BY <2>1, <2>2 DEF IsLow
  <2>4. up[L - n] = 2 * up[L - (n + 1)] + Digit(v[L - n], x)
    BY <1>1, <2>1 DEF IsUp
  <2>5. PICK p \in Nat : p = 2 ^ n /\ 2 ^ (n + 1) = 2 * p
    BY Powers
  <2>6. PICK u \in Nat : u = up[L - (n + 1)]
    BY <1>1, <2>1 DEF IsUp
  <2>7. PICK l \in Nat : l = low[n]
    BY <2>1 DEF IsLow
  <2>8. PICK d \in {0, 1} : d = Digit(v[L - n], x)
    BY DEF Digit
  <2>9. low[n + 1] = l + p * d
    BY <2>3, <2>5, <2>7, <2>8 DEF Digit
  <2>10. up[L] = p * (2 * u + d) + l
    BY <2>4, <2>5, <2>6, <2>7, <2>8
  <2>11. p * (2 * u + d) + l = (2 * p) * u + (l + p * d)
    OBVIOUS
  <2>12. up[L] = 2 ^ (n + 1) * up[L - (n + 1)] + low[n + 1]
    BY <2>5, <2>6, <2>9, <2>10, <2>11
  <2> QED BY <2>1, <2>12
<1>4. 0 .. L \subseteq S
  <2> HIDE DEF S
  <2> QED BY <1>2, <1>3, UpToInduction
<1> QED BY <1>1, <1>4

\* The value of a vector from either end.
LEMMA LowIsValue ==
  ASSUME NEW v \in Vector, NEW x, NEW N \in Nat, N >= Len(v), NEW low, IsLow(low, v, x, N)
  PROVE  NodeValue(v, x) = low[N]
<1>1. PICK L \in Nat : L = Len(v)
  BY DEF Vector
<1>2. PICK up : IsUp(up, v, x) /\ NodeValue(v, x) = up[L]
  BY <1>1, NodeValueIs
<1>3. up[L] = low[L]
  <2>1. L \in 0 .. Len(v) /\ L - L = 0
    BY <1>1
  <2>2. up[L] = 2 ^ L * up[L - L] + low[L]
    BY <1>1, <1>2, <2>1, Halves
  <2>3. PICK p \in Nat : p = 2 ^ L
    BY Powers
  <2>4. up[L - L] = 0
    BY <1>2, <2>1 DEF IsUp
  <2>5. low[L] \in Nat
    BY <1>1 DEF IsLow
  <2>6. up[L] = p * 0 + low[L]
    BY <2>2, <2>3, <2>4
  <2> QED BY <2>3, <2>5, <2>6
<1> DEFINE S == {i \in 0 .. N : i >= L => low[i] = low[L]}
<1>4. 0 \in S
  BY <1>1
<1>5. \A i \in 0 .. N - 1 : i \in S => i + 1 \in S
  <2> SUFFICES ASSUME NEW i \in 0 .. N - 1, i \in S, i + 1 > L PROVE low[i + 1] = low[L]
    BY <1>1
  <2>1. i >= L
    BY <1>1
  <2>2. Weighted(v, i) = {}
    BY <1>1, <2>1 DEF Weighted
  <2>3. low[i + 1] = low[i] /\ low[i] \in Nat
    BY <2>2 DEF IsLow
  <2> QED BY <2>1, <2>3
<1>6. 0 .. N \subseteq S
  <2> HIDE DEF S
  <2> QED BY <1>4, <1>5, UpToInduction
<1> QED BY <1>1, <1>2, <1>3, <1>6

\* A vector stands for a number of as many bits.
LEMMA NodeValueBelow ==
  ASSUME NEW v \in Vector, NEW x
  PROVE  NodeValue(v, x) \in 0 .. 2 ^ Len(v) - 1
<1>1. PICK L \in Nat : L = Len(v)
  BY DEF Vector
<1>2. PICK low : IsLow(low, v, x, L)
  BY LowExists
<1>3. NodeValue(v, x) = low[L] /\ L \in 0 .. L
  BY <1>1, <1>2, LowIsValue
<1> QED BY <1>1, <1>2, <1>3, LowBelow

-----------------------------------------------------------------------------
(* Adders and subtractors.                                                 *)

\* The operands are padded to a common length, and a bit is a node.
LEMMA LongerIs ==
  ASSUME NEW a \in Vector, NEW b \in Vector
  PROVE  /\ Longer(a, b) \in Nat
         /\ Longer(a, b) >= Len(a) /\ Longer(a, b) >= Len(b)
  BY DEF Vector, Longer

\* A bit of a vector, or const0 beyond its end, is an on-set.
LEMMA WeightedType ==
  ASSUME NEW v \in Vector, NEW i \in Nat
  PROVE  Weighted(v, i) \in OnSet
<1>1. PICK L \in Nat : L = Len(v)
  BY DEF Vector
<1>2. CASE i < L
  <2>1. L - i \in 1 .. Len(v)
    BY <1>1, <1>2
  <2> QED BY <1>1, <1>2, <2>1 DEF Weighted, Vector
<1>3. CASE ~ (i < L)
  BY <1>1, <1>3 DEF Weighted, OnSet
<1> QED BY <1>2, <1>3

\* A vector that is given by its bits from the least significant end.
LEMMA FromBits ==
  ASSUME NEW n \in Nat, NEW bits \in [0 .. n -> OnSet],
         NEW v, v = [j \in 1 .. n + 1 |-> bits[n + 1 - j]]
  PROVE  /\ v \in Vector /\ Len(v) = n + 1
         /\ \A i \in 0 .. n : Weighted(v, i) = bits[i]
<1>1. \A j \in 1 .. n + 1 : n + 1 - j \in 0 .. n
  OBVIOUS
<1>2. v \in [1 .. n + 1 -> OnSet] /\ n + 1 \in Nat
  BY <1>1
<1>3. v \in Vector /\ Len(v) = n + 1
  BY <1>2 DEF Vector
<1>4. ASSUME NEW i \in 0 .. n PROVE Weighted(v, i) = bits[i]
  <2>1. i < Len(v) /\ Len(v) - i \in 1 .. n + 1 /\ n + 1 - (Len(v) - i) = i
    BY <1>3
  <2> QED BY <2>1 DEF Weighted
<1> QED BY <1>3, <1>4

AddCarry(p, q, c) == (p \cap q) \cup (Xor(p, q) \cap c)
SubCarry(p, q, c) == (q \ p) \cup (c \ Xor(p, q))

\* The bits of a sum or difference v of a and b: those of both and the carries, the
\* last of which is a bit of its own.
IsRippled(v, a, b, carry, n) ==
  /\ v \in Vector /\ Len(v) = n + 1
  /\ carry[0] = {}
  /\ \A i \in 0 .. n - 1 :
       Weighted(v, i) = Xor(Xor(Weighted(a, i), Weighted(b, i)), carry[i])
  /\ Weighted(v, n) = carry[n]

Ripple(a, b, carry, n) ==
  [j \in 1 .. n + 1 |->
     IF n + 1 - j = n THEN carry[n]
     ELSE Xor(Xor(Weighted(a, n + 1 - j), Weighted(b, n + 1 - j)), carry[n + 1 - j])]

\* The vector that a ripple of carries leaves, bit by bit.
LEMMA Rippled ==
  ASSUME NEW a \in Vector, NEW b \in Vector, NEW n \in Nat,
         NEW carry \in [0 .. n -> OnSet], carry[0] = {}
  PROVE  IsRippled(Ripple(a, b, carry, n), a, b, carry, n)
<1> DEFINE bits == [i \in 0 .. n |-> IF i = n THEN carry[n]
                                     ELSE Xor(Xor(Weighted(a, i), Weighted(b, i)), carry[i])]
           v == Ripple(a, b, carry, n)
<1>1. v = [j \in 1 .. n + 1 |-> bits[n + 1 - j]]
  <2>1. \A j \in 1 .. n + 1 : n + 1 - j \in 0 .. n
    OBVIOUS
  <2> QED BY <2>1 DEF Ripple
<1>2. bits \in [0 .. n -> OnSet]
  <2>1. ASSUME NEW i \in 0 .. n PROVE bits[i] \in OnSet
    <3>1. Weighted(a, i) \in OnSet /\ Weighted(b, i) \in OnSet /\ carry[i] \in OnSet
      BY WeightedType
    <3>2. \A p, q, c \in OnSet : Xor(Xor(p, q), c) \in OnSet
      BY DEF Xor, OnSet
    <3>3. Xor(Xor(Weighted(a, i), Weighted(b, i)), carry[i]) \in OnSet
      <4> HIDE DEF bits, v
      <4> QED BY <3>1, <3>2
    <3> QED BY <3>1, <3>3
  <2> QED BY <2>1
<1>3. v \in Vector /\ Len(v) = n + 1 /\ \A i \in 0 .. n : Weighted(v, i) = bits[i]
  <2> HIDE DEF bits, v
  <2> QED BY <1>1, <1>2, FromBits
<1>4. n \in 0 .. n /\ \A i \in 0 .. n - 1 : i \in 0 .. n /\ i # n
  OBVIOUS
<1>5. Weighted(v, n) = carry[n]
  BY <1>3, <1>4
<1>6. \A i \in 0 .. n - 1 :
        Weighted(v, i) = Xor(Xor(Weighted(a, i), Weighted(b, i)), carry[i])
  BY <1>3, <1>4
<1> HIDE DEF bits, v
<1>7. IsRippled(v, a, b, carry, n)
  BY <1>3, <1>5, <1>6 DEF IsRippled
<1> QED BY <1>7 DEF v

\* The carries of two vectors, by any rule for the next carry.
AreCarries(rule, a, b, n, f) ==
  /\ f \in [0 .. n -> OnSet] /\ f[0] = {}
  /\ \A i \in 0 .. n - 1 : f[i + 1] = rule[<<Weighted(a, i), Weighted(b, i), f[i]>>]

\* The recursion of the carries has a value.
LEMMA CarryExists ==
  ASSUME NEW a \in Vector, NEW b \in Vector, NEW n \in Nat,
         NEW rule \in [OnSet \X OnSet \X OnSet -> OnSet]
  PROVE  \E f : AreCarries(rule, a, b, n, f)
<1> DEFINE step == [i \in 1 .. n |->
                      [c \in OnSet |-> rule[<<Weighted(a, i - 1), Weighted(b, i - 1), c>>]]]
<1>1. step \in [1 .. n -> [OnSet -> OnSet]]
  <2>1. \A i \in 1 .. n : Weighted(a, i - 1) \in OnSet /\ Weighted(b, i - 1) \in OnSet
    <3>1. \A i \in 1 .. n : i - 1 \in Nat
      OBVIOUS
    <3> QED BY <3>1, WeightedType
  <2> QED BY <2>1
<1>2. {} \in OnSet
  BY DEF OnSet
<1>3. PICK f : Recursive(OnSet, step, {}, n, f)
  <2> HIDE DEF step
  <2> QED BY <1>1, <1>2, Recursion
<1>4. /\ f \in [0 .. n -> OnSet] /\ f[0] = {}
      /\ \A i \in 1 .. n : f[i] = step[i][f[i - 1]]
  BY <1>3 DEF Recursive
<1>5. ASSUME NEW i \in 0 .. n - 1
      PROVE  f[i + 1] = rule[<<Weighted(a, i), Weighted(b, i), f[i]>>]
  <2>1. i + 1 \in 1 .. n /\ (i + 1) - 1 = i /\ f[i] \in OnSet
    BY <1>4
  <2>2. f[i + 1] = step[i + 1][f[i]]
    BY <1>4, <2>1
  <2> QED BY <2>1, <2>2
<1> QED BY <1>4, <1>5 DEF AreCarries

\* The carries of my_Abc_AddFullAdder.
LEMMA AdderRipples ==
  ASSUME NEW a \in Vector, NEW b \in Vector, NEW n, n = Longer(a, b)
  PROVE  \E carry :
           /\ IsRippled(AddFullAdder(a, b), a, b, carry, n)
           /\ \A i \in 0 .. n - 1 :
                carry[i + 1] = AddCarry(Weighted(a, i), Weighted(b, i), carry[i])
<1> DEFINE rule == [t \in OnSet \X OnSet \X OnSet |-> AddCarry(t[1], t[2], t[3])]
           F(f) == [i \in 0 .. n |->
                      IF i = 0 THEN {}
                      ELSE LET p == Weighted(a, i - 1)
                               q == Weighted(b, i - 1)
                           IN  (p \cap q) \cup (Xor(p, q) \cap f[i - 1])]
<1>1. n \in Nat
  BY LongerIs
<1>2. \A p, q, c \in OnSet : AddCarry(p, q, c) \in OnSet
  BY DEF AddCarry, Xor, OnSet
<1>3. rule \in [OnSet \X OnSet \X OnSet -> OnSet]
  BY <1>2
<1>4. PICK f : AreCarries(rule, a, b, n, f)
  <2> HIDE DEF rule
  <2> QED BY <1>1, <1>3, CarryExists
<1>5. \A i \in 1 .. n : f[i] = AddCarry(Weighted(a, i - 1), Weighted(b, i - 1), f[i - 1])
  <2> SUFFICES ASSUME NEW i \in 1 .. n
               PROVE  f[i] = AddCarry(Weighted(a, i - 1), Weighted(b, i - 1), f[i - 1])
    OBVIOUS
  <2>1. i - 1 \in 0 .. n - 1 /\ (i - 1) + 1 = i /\ i - 1 \in Nat /\ i - 1 \in 0 .. n
    BY <1>1
  <2>2. Weighted(a, i - 1) \in OnSet /\ Weighted(b, i - 1) \in OnSet /\ f[i - 1] \in OnSet
    BY <1>4, <2>1, WeightedType DEF AreCarries
  <2>3. f[i] = rule[<<Weighted(a, i - 1), Weighted(b, i - 1), f[i - 1]>>]
    <3> HIDE DEF rule
    <3> QED BY <1>4, <2>1 DEF AreCarries
  <2> QED BY <2>2, <2>3
<1>6. f = F(f)
  <2>1. \A i \in 0 .. n : f[i] = F(f)[i]
    BY <1>1, <1>4, <1>5 DEF AddCarry, AreCarries
  <2>2. DOMAIN F(f) = 0 .. n /\ DOMAIN f = 0 .. n
    BY <1>4 DEF AreCarries
  <2> QED BY <1>4, <2>1, <2>2 DEF AreCarries
<1>7. PICK g : g = (CHOOSE h : h = F(h))
  OBVIOUS
<1>8. g = F(g)
  <2> HIDE DEF F
  <2> QED BY <1>6, <1>7
<1>9. /\ DOMAIN g = 0 .. n /\ g = [i \in DOMAIN g |-> g[i]]
      /\ g[0] = {}
      /\ \A i \in 0 .. n - 1 :
           g[i + 1] = AddCarry(Weighted(a, i), Weighted(b, i), g[i])
  <2>1. g[0] = {} /\ DOMAIN g = 0 .. n /\ g = [i \in DOMAIN g |-> g[i]]
    BY <1>1, <1>8
  <2>2. \A i \in 1 .. n : g[i] = AddCarry(Weighted(a, i - 1), Weighted(b, i - 1), g[i - 1])
    BY <1>1, <1>8 DEF AddCarry
  <2>3. \A i \in 0 .. n - 1 : i + 1 \in 1 .. n /\ (i + 1) - 1 = i
    BY <1>1
  <2> HIDE DEF F, rule
  <2> QED BY <2>1, <2>2, <2>3
<1> DEFINE S == {i \in 0 .. n : g[i] \in OnSet}
<1>10. 0 .. n \subseteq S
  <2> HIDE DEF F, rule
  <2>1. 0 \in S
    <3>1. 0 \in 0 .. n
      BY <1>1
    <3>2. {} \in OnSet
      BY DEF OnSet
    <3> QED BY <1>9, <3>1, <3>2
  <2>2. \A i \in 0 .. n - 1 : i \in S => i + 1 \in S
    <3>1. \A i \in 0 .. n - 1 : Weighted(a, i) \in OnSet /\ Weighted(b, i) \in OnSet
      BY <1>1, WeightedType
    <3>2. \A i \in 0 .. n - 1 : i + 1 \in 0 .. n
      BY <1>1
    <3> QED BY <1>2, <1>9, <3>1, <3>2
  <2> HIDE DEF S
  <2> QED BY <1>1, <2>1, <2>2, UpToInduction
<1>11. g \in [0 .. n -> OnSet]
  BY <1>9, <1>10
<1>12. AddFullAdder(a, b) = Ripple(a, b, g, n)
  BY <1>7 DEF AddFullAdder, Ripple
<1>13. IsRippled(AddFullAdder(a, b), a, b, g, n)
  <2> HIDE DEF F, rule, S
  <2> QED BY <1>1, <1>9, <1>11, <1>12, Rippled
<1> QED BY <1>9, <1>13

\* The borrows of my_Abc_AddFullSubtractor.
LEMMA SubtractorRipples ==
  ASSUME NEW a \in Vector, NEW b \in Vector, NEW n, n = Longer(a, b)
  PROVE  \E carry :
           /\ IsRippled(AddFullSubtractor(a, b), a, b, carry, n)
           /\ \A i \in 0 .. n - 1 :
                carry[i + 1] = SubCarry(Weighted(a, i), Weighted(b, i), carry[i])
<1> DEFINE rule == [t \in OnSet \X OnSet \X OnSet |-> SubCarry(t[1], t[2], t[3])]
           F(f) == [i \in 0 .. n |->
                      IF i = 0 THEN {}
                      ELSE LET p == Weighted(a, i - 1)
                               q == Weighted(b, i - 1)
                           IN  (q \ p) \cup (f[i - 1] \ Xor(p, q))]
<1>1. n \in Nat
  BY LongerIs
<1>2. \A p, q, c \in OnSet : SubCarry(p, q, c) \in OnSet
  BY DEF SubCarry, Xor, OnSet
<1>3. rule \in [OnSet \X OnSet \X OnSet -> OnSet]
  BY <1>2
<1>4. PICK f : AreCarries(rule, a, b, n, f)
  <2> HIDE DEF rule
  <2> QED BY <1>1, <1>3, CarryExists
<1>5. \A i \in 1 .. n : f[i] = SubCarry(Weighted(a, i - 1), Weighted(b, i - 1), f[i - 1])
  <2> SUFFICES ASSUME NEW i \in 1 .. n
               PROVE  f[i] = SubCarry(Weighted(a, i - 1), Weighted(b, i - 1), f[i - 1])
    OBVIOUS
  <2>1. i - 1 \in 0 .. n - 1 /\ (i - 1) + 1 = i /\ i - 1 \in Nat /\ i - 1 \in 0 .. n
    BY <1>1
  <2>2. Weighted(a, i - 1) \in OnSet /\ Weighted(b, i - 1) \in OnSet /\ f[i - 1] \in OnSet
    BY <1>4, <2>1, WeightedType DEF AreCarries
  <2>3. f[i] = rule[<<Weighted(a, i - 1), Weighted(b, i - 1), f[i - 1]>>]
    <3> HIDE DEF rule
    <3> QED BY <1>4, <2>1 DEF AreCarries
  <2> QED BY <2>2, <2>3
<1>6. f = F(f)
  <2>1. \A i \in 0 .. n : f[i] = F(f)[i]
    BY <1>1, <1>4, <1>5 DEF SubCarry, AreCarries
  <2>2. DOMAIN F(f) = 0 .. n /\ DOMAIN f = 0 .. n
    BY <1>4 DEF AreCarries
  <2> QED BY <1>4, <2>1, <2>2 DEF AreCarries
<1>7. PICK g : g = (CHOOSE h : h = F(h))
  OBVIOUS
<1>8. g = F(g)
  <2> HIDE DEF F
  <2> QED BY <1>6, <1>7
<1>9. /\ DOMAIN g = 0 .. n /\ g = [i \in DOMAIN g |-> g[i]]
      /\ g[0] = {}
      /\ \A i \in 0 .. n - 1 :
           g[i + 1] = SubCarry(Weighted(a, i), Weighted(b, i), g[i])
  <2>1. g[0] = {} /\ DOMAIN g = 0 .. n /\ g = [i \in DOMAIN g |-> g[i]]
    BY <1>1, <1>8
  <2>2. \A i \in 1 .. n : g[i] = SubCarry(Weighted(a, i - 1), Weighted(b, i - 1), g[i - 1])
    BY <1>1, <1>8 DEF SubCarry
  <2>3. \A i \in 0 .. n - 1 : i + 1 \in 1 .. n /\ (i + 1) - 1 = i
    BY <1>1
  <2> HIDE DEF F, rule
  <2> QED BY <2>1, <2>2, <2>3
<1> DEFINE S == {i \in 0 .. n : g[i] \in OnSet}
<1>10. 0 .. n \subseteq S
  <2> HIDE DEF F, rule
  <2>1. 0 \in S
    <3>1. 0 \in 0 .. n
      BY <1>1
    <3>2. {} \in OnSet
      BY DEF OnSet
    <3> QED BY <1>9, <3>1, <3>2
  <2>2. \A i \in 0 .. n - 1 : i \in S => i + 1 \in S
    <3>1. \A i \in 0 .. n - 1 : Weighted(a, i) \in OnSet /\ Weighted(b, i) \in OnSet
      BY <1>1, WeightedType
    <3>2. \A i \in 0 .. n - 1 : i + 1 \in 0 .. n
      BY <1>1
    <3> QED BY <1>2, <1>9, <3>1, <3>2
  <2> HIDE DEF S
  <2> QED BY <1>1, <2>1, <2>2, UpToInduction
<1>11. g \in [0 .. n -> OnSet]
  BY <1>9, <1>10
<1>12. AddFullSubtractor(a, b) = Ripple(a, b, g, n)
  BY <1>7 DEF AddFullSubtractor, Ripple
<1>13. IsRippled(AddFullSubtractor(a, b), a, b, g, n)
  <2> HIDE DEF F, rule, S
  <2> QED BY <1>1, <1>9, <1>11, <1>12, Rippled
<1> QED BY <1>9, <1>13

\* my_Abc_AddFullAdder adds.
LEMMA AdderAdds ==
  ASSUME NEW a \in Vector, NEW b \in Vector, NEW x
  PROVE  /\ AddFullAdder(a, b) \in Vector
         /\ Len(AddFullAdder(a, b)) = Longer(a, b) + 1
         /\ NodeValue(AddFullAdder(a, b), x) = NodeValue(a, x) + NodeValue(b, x)
<1> DEFINE v == AddFullAdder(a, b)
<1>1. PICK n \in Nat : n = Longer(a, b) /\ n >= Len(a) /\ n >= Len(b)
  BY LongerIs
<1>2. PICK carry :
        /\ IsRippled(v, a, b, carry, n)
        /\ \A i \in 0 .. n - 1 :
             carry[i + 1] = AddCarry(Weighted(a, i), Weighted(b, i), carry[i])
  BY <1>1, AdderRipples
<1> HIDE DEF v
<1>3. /\ v \in Vector /\ Len(v) = n + 1 /\ carry[0] = {} /\ Weighted(v, n) = carry[n]
      /\ \A i \in 0 .. n - 1 :
           Weighted(v, i) = Xor(Xor(Weighted(a, i), Weighted(b, i)), carry[i])
  BY <1>2 DEF IsRippled
<1>4. PICK la : IsLow(la, a, x, n)
  BY LowExists
<1>5. PICK lb : IsLow(lb, b, x, n)
  BY LowExists
<1>6. n + 1 \in Nat
  OBVIOUS
<1>7. PICK lv : IsLow(lv, v, x, n + 1)
  BY <1>6, LowExists
<1>8. /\ NodeValue(a, x) = la[n] /\ NodeValue(b, x) = lb[n]
      /\ NodeValue(v, x) = lv[n + 1]
  <2>1. n + 1 >= Len(v)
    BY <1>3
  <2> QED BY <1>1, <1>3, <1>4, <1>5, <1>6, <1>7, <2>1, LowIsValue
<1> DEFINE Borne(i) == IF x \in carry[i] THEN 2 ^ i ELSE 0
           S == {i \in 0 .. n : la[i] + lb[i] = lv[i] + Borne(i)}
<1>9. 0 \in S
  <2>1. la[0] = 0 /\ lb[0] = 0 /\ lv[0] = 0
    BY <1>4, <1>5, <1>7 DEF IsLow
  <2>2. Borne(0) = 0
    BY <1>3
  <2>3. 0 \in 0 .. n
    OBVIOUS
  <2> HIDE DEF Borne
  <2> QED BY <2>1, <2>2, <2>3
<1>10. \A i \in 0 .. n - 1 : i \in S => i + 1 \in S
  <2> SUFFICES ASSUME NEW i \in 0 .. n - 1, i \in S PROVE i + 1 \in S
    OBVIOUS
  <2>1. PICK p \in Nat : p = 2 ^ i /\ 2 ^ (i + 1) = 2 * p
    BY Powers
  <2>2. i \in 0 .. (n + 1) - 1 /\ i + 1 \in 0 .. n /\ i \in 0 .. n + 1 /\ i \in 0 .. n
    OBVIOUS
  <2>3. PICK A \in Nat, B \in Nat, V \in Nat : A = la[i] /\ B = lb[i] /\ V = lv[i]
    BY <1>4, <1>5, <1>7, <2>2 DEF IsLow
  <2>4. PICK P, Q, C : P = Weighted(a, i) /\ Q = Weighted(b, i) /\ C = carry[i]
    OBVIOUS
  <2>5. la[i + 1] = A + (IF x \in P THEN p ELSE 0)
    BY <1>4, <2>1, <2>3, <2>4 DEF IsLow
  <2>6. lb[i + 1] = B + (IF x \in Q THEN p ELSE 0)
    BY <1>5, <2>1, <2>3, <2>4 DEF IsLow
  <2>7. lv[i + 1] = V + (IF x \in Xor(Xor(P, Q), C) THEN p ELSE 0)
    <3>1. Weighted(v, i) = Xor(Xor(P, Q), C)
      BY <1>3, <2>4
    <3> QED BY <1>7, <2>1, <2>2, <2>3, <3>1 DEF IsLow
  <2>8. Borne(i) = IF x \in C THEN p ELSE 0
    BY <2>1, <2>4
  <2>9. Borne(i + 1) = IF x \in AddCarry(P, Q, C) THEN 2 * p ELSE 0
    BY <1>2, <2>1, <2>4
  <2>10. A + B = V + (IF x \in C THEN p ELSE 0)
    BY <2>3, <2>8
  <2>11. la[i + 1] + lb[i + 1] = lv[i + 1] + Borne(i + 1)
    <3> HIDE DEF Borne
    <3> QED BY <2>5, <2>6, <2>7, <2>9, <2>10 DEF Xor, AddCarry
  <2> QED BY <2>2, <2>11
<1>11. 0 .. n \subseteq S
  <2> HIDE DEF S
  <2> QED BY <1>9, <1>10, UpToInduction
<1>12. la[n] + lb[n] = lv[n] + Borne(n)
  BY <1>11
<1>13. lv[n + 1] = lv[n] + Borne(n)
  <2>1. n \in 0 .. (n + 1) - 1
    OBVIOUS
  <2> QED BY <1>3, <1>7, <2>1 DEF IsLow
<1>14. la[n] \in Nat /\ lb[n] \in Nat /\ lv[n] \in Nat
  <2>1. n \in 0 .. n /\ n \in 0 .. n + 1
    OBVIOUS
  <2> QED BY <1>4, <1>5, <1>7, <2>1 DEF IsLow
<1>15. PICK p \in Nat : p = 2 ^ n /\ 2 ^ (n + 1) = 2 * p
  BY Powers
<1>16. lv[n + 1] = la[n] + lb[n]
  <2>1. Borne(n) \in Nat
    BY <1>15
  <2> HIDE DEF Borne
  <2> QED BY <1>12, <1>13, <1>14, <2>1
<1>17. NodeValue(v, x) = NodeValue(a, x) + NodeValue(b, x)
  BY <1>8, <1>16
<1> QED BY <1>1, <1>3, <1>17 DEF v

\* my_Abc_AddFullSubtractor subtracts, and adds a power of two if that is negative: the
\* borrow that is left becomes a bit of its own, above those of the operands.
LEMMA SubtractorSubtracts ==
  ASSUME NEW a \in Vector, NEW b \in Vector, NEW x
  PROVE  /\ AddFullSubtractor(a, b) \in Vector
         /\ Len(AddFullSubtractor(a, b)) = Longer(a, b) + 1
         /\ \E q \in {0, 1} : NodeValue(AddFullSubtractor(a, b), x) =
                              NodeValue(a, x) - NodeValue(b, x) + q * 2 ^ (Longer(a, b) + 1)
<1> DEFINE v == AddFullSubtractor(a, b)
<1>1. PICK n \in Nat : n = Longer(a, b) /\ n >= Len(a) /\ n >= Len(b)
  BY LongerIs
<1>2. PICK carry :
        /\ IsRippled(v, a, b, carry, n)
        /\ \A i \in 0 .. n - 1 :
             carry[i + 1] = SubCarry(Weighted(a, i), Weighted(b, i), carry[i])
  BY <1>1, SubtractorRipples
<1> HIDE DEF v
<1>3. /\ v \in Vector /\ Len(v) = n + 1 /\ carry[0] = {} /\ Weighted(v, n) = carry[n]
      /\ \A i \in 0 .. n - 1 :
           Weighted(v, i) = Xor(Xor(Weighted(a, i), Weighted(b, i)), carry[i])
  BY <1>2 DEF IsRippled
<1>4. PICK la : IsLow(la, a, x, n)
  BY LowExists
<1>5. PICK lb : IsLow(lb, b, x, n)
  BY LowExists
<1>6. n + 1 \in Nat
  OBVIOUS
<1>7. PICK lv : IsLow(lv, v, x, n + 1)
  BY <1>6, LowExists
<1>8. /\ NodeValue(a, x) = la[n] /\ NodeValue(b, x) = lb[n]
      /\ NodeValue(v, x) = lv[n + 1]
  <2>1. n + 1 >= Len(v)
    BY <1>3
  <2> QED BY <1>1, <1>3, <1>4, <1>5, <1>6, <1>7, <2>1, LowIsValue
<1> DEFINE Borne(i) == IF x \in carry[i] THEN 2 ^ i ELSE 0
           S == {i \in 0 .. n : la[i] - lb[i] = lv[i] - Borne(i)}
<1>9. 0 \in S
  <2>1. la[0] = 0 /\ lb[0] = 0 /\ lv[0] = 0
    BY <1>4, <1>5, <1>7 DEF IsLow
  <2>2. Borne(0) = 0
    BY <1>3
  <2>3. 0 \in 0 .. n
    OBVIOUS
  <2> HIDE DEF Borne
  <2> QED BY <2>1, <2>2, <2>3
<1>10. \A i \in 0 .. n - 1 : i \in S => i + 1 \in S
  <2> SUFFICES ASSUME NEW i \in 0 .. n - 1, i \in S PROVE i + 1 \in S
    OBVIOUS
  <2>1. PICK p \in Nat : p = 2 ^ i /\ 2 ^ (i + 1) = 2 * p
    BY Powers
  <2>2. i \in 0 .. (n + 1) - 1 /\ i + 1 \in 0 .. n /\ i \in 0 .. n + 1 /\ i \in 0 .. n
    OBVIOUS
  <2>3. PICK A \in Nat, B \in Nat, V \in Nat : A = la[i] /\ B = lb[i] /\ V = lv[i]
    BY <1>4, <1>5, <1>7, <2>2 DEF IsLow
  <2>4. PICK P, Q, C : P = Weighted(a, i) /\ Q = Weighted(b, i) /\ C = carry[i]
    OBVIOUS
  <2>5. la[i + 1] = A + (IF x \in P THEN p ELSE 0)
    BY <1>4, <2>1, <2>3, <2>4 DEF IsLow
  <2>6. lb[i + 1] = B + (IF x \in Q THEN p ELSE 0)
    BY <1>5, <2>1, <2>3, <2>4 DEF IsLow
  <2>7. lv[i + 1] = V + (IF x \in Xor(Xor(P, Q), C) THEN p ELSE 0)
    <3>1. Weighted(v, i) = Xor(Xor(P, Q), C)
      BY <1>3, <2>4
    <3> QED BY <1>7, <2>1, <2>2, <2>3, <3>1 DEF IsLow
  <2>8. Borne(i) = IF x \in C THEN p ELSE 0
    BY <2>1, <2>4
  <2>9. Borne(i + 1) = IF x \in SubCarry(P, Q, C) THEN 2 * p ELSE 0
    BY <1>2, <2>1, <2>4
  <2>10. A - B = V - (IF x \in C THEN p ELSE 0)
    BY <2>3, <2>8
  <2>11. la[i + 1] - lb[i + 1] = lv[i + 1] - Borne(i + 1)
    <3> HIDE DEF Borne
    <3> QED BY <2>5, <2>6, <2>7, <2>9, <2>10 DEF Xor, SubCarry
  <2> QED BY <2>2, <2>11
<1>11. 0 .. n \subseteq S
  <2> HIDE DEF S
  <2> QED BY <1>9, <1>10, UpToInduction
<1>12. la[n] - lb[n] = lv[n] - Borne(n)
  BY <1>11
<1>13. lv[n + 1] = lv[n] + Borne(n)
  <2>1. n \in 0 .. (n + 1) - 1
    OBVIOUS
  <2> QED BY <1>3, <1>7, <2>1 DEF IsLow
<1>14. la[n] \in Nat /\ lb[n] \in Nat /\ lv[n] \in Nat
  <2>1. n \in 0 .. n /\ n \in 0 .. n + 1
    OBVIOUS
  <2> QED BY <1>4, <1>5, <1>7, <2>1 DEF IsLow
<1>15. PICK p \in Nat : p = 2 ^ n /\ 2 ^ (n + 1) = 2 * p
  BY Powers
<1>16. PICK q \in {0, 1} : lv[n + 1] = la[n] - lb[n] + q * (2 * p)
  <2>1. CASE x \in carry[n]
    <3>1. Borne(n) = p
      BY <1>15, <2>1
    <3>2. lv[n + 1] = la[n] - lb[n] + 1 * (2 * p)
      <4> HIDE DEF Borne
      <4> QED BY <1>12, <1>13, <1>14, <3>1
    <3> QED BY <3>2
  <2>2. CASE x \notin carry[n]
    <3>1. Borne(n) = 0
      BY <2>2
    <3>2. lv[n + 1] = la[n] - lb[n] + 0 * (2 * p)
      <4> HIDE DEF Borne
      <4> QED BY <1>12, <1>13, <1>14, <3>1
    <3> QED BY <3>2
  <2> QED BY <2>1, <2>2
<1>17. NodeValue(v, x) = NodeValue(a, x) - NodeValue(b, x) + q * 2 ^ (Longer(a, b) + 1)
  BY <1>1, <1>8, <1>15, <1>16
<1> QED BY <1>1, <1>3, <1>17 DEF v

-----------------------------------------------------------------------------
(* Variables, constants, shifts and products.                              *)

\* The value of a variable is that of the vector of its inputs.
LEMMA VarValueIs ==
  ASSUME NEW var \in Seq(PI), NEW x \in Point
  PROVE  /\ Inputs(var) \in Vector /\ Len(Inputs(var)) = Len(var)
         /\ VarValue(var, x) = NodeValue(Inputs(var), x)
<1> DEFINE L == Len(var)
           F(f) == [n \in 0 .. L |-> IF n = 0 THEN 0
                                     ELSE 2 * f[n - 1] + (IF x[var[n]] = "1" THEN 1 ELSE 0)]
<1>1. L \in Nat
  OBVIOUS
<1>2. Inputs(var) \in Vector /\ Len(Inputs(var)) = L
  BY DEF Inputs, Vector, On, OnSet
<1>3. \A n \in 1 .. L : Digit(Inputs(var)[n], x) = IF x[var[n]] = "1" THEN 1 ELSE 0
  BY DEF Inputs, Digit, On
<1>4. PICK f : IsUp(f, Inputs(var), x) /\ NodeValue(Inputs(var), x) = f[L]
  BY <1>2, NodeValueIs
<1>5. /\ f \in [0 .. L -> Nat] /\ f[0] = 0
      /\ \A n \in 1 .. L : f[n] = 2 * f[n - 1] + (IF x[var[n]] = "1" THEN 1 ELSE 0)
  BY <1>2, <1>3, <1>4 DEF IsUp
<1>6. f = F(f)
  <2>1. \A n \in 0 .. L : f[n] = F(f)[n]
    BY <1>1, <1>5
  <2>2. DOMAIN F(f) = 0 .. L /\ DOMAIN f = 0 .. L
    BY <1>5
  <2> QED BY <1>5, <2>1, <2>2
<1>7. PICK g : g = (CHOOSE h : h = F(h))
  OBVIOUS
<1>8. g = F(g)
  <2> HIDE DEF F
  <2> QED BY <1>6, <1>7
<1>9. VarValue(var, x) = g[L]
  BY <1>7 DEF VarValue
<1>10. /\ g[0] = 0
       /\ \A n \in 1 .. L : g[n] = 2 * g[n - 1] + (IF x[var[n]] = "1" THEN 1 ELSE 0)
  BY <1>1, <1>8
<1> DEFINE S == {n \in 0 .. L : g[n] = f[n]}
<1>11. 0 \in S
  BY <1>1, <1>5, <1>10
<1>12. \A n \in 0 .. L - 1 : n \in S => n + 1 \in S
  <2> SUFFICES ASSUME NEW n \in 0 .. L - 1, n \in S PROVE n + 1 \in S
    OBVIOUS
  <2>1. n + 1 \in 1 .. L /\ (n + 1) - 1 = n
    BY <1>1
  <2> HIDE DEF F
  <2> QED BY <1>1, <1>5, <1>10, <2>1
<1>13. 0 .. L \subseteq S
  <2> HIDE DEF S, L
  <2> QED BY <1>1, <1>11, <1>12, UpToInduction
<1> QED BY <1>1, <1>2, <1>4, <1>9, <1>13

\* A vector with zeros behind it is multiplied by a power of two.
LEMMA ShiftedValue ==
  ASSUME NEW v \in Vector, NEW m, NEW j \in Nat, NEW x
  PROVE  /\ Shifted(v, m, j) \in Vector /\ Len(Shifted(v, m, j)) = Len(v) + j
         /\ NodeValue(Shifted(v, m, j), x) = NodeValue(v, x) * 2 ^ j
<1> DEFINE z == [i \in 1 .. j |-> {}]
           w == Shifted(v, m, j)
<1>1. PICK L \in Nat : L = Len(v)
  BY DEF Vector
<1>2. z \in Seq(OnSet) /\ Len(z) = j /\ \A i \in 1 .. j : z[i] = {}
  BY DEF OnSet
<1>3. w = v \o z
  BY DEF Shifted
<1>4. /\ w \in Vector /\ Len(w) = L + j
      /\ \A i \in 1 .. L : w[i] = v[i]
      /\ \A i \in 1 .. j : w[L + i] = {}
  <2> HIDE DEF z, w
  <2>1. w \in Vector /\ Len(w) = L + j
    <3>1. v \in Seq(OnSet) /\ z \in Seq(OnSet)
      BY <1>2 DEF Vector
    <3>2. v \o z \in Seq(OnSet) /\ Len(v \o z) = Len(v) + Len(z)
      BY <3>1
    <3> QED BY <1>1, <1>2, <1>3, <3>2 DEF Vector
  <2>2. \A i \in 1 .. L : w[i] = v[i]
    BY <1>1, <1>2, <1>3 DEF Vector
  <2>3. \A i \in 1 .. j : w[L + i] = z[i]
    BY <1>1, <1>2, <1>3 DEF Vector
  <2> QED BY <1>2, <2>1, <2>2, <2>3
<1> HIDE DEF z, w
<1>5. PICK f : IsUp(f, v, x) /\ NodeValue(v, x) = f[L]
  BY <1>1, NodeValueIs
<1>6. PICK g : IsUp(g, w, x) /\ NodeValue(w, x) = g[L + j]
  BY <1>4, NodeValueIs
<1>7. /\ f \in [0 .. L -> Nat] /\ f[0] = 0
      /\ \A n \in 1 .. L : f[n] = 2 * f[n - 1] + Digit(v[n], x)
  BY <1>1, <1>5 DEF IsUp
<1>8. /\ g \in [0 .. L + j -> Nat] /\ g[0] = 0
      /\ \A n \in 1 .. L + j : g[n] = 2 * g[n - 1] + Digit(w[n], x)
  BY <1>4, <1>6 DEF IsUp
<1> DEFINE S == {n \in 0 .. L : g[n] = f[n]}
<1>9. 0 \in S
  BY <1>7, <1>8
<1>10. \A n \in 0 .. L - 1 : n \in S => n + 1 \in S
  <2> SUFFICES ASSUME NEW n \in 0 .. L - 1, n \in S PROVE n + 1 \in S
    OBVIOUS
  <2>1. n + 1 \in 1 .. L /\ n + 1 \in 1 .. L + j /\ (n + 1) - 1 = n
    OBVIOUS
  <2>2. f[n + 1] = 2 * f[n] + Digit(v[n + 1], x)
    BY <1>7, <2>1
  <2>3. g[n + 1] = 2 * g[n] + Digit(w[n + 1], x)
    BY <1>8, <2>1
  <2> QED BY <1>4, <2>1, <2>2, <2>3
<1>11. 0 .. L \subseteq S
  <2> HIDE DEF S
  <2> QED BY <1>9, <1>10, UpToInduction
<1>12. g[L] = f[L] /\ f[L] \in Nat
  BY <1>7, <1>11
<1> DEFINE T == {i \in 0 .. j : g[L + i] = f[L] * 2 ^ i}
<1>13. 0 \in T
  <2>1. 2 ^ 0 = 1 /\ 0 \in 0 .. j /\ L + 0 = L
    BY Powers
  <2>2. f[L] * 1 = f[L]
    BY <1>12
  <2> QED BY <1>12, <2>1, <2>2
<1>14. \A i \in 0 .. j - 1 : i \in T => i + 1 \in T
  <2> SUFFICES ASSUME NEW i \in 0 .. j - 1, i \in T PROVE i + 1 \in T
    OBVIOUS
  <2>1. i + 1 \in 1 .. j /\ L + (i + 1) \in 1 .. L + j /\ (L + (i + 1)) - 1 = L + i
    OBVIOUS
  <2>2. g[L + (i + 1)] = 2 * g[L + i] + Digit(w[L + (i + 1)], x)
    BY <1>8, <2>1
  <2>3. Digit(w[L + (i + 1)], x) = 0
    BY <1>4, <2>1 DEF Digit
  <2>4. PICK p \in Nat : p = 2 ^ i /\ 2 ^ (i + 1) = 2 * p
    BY Powers
  <2>5. PICK u \in Nat : u = f[L]
    BY <1>12
  <2>6. g[L + (i + 1)] = 2 * (u * p) + 0
    BY <2>2, <2>3, <2>4, <2>5
  <2>7. 2 * (u * p) + 0 = u * (2 * p)
    OBVIOUS
  <2>8. g[L + (i + 1)] = f[L] * 2 ^ (i + 1)
    BY <2>4, <2>5, <2>6, <2>7
  <2>9. i + 1 \in 0 .. j
    OBVIOUS
  <2> QED BY <2>8, <2>9
<1>15. 0 .. j \subseteq T
  <2> HIDE DEF T
  <2> QED BY <1>13, <1>14, UpToInduction
<1>16. g[L + j] = f[L] * 2 ^ j
  BY <1>15
<1> QED BY <1>1, <1>4, <1>5, <1>6, <1>16 DEF w

\* The quotients of a number by powers of two.
LEMMA Quotient ==
  ASSUME NEW m \in Nat, NEW p \in Nat \ {0}
  PROVE  /\ m \div p \in Nat /\ m \div p = 2 * (m \div (2 * p)) + ((m \div p) % 2)
         /\ ((m \div p) % 2) \in {0, 1}
         /\ (m % (2 * p)) = (m % p) + p * ((m \div p) % 2)
<1>1. PICK q \in Nat, r \in Nat : q = m \div p /\ r = (m % p) /\ r < p /\ m = p * q + r
  <2>1. (m % p) \in Nat /\ (m % p) < p /\ m = p * (m \div p) + (m % p) /\ m \div p \in Nat
    OBVIOUS
  <2> QED BY <2>1
<1>2. PICK h \in Nat, b \in {0, 1} : q = 2 * h + b /\ b = (q % 2)
  <2>1. q = 2 * (q \div 2) + (q % 2) /\ (q % 2) \in {0, 1} /\ q \div 2 \in Nat
    OBVIOUS
  <2> QED BY <2>1
<1>3. PICK w \in Nat \ {0} : w = 2 * p
  OBVIOUS
<1>4. m = w * h + (p * b + r) /\ p * b + r < w /\ p * b + r \in Nat
  <2>1. PICK t \in Nat : t = p * h
    OBVIOUS
  <2>2. PICK c \in Nat : c = p * b /\ c <= p
    OBVIOUS
  <2>3. p * q = 2 * t + c
    <3>1. p * (2 * h + b) = 2 * (p * h) + p * b
      OBVIOUS
    <3> QED BY <1>2, <2>1, <2>2, <3>1
  <2>4. w * h = 2 * t
    <3>1. (2 * p) * h = 2 * (p * h)
      OBVIOUS
    <3> QED BY <1>3, <2>1, <3>1
  <2>5. 2 * t + c + r = 2 * t + (c + r) /\ c + r < w /\ c + r \in Nat
    BY <1>1, <1>3, <2>2
  <2> QED BY <1>1, <2>2, <2>3, <2>4, <2>5
<1>5. m \div w = h /\ (m % w) = p * b + r
  <2>1. PICK c \in Nat : c = p * b + r /\ c < w
    BY <1>4
  <2>2. (w * h + c) \div w = h /\ ((w * h + c) % w) = c
    BY <2>1
  <2> QED BY <1>4, <2>1, <2>2
<1>6. m \div p = q /\ (m % p) = r /\ m \div (2 * p) = h /\ (m % (2 * p)) = p * b + r
  BY <1>1, <1>3, <1>5, Zenon
<1>7. ((m \div p) % 2) = b
  BY <1>2, <1>6, Zenon
<1>8. p * b + r = r + p * b
  OBVIOUS
<1>9. (m % (2 * p)) = (m % p) + p * ((m \div p) % 2)
  BY <1>6, <1>7, <1>8, Zenon
<1>10. m \div p = 2 * (m \div (2 * p)) + ((m \div p) % 2)
  BY <1>2, <1>6, <1>7, Zenon
<1> QED BY <1>1, <1>7, <1>9, <1>10

\* Nothing added up is zero.
LEMMA NoBits ==
  /\ <<>> \in Vector
  /\ \A x : NodeValue(<<>>, x) = 0
<1>1. <<>> \in Vector /\ Len(<<>>) = 0
  BY DEF Vector
<1>2. ASSUME NEW x PROVE NodeValue(<<>>, x) = 0
  <2>1. 0 .. 2 ^ 0 - 1 = {0}
    BY Powers
  <2>2. NodeValue(<<>>, x) \in 0 .. 2 ^ Len(<<>>) - 1
    BY <1>1, NodeValueBelow
  <2> QED BY <1>1, <2>1, <2>2
<1> QED BY <1>1, <1>2

\* Abc_Wrapper::multiply multiplies, by any number of OutWidth bits.
LEMMA Multiplied ==
  ASSUME OutWidth \in Nat, NEW v \in Vector, NEW m \in 0 .. 2 ^ OutWidth - 1
  PROVE  /\ Multiply(v, m) \in Vector
         /\ \A x : NodeValue(Multiply(v, m), x) = NodeValue(v, x) * m
<1> DEFINE W == OutWidth
           Bit1(n) == (m \div 2 ^ n) % 2 = 1
           step == [n \in 1 .. W |->
                      [s \in Vector |-> IF Bit1(n - 1) THEN AddFullAdder(s, Shifted(v, m, n - 1))
                                        ELSE s]]
           F(f) == [j \in 0 .. W |->
                      IF j = 0 THEN <<>>
                      ELSE IF (m \div 2 ^ (j - 1)) % 2 = 1
                      THEN AddFullAdder(f[j - 1], Shifted(v, m, j - 1))
                      ELSE f[j - 1]]
<1>1. W \in Nat /\ m \in Nat /\ m < 2 ^ W
  <2>1. PICK p \in Nat : p = 2 ^ OutWidth
    BY Powers
  <2> QED BY <2>1
<1>2. ASSUME NEW s \in Vector, NEW j \in Nat
      PROVE  AddFullAdder(s, Shifted(v, m, j)) \in Vector
  <2>1. Shifted(v, m, j) \in Vector
    BY ShiftedValue
  <2> QED BY <2>1, AdderAdds
<1>3. step \in [1 .. W -> [Vector -> Vector]]
  <2>1. \A n \in 1 .. W : n - 1 \in Nat
    BY <1>1
  <2> HIDE DEF Bit1
  <2> QED BY <1>2, <2>1
<1>4. PICK f : Recursive(Vector, step, <<>>, W, f)
  <2> HIDE DEF step, W
  <2> QED BY <1>1, <1>3, NoBits, Recursion
<1>5. /\ f \in [0 .. W -> Vector] /\ f[0] = <<>>
      /\ \A n \in 1 .. W : f[n] = step[n][f[n - 1]]
  BY <1>4 DEF Recursive
<1>6. \A n \in 1 .. W : f[n] = IF Bit1(n - 1) THEN AddFullAdder(f[n - 1], Shifted(v, m, n - 1))
                               ELSE f[n - 1]
  <2>1. \A n \in 1 .. W : n - 1 \in 0 .. W /\ f[n - 1] \in Vector
    BY <1>1, <1>5
  <2> HIDE DEF Bit1
  <2> QED BY <1>5, <2>1
<1>7. f = F(f)
  <2>1. \A n \in 0 .. W : f[n] = F(f)[n]
    BY <1>1, <1>5, <1>6
  <2>2. DOMAIN F(f) = 0 .. W /\ DOMAIN f = 0 .. W
    BY <1>5
  <2> QED BY <1>5, <2>1, <2>2
<1>8. PICK g : g = (CHOOSE h : h = F(h))
  OBVIOUS
<1>9. g = F(g)
  <2> HIDE DEF F
  <2> QED BY <1>7, <1>8
<1>10. Multiply(v, m) = g[W]
  BY <1>8 DEF Multiply
<1>11. /\ g[0] = <<>>
       /\ \A n \in 0 .. W - 1 :
            g[n + 1] = IF Bit1(n) THEN AddFullAdder(g[n], Shifted(v, m, n)) ELSE g[n]
  <2>1. /\ g[0] = <<>>
        /\ \A n \in 1 .. W : g[n] = IF Bit1(n - 1)
                                    THEN AddFullAdder(g[n - 1], Shifted(v, m, n - 1))
                                    ELSE g[n - 1]
    BY <1>1, <1>9
  <2>2. \A n \in 0 .. W - 1 : n + 1 \in 1 .. W /\ (n + 1) - 1 = n
    BY <1>1
  <2> HIDE DEF F, Bit1
  <2> QED BY <2>1, <2>2
<1> DEFINE S == {n \in 0 .. W : /\ g[n] \in Vector
                                /\ \A x : NodeValue(g[n], x) = NodeValue(v, x) * (m % 2 ^ n)}
<1> HIDE DEF F, step
<1>12. 0 \in S
  <2>1. 2 ^ 0 = 1 /\ 0 \in 0 .. W
    BY <1>1, Powers
  <2>2. (m % 1) = 0
    BY <1>1
  <2>3. ASSUME NEW x PROVE NodeValue(v, x) * 0 = 0
    <3>1. PICK p \in Nat : p = 2 ^ Len(v)
      BY Powers DEF Vector
    <3>2. NodeValue(v, x) \in Nat
      BY <3>1, NodeValueBelow
    <3> QED BY <3>2
  <2> QED BY <1>11, <2>1, <2>2, <2>3, NoBits
<1>13. \A n \in 0 .. W - 1 : n \in S => n + 1 \in S
  <2> SUFFICES ASSUME NEW n \in 0 .. W - 1, n \in S PROVE n + 1 \in S
    OBVIOUS
  <2>1. n \in Nat /\ n + 1 \in 0 .. W
    BY <1>1
  <2>2. PICK p \in Nat \ {0} : p = 2 ^ n /\ 2 ^ (n + 1) = 2 * p
    BY <2>1, Powers
  <2>3. PICK r \in Nat, b \in {0, 1} :
          /\ r = (m % p) /\ b = ((m \div p) % 2)
          /\ (m % (2 * p)) = r + p * b
    <3>1. (m % p) \in Nat
      BY <1>1
    <3> QED BY <1>1, <3>1, Quotient
  <2>4. g[n] \in Vector /\ \A x : NodeValue(g[n], x) = NodeValue(v, x) * r
    BY <2>2, <2>3
  <2>5. Bit1(n) <=> b = 1
    BY <2>2, <2>3
  <2>6. Shifted(v, m, n) \in Vector /\ \A x : NodeValue(Shifted(v, m, n), x) = NodeValue(v, x) * p
    BY <2>1, <2>2, ShiftedValue
  <2>7. g[n + 1] = IF b = 1 THEN AddFullAdder(g[n], Shifted(v, m, n)) ELSE g[n]
    <3> HIDE DEF Bit1
    <3> QED BY <1>11, <2>5
  <2>8. g[n + 1] \in Vector
    BY <1>2, <2>1, <2>4, <2>7
  <2>9. ASSUME NEW x PROVE NodeValue(g[n + 1], x) = NodeValue(v, x) * (r + p * b)
    <3>1. PICK u \in Nat : u = NodeValue(v, x)
      <4>1. PICK l \in Nat : l = 2 ^ Len(v)
        BY Powers DEF Vector
      <4> QED BY <4>1, NodeValueBelow
    <3>2. CASE b = 1
      <4>1. NodeValue(g[n + 1], x) = u * r + u * p
        BY <2>4, <2>6, <2>7, <3>1, <3>2, AdderAdds
      <4>2. u * r + u * p = u * (r + p * 1)
        OBVIOUS
      <4> QED BY <3>1, <3>2, <4>1, <4>2
    <3>3. CASE b = 0
      <4>1. NodeValue(g[n + 1], x) = u * r
        BY <2>4, <2>7, <3>1, <3>3
      <4>2. u * r = u * (r + p * 0)
        OBVIOUS
      <4> QED BY <3>1, <3>3, <4>1, <4>2
    <3> QED BY <3>2, <3>3
  <2>10. \A x : NodeValue(g[n + 1], x) = NodeValue(v, x) * (m % 2 ^ (n + 1))
    BY <2>2, <2>3, <2>9, Zenon
  <2> QED BY <2>1, <2>8, <2>10
<1>14. 0 .. W \subseteq S
  <2> HIDE DEF S, W
  <2> QED BY <1>1, <1>12, <1>13, UpToInduction
<1>15. W \in S
  BY <1>1, <1>14
<1>16. (m % 2 ^ W) = m
  <2>1. PICK p \in Nat : p = 2 ^ W
    BY <1>1, Powers
  <2>2. m < p
    BY <1>1, <2>1
  <2>3. (m % p) = m
    BY <1>1, <2>2
  <2> QED BY <2>1, <2>3
<1> QED BY <1>10, <1>15, <1>16, Zenon

\* The vector of constants stands for the constant.
LEMMA ConstantsValue ==
  ASSUME OutWidth \in Nat, k \in Value
  PROVE  /\ Constants \in Vector /\ Len(Constants) = OutWidth
         /\ \A x \in Point : NodeValue(Constants, x) = k
<1>1. PICK W \in Nat : W = OutWidth
  OBVIOUS
<1>2. k \in Nat /\ k < 2 ^ W
  <2>1. PICK p \in Nat : p = 2 ^ W
    BY Powers
  <2> QED BY <1>1, <2>1 DEF Value
<1>3. Constants = [j \in 1 .. W |-> Const((k \div 2 ^ (W - j)) % 2 = 1)]
  BY <1>1 DEF Constants
<1>4. \A b : Const(b) \in OnSet
  BY DEF Const, OnSet
<1>5. Constants \in Vector /\ Len(Constants) = W
  BY <1>3, <1>4 DEF Vector
<1>6. ASSUME NEW x \in Point PROVE NodeValue(Constants, x) = k
  <2> DEFINE f == [n \in 0 .. W |-> k \div 2 ^ (W - n)]
  <2>1. ASSUME NEW n \in 0 .. W PROVE k \div 2 ^ (W - n) \in Nat
    <3>1. W - n \in Nat
      OBVIOUS
    <3>2. PICK p \in Nat \ {0} : p = 2 ^ (W - n)
      BY <3>1, Powers
    <3>3. k \div p \in Nat
      BY <1>2
    <3> QED BY <3>2, <3>3
  <2>2. f[0] = 0
    <3>1. PICK p \in Nat \ {0} : p = 2 ^ W
      BY Powers
    <3>2. k \div p = 0
      BY <1>2, <3>1
    <3>3. W - 0 = W /\ 0 \in 0 .. W
      OBVIOUS
    <3> QED BY <3>1, <3>2, <3>3
  <2>3. ASSUME NEW n \in 1 .. W PROVE f[n] = 2 * f[n - 1] + Digit(Constants[n], x)
    <3>1. W - n \in Nat /\ W - (n - 1) = (W - n) + 1 /\ n \in 0 .. W /\ n - 1 \in 0 .. W
      OBVIOUS
    <3>2. PICK p \in Nat \ {0} : p = 2 ^ (W - n) /\ 2 ^ (W - (n - 1)) = 2 * p
      BY <3>1, Powers
    <3>3. f[n] = k \div p /\ f[n - 1] = k \div (2 * p)
      BY <3>1, <3>2
    <3>4. Digit(Constants[n], x) = ((k \div p) % 2)
      <4>1. Constants[n] = Const(((k \div p) % 2) = 1)
        BY <1>3, <3>2
      <4>2. ((k \div p) % 2) \in {0, 1}
        BY <1>2, Quotient
      <4> QED BY <4>1, <4>2 DEF Const, Digit
    <3>5. k \div p = 2 * (k \div (2 * p)) + ((k \div p) % 2)
      BY <1>2, Quotient
    <3> QED BY <3>3, <3>4, <3>5, Zenon
  <2>4. IsUp(f, Constants, x)
    <3>1. f \in [0 .. W -> Nat]
      BY <2>1
    <3> HIDE DEF f
    <3> QED BY <1>5, <2>2, <2>3, <3>1 DEF IsUp
  <2>5. NodeValue(Constants, x) = f[W]
    <3> HIDE DEF f
    <3> QED BY <1>5, <2>4, UpIsValue
  <2>6. f[W] = k \div 1
    <3>1. W - W = 0 /\ W \in 0 .. W
      OBVIOUS
    <3> QED BY <3>1, Powers
  <2> QED BY <1>2, <2>5, <2>6
<1> QED BY <1>1, <1>5, <1>6

-----------------------------------------------------------------------------
(* Numbers modulo the size of the output variable.                         *)

\* a and b are the same modulo m.
Same(a, b, m) == \E q \in Int : a = b + q * m

\* A remainder is not changed by adding a multiple.
LEMMA RestOfMultiple ==
  ASSUME NEW m \in Nat \ {0}, NEW e \in Int, NEW r \in 0 .. m - 1
  PROVE  ((m * e + r) % m) = r
OBVIOUS

\* Numbers that differ by a multiple have the same remainder.
LEMMA SameRest ==
  ASSUME NEW a \in Int, NEW b \in Int, NEW m \in Nat \ {0}, Same(a, b, m)
  PROVE  (a % m) = (b % m)
<1>1. PICK q \in Int : a = b + q * m
  BY DEF Same
<1>2. PICK d \in Int, r \in 0 .. m - 1 : b = m * d + r /\ r = (b % m)
  <2>1. b = m * (b \div m) + (b % m) /\ (b % m) \in 0 .. m - 1 /\ b \div m \in Int
    OBVIOUS
  <2> QED BY <2>1
<1>3. PICK e \in Int : e = d + q
  OBVIOUS
<1>4. a = m * e + r
  <2>1. m * (d + q) = m * d + q * m
    OBVIOUS
  <2> QED BY <1>1, <1>2, <1>3, <2>1
<1>5. ((m * e + r) % m) = r
  BY RestOfMultiple
<1> QED BY <1>2, <1>4, <1>5

\* A number and its remainder differ by a multiple.
LEMMA SameOfRest ==
  ASSUME NEW a \in Int, NEW m \in Nat \ {0}
  PROVE  Same(a, a % m, m) /\ Same(a % m, a, m)
<1>1. a = m * (a \div m) + (a % m) /\ (a % m) \in Int /\ a \div m \in Int
  OBVIOUS
<1>2. PICK d \in Int, r \in Int : d = a \div m /\ r = (a % m)
  BY <1>1
<1>3. PICK e \in Int : e = -d
  OBVIOUS
<1>4. a = r + d * m /\ r = a + e * m
  <2>1. m * d = d * m /\ (-d) * m = -(d * m)
    OBVIOUS
  <2> QED BY <1>1, <1>2, <1>3, <2>1
<1>5. Same(a, r, m) /\ Same(r, a, m)
  BY <1>4 DEF Same
<1> QED BY <1>2, <1>5

\* Sums and differences keep to the same classes.
LEMMA SameSum ==
  ASSUME NEW a \in Int, NEW b \in Int, NEW c \in Int, NEW d \in Int, NEW m \in Int,
         Same(a, b, m), Same(c, d, m)
  PROVE  Same(a + c, b + d, m) /\ Same(a - c, b - d, m)
<1>1. PICK q \in Int, p \in Int : a = b + q * m /\ c = d + p * m
  BY DEF Same
<1>2. (q + p) * m = q * m + p * m /\ (q - p) * m = q * m - p * m
  OBVIOUS
<1>3. PICK s \in Int, t \in Int : s = q + p /\ t = q - p
  OBVIOUS
<1>4. a + c = (b + d) + s * m /\ a - c = (b - d) + t * m
  BY <1>1, <1>2, <1>3
<1> QED BY <1>4 DEF Same

\* Being the same up to multiples is transitive.
LEMMA SameTrans ==
  ASSUME NEW a \in Int, NEW b \in Int, NEW c \in Int, NEW m \in Int,
         Same(a, b, m), Same(b, c, m)
  PROVE  Same(a, c, m)
<1>1. PICK q \in Int, p \in Int : a = b + q * m /\ b = c + p * m
  BY DEF Same
<1>2. (q + p) * m = q * m + p * m
  OBVIOUS
<1>3. PICK s \in Int : s = q + p
  OBVIOUS
<1>4. a = c + s * m
  BY <1>1, <1>2, <1>3
<1> QED BY <1>4 DEF Same

\* A number is the same as itself.
LEMMA SameSelf ==
  ASSUME NEW a \in Int, NEW m \in Int
  PROVE  Same(a, a, m)
<1>1. a = a + 0 * m
  OBVIOUS
<1> QED BY <1>1 DEF Same

\* A power of two is a multiple of the powers below it.
LEMMA PowerMultiple ==
  ASSUME NEW w \in Nat, NEW n \in Nat, w <= n
  PROVE  \E q \in Nat : 2 ^ n = q * 2 ^ w
<1> DEFINE S == {i \in Nat : \E q \in Nat : 2 ^ (w + i) = q * 2 ^ w}
<1>1. 0 \in S
  <2>1. PICK p \in Nat : p = 2 ^ w
    BY Powers
  <2>2. p = 1 * p /\ w + 0 = w
    OBVIOUS
  <2>3. 2 ^ (w + 0) = 1 * 2 ^ w
    BY <2>1, <2>2
  <2> QED BY <2>3
<1>2. \A i \in S : i + 1 \in S
  <2> SUFFICES ASSUME NEW i \in Nat, i \in S PROVE i + 1 \in S
    OBVIOUS
  <2>1. PICK q \in Nat : 2 ^ (w + i) = q * 2 ^ w
    OBVIOUS
  <2>2. PICK p \in Nat : p = 2 ^ w
    BY Powers
  <2>3. w + i \in Nat /\ w + (i + 1) = (w + i) + 1
    OBVIOUS
  <2>4. 2 ^ (w + (i + 1)) = 2 * 2 ^ (w + i)
    BY <2>3, Powers
  <2>5. 2 * (q * p) = (2 * q) * p
    OBVIOUS
  <2>6. PICK r \in Nat : r = 2 * q
    OBVIOUS
  <2>7. 2 ^ (w + (i + 1)) = r * 2 ^ w
    BY <2>1, <2>2, <2>4, <2>5, <2>6
  <2> QED BY <2>7
<1>3. S = Nat
  <2>1. S \subseteq Nat
    OBVIOUS
  <2> HIDE DEF S
  <2> QED BY <1>1, <1>2, <2>1, NatSetInduction
<1>4. PICK i \in Nat : w + i = n
  <2>1. n - w \in Nat /\ w + (n - w) = n
    OBVIOUS
  <2> QED BY <2>1
<1>5. i \in S
  <2> HIDE DEF S
  <2> QED BY <1>3
<1> QED BY <1>4, <1>5

\* assign_outputs keeps the value modulo the size of the output variable.
LEMMA AssignedValue ==
  ASSUME OutWidth \in Nat, NEW v \in Vector, Len(v) >= OutWidth
  PROVE  /\ AssignedBits(v) \in Vector /\ Len(AssignedBits(v)) = OutWidth
         /\ \A x : NodeValue(AssignedBits(v), x) = (NodeValue(v, x) % 2 ^ OutWidth)
<1> DEFINE w == AssignedBits(v)
<1>1. PICK W \in Nat : W = OutWidth
  OBVIOUS
<1>2. PICK L \in Nat : L = Len(v) /\ L >= W
  BY <1>1 DEF Vector
<1>3. w = SubSeq(v, L - W + 1, L)
  BY <1>1, <1>2 DEF AssignedBits
<1>4. /\ w \in Vector /\ Len(w) = W
      /\ \A i \in 1 .. W : w[i] = v[L - W + i]
  <2>1. v \in Seq(OnSet) /\ L - W + 1 \in 1 .. L + 1 /\ L <= Len(v)
    BY <1>2 DEF Vector
  <2>2. /\ w \in Seq(OnSet) /\ Len(w) = L - (L - W + 1) + 1
        /\ \A i \in 1 .. L - (L - W + 1) + 1 : w[i] = v[(L - W + 1) + i - 1]
    BY <1>3, <2>1
  <2>3. L - (L - W + 1) + 1 = W /\ \A i \in Int : (L - W + 1) + i - 1 = L - W + i
    OBVIOUS
  <2> HIDE DEF w
  <2> QED BY <2>2, <2>3 DEF Vector
<1> HIDE DEF w
<1>5. \A i \in 0 .. W - 1 : Weighted(w, i) = Weighted(v, i)
  <2> SUFFICES ASSUME NEW i \in 0 .. W - 1 PROVE Weighted(w, i) = Weighted(v, i)
    OBVIOUS
  <2>1. i < W /\ i < L /\ W - i \in 1 .. W /\ L - W + (W - i) = L - i
    BY <1>2
  <2>2. Weighted(w, i) = w[W - i] /\ Weighted(v, i) = v[L - i]
    BY <1>2, <1>4, <2>1 DEF Weighted
  <2>3. w[W - i] = v[L - W + (W - i)]
    BY <1>4, <2>1
  <2> QED BY <2>1, <2>2, <2>3
<1>6. ASSUME NEW x PROVE NodeValue(w, x) = (NodeValue(v, x) % 2 ^ W)
  <2>1. PICK low : IsLow(low, v, x, L)
    BY LowExists
  <2>2. PICK part : IsLow(part, w, x, W)
    BY LowExists
  <2>3. PICK up : IsUp(up, v, x) /\ NodeValue(v, x) = up[L]
    BY <1>2, NodeValueIs
  <2>4. NodeValue(w, x) = part[W]
    BY <1>4, <2>2, LowIsValue
  <2> DEFINE S == {i \in 0 .. W : part[i] = low[i]}
  <2>5. 0 \in S
    BY <2>1, <2>2 DEF IsLow
  <2>6. \A i \in 0 .. W - 1 : i \in S => i + 1 \in S
    <3> SUFFICES ASSUME NEW i \in 0 .. W - 1, i \in S PROVE i + 1 \in S
      OBVIOUS
    <3>1. i \in 0 .. L - 1 /\ i + 1 \in 0 .. W
      BY <1>2
    <3>2. low[i + 1] = low[i] + (IF x \in Weighted(v, i) THEN 2 ^ i ELSE 0)
      BY <2>1, <3>1 DEF IsLow
    <3>3. part[i + 1] = part[i] + (IF x \in Weighted(w, i) THEN 2 ^ i ELSE 0)
      BY <2>2, <3>1 DEF IsLow
    <3>4. part[i + 1] = low[i + 1]
      BY <1>5, <3>2, <3>3
    <3> QED BY <3>1, <3>4
  <2>7. 0 .. W \subseteq S
    <3> HIDE DEF S
    <3> QED BY <2>5, <2>6, UpToInduction
  <2>8. part[W] = low[W]
    BY <2>7
  <2>9. PICK p \in Nat \ {0} : p = 2 ^ W
    BY Powers
  <2>10. PICK r \in Nat : r = low[W] /\ r < p
    <3>1. W \in 0 .. L
      BY <1>2
    <3>2. low[W] \in 0 .. 2 ^ W - 1
      BY <2>1, <3>1, LowBelow
    <3> QED BY <2>9, <3>2
  <2>11. W \in 0 .. Len(v) /\ L - W \in 0 .. L /\ L >= Len(v)
    BY <1>2
  <2>12. PICK u \in Nat : u = up[L - W]
    BY <1>2, <2>3, <2>11 DEF IsUp
  <2>13. up[L] = p * u + r
    <3>1. up[Len(v)] = 2 ^ W * up[Len(v) - W] + low[W]
      BY <2>1, <2>3, <2>11, Halves
    <3> QED BY <1>2, <2>9, <2>10, <2>12, <3>1
  <2>14. ((p * u + r) % p) = r
    <3>1. u \in Int /\ r \in 0 .. p - 1
      BY <2>10
    <3> QED BY <3>1, RestOfMultiple
  <2>15. NodeValue(w, x) = r /\ NodeValue(v, x) = p * u + r
    BY <2>3, <2>4, <2>8, <2>10, <2>13
  <2> QED BY <2>9, <2>14, <2>15
<1> QED BY <1>1, <1>4, <1>6 DEF w

-----------------------------------------------------------------------------
(* The expression: sums over the groups found, and over the variables.     *)

Group == [var : Seq(PI), relation : {"ADD", "SUBTRACT"}, ratio : Nat]

\* The value of a variable is a natural number.
LEMMA VarValueType ==
  ASSUME NEW var \in Seq(PI), NEW x \in Point
  PROVE  VarValue(var, x) \in Nat
<1>1. Inputs(var) \in Vector /\ VarValue(var, x) = NodeValue(Inputs(var), x)
  BY VarValueIs
<1>2. PICK p \in Nat : p = 2 ^ Len(Inputs(var))
  <2>1. Len(Inputs(var)) \in Nat
    BY <1>1 DEF Vector
  <2> QED BY <2>1, Powers
<1> QED BY <1>1, <1>2, NodeValueBelow

\* What a group adds is an integer.
LEMMA TermType ==
  ASSUME NEW g \in Group, NEW x \in Point
  PROVE  Term(g, x) \in Int
<1>1. PICK v \in Nat, r \in Nat : v = VarValue(g.var, x) /\ r = g.ratio
  BY VarValueType DEF Group
<1>2. v * r \in Int /\ -(v * r) \in Int
  OBVIOUS
<1> QED BY <1>1, <1>2 DEF Term

\* The constant and the first n groups of gs.
SumOf(gs, c, n, x) ==
  LET up[i \in 0 .. Len(gs)] == IF i = 0 THEN c ELSE up[i - 1] + Term(gs[i], x)
  IN  up[n]

\* Each group adds its term.
LEMMA SumOfIs ==
  ASSUME NEW gs \in Seq(Group), NEW c \in Int, NEW x \in Point
  PROVE  /\ \A n \in 0 .. Len(gs) : SumOf(gs, c, n, x) \in Int
         /\ SumOf(gs, c, 0, x) = c
         /\ \A n \in 1 .. Len(gs) :
              SumOf(gs, c, n, x) = SumOf(gs, c, n - 1, x) + Term(gs[n], x)
<1> DEFINE L == Len(gs)
           part(n) == Term(gs[n], x)
           step == [n \in 1 .. L |-> [d \in Int |-> d + part(n)]]
           F(f) == [n \in 0 .. L |-> IF n = 0 THEN c ELSE f[n - 1] + part(n)]
<1>1. L \in Nat /\ c \in Int
  OBVIOUS
<1>2. \A n \in 1 .. L : part(n) \in Int
  BY TermType
<1> HIDE DEF part
<1>3. step \in [1 .. L -> [Int -> Int]]
  BY <1>2
<1>4. PICK f : Recursive(Int, step, c, L, f)
  <2> HIDE DEF step, L
  <2> QED BY <1>1, <1>3, Recursion
<1>5. /\ f \in [0 .. L -> Int] /\ f[0] = c
      /\ \A n \in 1 .. L : f[n] = step[n][f[n - 1]]
  BY <1>4 DEF Recursive
<1>6. \A n \in 1 .. L : n - 1 \in 0 .. L /\ f[n] = f[n - 1] + part(n)
  <2>1. \A n \in 1 .. L : n - 1 \in 0 .. L /\ f[n - 1] \in Int
    <3> HIDE DEF L, step, F
    <3> QED BY <1>1, <1>5
  <2> QED BY <1>5, <2>1
<1>7. f = F(f)
  <2>1. \A n \in 0 .. L : f[n] = F(f)[n]
    BY <1>1, <1>5, <1>6
  <2>2. DOMAIN F(f) = 0 .. L /\ DOMAIN f = 0 .. L
    BY <1>5
  <2> QED BY <1>5, <2>1, <2>2
<1>8. PICK g : g = (CHOOSE h : h = F(h))
  OBVIOUS
<1>9. g = F(g)
  <2> HIDE DEF F
  <2> QED BY <1>7, <1>8
<1>10. \A n : SumOf(gs, c, n, x) = g[n]
  BY <1>8 DEF part, SumOf
<1>11. g[0] = c /\ \A n \in 1 .. L : g[n] = g[n - 1] + part(n)
  <2> HIDE DEF L
  <2> QED BY <1>1, <1>9
<1> DEFINE S == {n \in 0 .. L : g[n] \in Int}
<1>12. 0 \in S
  BY <1>1, <1>11
<1>13. \A n \in 0 .. L - 1 : n \in S => n + 1 \in S
  <2> SUFFICES ASSUME NEW n \in 0 .. L - 1, n \in S PROVE n + 1 \in S
    OBVIOUS
  <2>1. n + 1 \in 1 .. L /\ (n + 1) - 1 = n /\ n + 1 \in 0 .. L
    BY <1>1
  <2>2. g[n + 1] = g[n] + part(n + 1) /\ part(n + 1) \in Int
    BY <1>2, <1>11, <2>1
  <2> QED BY <2>1, <2>2
<1>14. 0 .. L \subseteq S
  <2> HIDE DEF S, L
  <2> QED BY <1>1, <1>12, <1>13, UpToInduction
<1> HIDE DEF L
<1> QED BY <1>10, <1>11, <1>14 DEF L, part

\* A group that is appended adds its term to the sum.
LEMMA SumOfAppend ==
  ASSUME NEW gs \in Seq(Group), NEW c \in Int, NEW x \in Point, NEW g \in Group
  PROVE  SumOf(Append(gs, g), c, Len(gs) + 1, x) = SumOf(gs, c, Len(gs), x) + Term(g, x)
<1> DEFINE hs == Append(gs, g)
<1>1. PICK L \in Nat : L = Len(gs)
  OBVIOUS
<1>2. /\ hs \in Seq(Group) /\ Len(hs) = L + 1 /\ hs[L + 1] = g
      /\ \A n \in 1 .. L : hs[n] = gs[n]
  BY <1>1
<1> HIDE DEF hs
<1> DEFINE a(n) == SumOf(gs, c, n, x)
           b(n) == SumOf(hs, c, n, x)
           S == {n \in 0 .. L : a(n) = b(n)}
<1>3. a(0) = c /\ \A n \in 1 .. L : a(n) = a(n - 1) + Term(gs[n], x)
  BY <1>1, SumOfIs
<1>4. b(0) = c /\ \A n \in 1 .. L + 1 : b(n) = b(n - 1) + Term(hs[n], x)
  <2>1. hs \in Seq(Group) /\ Len(hs) = L + 1
    BY <1>2
  <2>2. b(0) = c /\ \A n \in 1 .. Len(hs) : b(n) = b(n - 1) + Term(hs[n], x)
    BY <2>1, SumOfIs
  <2> HIDE DEF b
  <2> QED BY <2>1, <2>2
<1> HIDE DEF a, b
<1>5. 0 \in S
  BY <1>3, <1>4
<1>6. \A n \in 0 .. L - 1 : n \in S => n + 1 \in S
  <2> SUFFICES ASSUME NEW n \in 0 .. L - 1, n \in S PROVE n + 1 \in S
    OBVIOUS
  <2>1. n + 1 \in 1 .. L /\ n + 1 \in 1 .. L + 1 /\ (n + 1) - 1 = n /\ n + 1 \in 0 .. L
    OBVIOUS
  <2>2. a(n + 1) = a(n) + Term(gs[n + 1], x)
    BY <1>3, <2>1
  <2>3. b(n + 1) = b(n) + Term(hs[n + 1], x)
    BY <1>4, <2>1
  <2> QED BY <1>2, <2>1, <2>2, <2>3
<1>7. 0 .. L \subseteq S
  <2> HIDE DEF S
  <2> QED BY <1>5, <1>6, UpToInduction
<1>8. a(L) = b(L)
  BY <1>7
<1>9. b(L + 1) = b(L) + Term(g, x)
  <2>1. L + 1 \in 1 .. L + 1 /\ (L + 1) - 1 = L
    OBVIOUS
  <2> QED BY <1>2, <1>4, <2>1
<1> QED BY <1>1, <1>8, <1>9 DEF a, b, hs

\* The ratio of a variable, and what the first n variables add, for a black box orc
\* with the constant c and an output of w bits.
RatioOf(var, orc, c, w) == (orc[Unit(var)] - c) % 2 ^ w
TargetOf(vs, orc, c, w, n, x) ==
  LET up[i \in 0 .. Len(vs)] ==
        IF i = 0 THEN 0
        ELSE up[i - 1] + VarValue(vs[i], x) * RatioOf(vs[i], orc, c, w)
  IN  up[n]

\* A ratio is in the range of the output.
LEMMA RatioType ==
  ASSUME NEW var, NEW w \in Nat, NEW c \in Int, NEW orc \in [Point -> 0 .. 2 ^ w - 1]
  PROVE  RatioOf(var, orc, c, w) \in 0 .. 2 ^ w - 1
<1>1. Unit(var) \in Point
  BY DEF Unit, Point, Bit
<1>2. PICK p \in Nat \ {0} : p = 2 ^ w
  BY Powers
<1>3. PICK d \in Int : d = orc[Unit(var)] - c
  BY <1>1, <1>2
<1>4. (d % p) \in 0 .. p - 1
  OBVIOUS
<1> QED BY <1>2, <1>3, <1>4 DEF RatioOf

\* Each variable adds its multiple.
LEMMA TargetOfIs ==
  ASSUME NEW vs \in Seq(Seq(PI)), NEW w \in Nat, NEW orc \in [Point -> 0 .. 2 ^ w - 1],
         NEW c \in Int, NEW x \in Point
  PROVE  /\ \A n \in 0 .. Len(vs) : TargetOf(vs, orc, c, w, n, x) \in Int
         /\ TargetOf(vs, orc, c, w, 0, x) = 0
         /\ \A n \in 1 .. Len(vs) :
              TargetOf(vs, orc, c, w, n, x) = TargetOf(vs, orc, c, w, n - 1, x)
                + VarValue(vs[n], x) * RatioOf(vs[n], orc, c, w)
<1> DEFINE L == Len(vs)
           part(n) == VarValue(vs[n], x) * RatioOf(vs[n], orc, c, w)
           step == [n \in 1 .. L |-> [d \in Int |-> d + part(n)]]
           F(f) == [n \in 0 .. L |-> IF n = 0 THEN 0 ELSE f[n - 1] + part(n)]
<1>1. L \in Nat /\ 0 \in Int
  OBVIOUS
<1>2. \A n \in 1 .. L : part(n) \in Int
  <2> SUFFICES ASSUME NEW n \in 1 .. L
               PROVE  VarValue(vs[n], x) * RatioOf(vs[n], orc, c, w) \in Int
    OBVIOUS
  <2>1. PICK p \in Nat : p = 2 ^ w
    BY Powers
  <2>2. VarValue(vs[n], x) \in Nat
    <3>1. vs[n] \in Seq(PI)
      OBVIOUS
    <3> QED BY <3>1, VarValueType
  <2>3. RatioOf(vs[n], orc, c, w) \in 0 .. p - 1
    BY <2>1, RatioType
  <2>4. PICK v \in Nat, r \in Nat : v = VarValue(vs[n], x) /\ r = RatioOf(vs[n], orc, c, w)
    BY <2>2, <2>3
  <2> QED BY <2>4
<1> HIDE DEF part
<1>3. step \in [1 .. L -> [Int -> Int]]
  BY <1>2
<1>4. PICK f : Recursive(Int, step, 0, L, f)
  <2> HIDE DEF step, L
  <2> QED BY <1>1, <1>3, Recursion
<1>5. /\ f \in [0 .. L -> Int] /\ f[0] = 0
      /\ \A n \in 1 .. L : f[n] = step[n][f[n - 1]]
  BY <1>4 DEF Recursive
<1>6. \A n \in 1 .. L : n - 1 \in 0 .. L /\ f[n] = f[n - 1] + part(n)
  <2>1. \A n \in 1 .. L : n - 1 \in 0 .. L /\ f[n - 1] \in Int
    <3> HIDE DEF L, step, F
    <3> QED BY <1>1, <1>5
  <2> QED BY <1>5, <2>1
<1>7. f = F(f)
  <2>1. \A n \in 0 .. L : f[n] = F(f)[n]
    BY <1>1, <1>5, <1>6
  <2>2. DOMAIN F(f) = 0 .. L /\ DOMAIN f = 0 .. L
    BY <1>5
  <2> QED BY <1>5, <2>1, <2>2
<1>8. PICK g : g = (CHOOSE h : h = F(h))
  OBVIOUS
<1>9. g = F(g)
  <2> HIDE DEF F
  <2> QED BY <1>7, <1>8
<1>10. \A n : TargetOf(vs, orc, c, w, n, x) = g[n]
  BY <1>8 DEF part, TargetOf
<1>11. g[0] = 0 /\ \A n \in 1 .. L : g[n] = g[n - 1] + part(n)
  <2> HIDE DEF L
  <2> QED BY <1>1, <1>9
<1> DEFINE S == {n \in 0 .. L : g[n] \in Int}
<1>12. 0 \in S
  BY <1>1, <1>11
<1>13. \A n \in 0 .. L - 1 : n \in S => n + 1 \in S
  <2> SUFFICES ASSUME NEW n \in 0 .. L - 1, n \in S PROVE n + 1 \in S
    OBVIOUS
  <2>1. n + 1 \in 1 .. L /\ (n + 1) - 1 = n /\ n + 1 \in 0 .. L
    BY <1>1
  <2>2. g[n + 1] = g[n] + part(n + 1) /\ part(n + 1) \in Int
    BY <1>2, <1>11, <2>1
  <2> QED BY <2>1, <2>2
<1>14. 0 .. L \subseteq S
  <2> HIDE DEF S, L
  <2> QED BY <1>1, <1>12, <1>13, UpToInduction
<1> HIDE DEF L
<1> QED BY <1>10, <1>11, <1>14 DEF L, part

-----------------------------------------------------------------------------
(* The inductive invariant.                                                *)

\* What is known in each phase of the loop index and of the black box.
Phases ==
  /\ pc = "parse" => in_vars = <<>> /\ groups = <<>> /\ at = 1
  /\ pc \in {"find", "build"} => oracle \in [Point -> Value] /\ OutWidth >= 1
  /\ pc = "find" => at \in 1 .. Len(in_vars) + 1
  /\ pc = "build" => at \in 1 .. Len(groups) + 1

\* No input is in two variables.
Distinct ==
  \A m, n \in DOMAIN in_vars : m # n =>
    \A i \in DOMAIN in_vars[m], j \in DOMAIN in_vars[n] : in_vars[m][i] # in_vars[n][j]

\* The vector built so far is the sum of the groups before at, modulo the output.
BuiltSoFar ==
  pc = "build" =>
    \A x \in Point : (NodeValue(v_obj, x) % Mod) = (SumOf(groups, k, at - 1, x) % Mod)

\* If the black box is a sum, the groups found so far add what the variables before at
\* add, and all groups together what the black box answers.
FoundSoFar ==
  pc = "find" /\ Additive =>
    \A x \in Point : (SumOf(groups, k, Len(groups), x) % Mod) =
                       ((k + TargetOf(in_vars, oracle, k, OutWidth, at - 1, x)) % Mod)
FoundAll ==
  in_vars # <<>> /\ pc \in {"build", "done"} /\ Additive =>
    \A x \in Point : (SumOf(groups, k, Len(groups), x) % Mod) = oracle[x]

IInv ==
  /\ box \in Boxes /\ TypeOK /\ WideEnough /\ CircuitIsSum
  /\ Phases /\ Distinct /\ BuiltSoFar /\ FoundSoFar /\ FoundAll

-----------------------------------------------------------------------------
(* What the parser finds.                                                  *)

\* There are finitely many variables.
LEMMA VarNamesFinite ==
  ASSUME NEW names, IsFiniteSet(DOMAIN names), NEW del
  PROVE  IsFiniteSet(VarNames(names, del))
<1> DEFINE D == DOMAIN names
           f == [i \in D |-> VarName(Trim(names[i], del))]
           T == VarNames(names, del)
<1>1. T = {f[i] : i \in D}
  BY DEF VarNames
<1>2. f \in Surjection(D, T)
  <2>1. f \in [D -> T]
    BY <1>1
  <2>2. \A t \in T : \E i \in D : f[i] = t
    BY <1>1
  <2> HIDE DEF f, D, T
  <2> QED BY <2>1, <2>2 DEF Surjection
<1>3. IsFiniteSet(T)
  <2> HIDE DEF f, T
  <2> QED BY <1>2, FS_Surjection
<1> QED BY <1>3

\* A variable is a sequence of positions of names, and no position is in two of them.
LEMMA VariablesType ==
  ASSUME NEW names, IsFiniteSet(DOMAIN names), NEW del, NEW f \in Variables(names, del)
  PROVE  /\ IsFiniteSet(DOMAIN f)
         /\ \A v \in DOMAIN f : f[v] \in Seq(DOMAIN names)
         /\ \A v, w \in DOMAIN f : v # w =>
              \A i \in DOMAIN f[v], j \in DOMAIN f[w] : f[v][i] # f[w][j]
<1> DEFINE D == DOMAIN names
<1>1. DOMAIN f = VarNames(names, del) /\ \A v \in DOMAIN f : f[v] \in Sorted(names, del, v)
  BY DEF Variables
<1>2. IsFiniteSet(DOMAIN f)
  BY <1>1, VarNamesFinite
<1>3. \A v : Members(names, del, v) \subseteq D
  BY DEF Members
<1>4. ASSUME NEW v \in DOMAIN f
      PROVE  /\ f[v] \in Seq(D)
             /\ \A i \in DOMAIN f[v] : f[v][i] \in Members(names, del, v)
  <2>1. PICK n : n = Cardinality(Members(names, del, v))
    OBVIOUS
  <2>2. n \in Nat
    <3>1. IsFiniteSet(Members(names, del, v))
      BY <1>3, FS_Subset
    <3> QED BY <2>1, <3>1, FS_CardinalityType
  <2>3. PICK M : M = Members(names, del, v)
    OBVIOUS
  <2>4. f[v] \in [1 .. n -> M]
    BY <1>1, <2>1, <2>3 DEF Sorted
  <2>5. M \subseteq D
    BY <1>3, <2>3
  <2>6. f[v] \in Seq(D)
    BY <2>2, <2>4, <2>5
  <2> QED BY <2>3, <2>4, <2>6
<1>5. ASSUME NEW v \in DOMAIN f, NEW w \in DOMAIN f, v # w,
             NEW i \in DOMAIN f[v], NEW j \in DOMAIN f[w]
      PROVE  f[v][i] # f[w][j]
  <2>1. f[v][i] \in Members(names, del, v) /\ f[w][j] \in Members(names, del, w)
    BY <1>4
  <2> QED BY <1>5, <2>1 DEF Members
<1> QED BY <1>2, <1>4, <1>5

-----------------------------------------------------------------------------
(* The steps.                                                              *)

\* Sum adds all of the groups.
LEMMA SumIs ==
  \A x : Sum(x) = SumOf(groups, k, Len(groups), x)
BY DEF Sum, SumOf

\* Additive speaks of all of the variables.
LEMMA AdditiveIs ==
  Additive <=>
    \A x \in Point :
      oracle[x] = (k + TargetOf(in_vars, oracle, k, OutWidth, Len(in_vars), x)) % Mod
BY DEF Additive, TargetOf, Ratio, RatioOf, Minus, Mod

\* A group is one of Group, whatever the width of the output.
LEMMA GroupsType ==
  ASSUME TypeOK, OutWidth \in Nat
  PROVE  groups \in Seq(Group)
<1>1. PICK p \in Nat : p = 2 ^ OutWidth
  BY Powers
<1>2. Value \subseteq Nat
  BY <1>1 DEF Value
<1>3. PICK G : G = [var : Seq(PI), relation : {"ADD", "SUBTRACT"}, ratio : Value \ {0}]
  OBVIOUS
<1>4. G \subseteq Group
  <2> SUFFICES ASSUME NEW g \in G PROVE g \in Group
    OBVIOUS
  <2>1. /\ g = [var |-> g.var, relation |-> g.relation, ratio |-> g.ratio]
        /\ g.var \in Seq(PI) /\ g.relation \in {"ADD", "SUBTRACT"} /\ g.ratio \in Value
    BY <1>3
  <2> QED BY <1>2, <2>1 DEF Group
<1>5. groups \in Seq(G)
  BY <1>3 DEF TypeOK
<1> QED BY <1>4, <1>5

\* Nothing is found at first.
LEMMA InitIInv == Init => IInv
<1> SUFFICES ASSUME Init PROVE IInv
  OBVIOUS
<1> USE DEF Init
<1>1. box \in Boxes /\ box.on \in [PO -> OnSet]
  BY ArithmeticAssumption
<1>2. OutWidth = 0 /\ Value = {0}
  <2>1. OutWidth = 0
    BY DEF OutWidth
  <2> QED BY <2>1, Powers DEF Value
<1>3. TypeOK
  <2>1. <<>> \in Vector
    BY NoBits
  <2> QED BY <1>1, <1>2, <2>1 DEF TypeOK
<1> QED BY <1>1, <1>3 DEF IInv, WideEnough, CircuitIsSum, Phases, Distinct, BuiltSoFar,
             FoundSoFar, FoundAll

\* The vector of the functions of an output variable.
LEMMA OracleType ==
  ASSUME NEW on \in [PO -> OnSet], NEW var \in Seq(PO)
  PROVE  [x \in Point |-> NodeValue([n \in DOMAIN var |-> on[var[n]]], x)]
           \in [Point -> 0 .. 2 ^ Len(var) - 1]
<1> DEFINE v == [n \in DOMAIN var |-> on[var[n]]]
<1>1. v \in Vector /\ Len(v) = Len(var)
  BY DEF Vector
<1>2. \A x \in Point : NodeValue(v, x) \in 0 .. 2 ^ Len(var) - 1
  <2> HIDE DEF v
  <2> QED BY <1>1, NodeValueBelow
<1> QED BY <1>2

\* What main picks are variables over disjoint inputs, and nothing is found of them.
LEMMA FindVarsKeeps ==
  ASSUME IInv, FindVars
  PROVE  IInv'
<1>1. PICK ins \in Variables(box.PI_name, PI_del), outs \in Variables(box.PO_name, PO_del) :
        IF Grouped(ins) = {} \/ OutputVars(ins, outs) = {}
        THEN /\ pc' = "done"
             /\ UNCHANGED <<in_vars, out_var, oracle, k>>
        ELSE \E s \in InOrder(Longest(ins)), w \in OutputVars(ins, outs) :
               /\ in_vars' = [n \in DOMAIN s |-> ins[s[n]]]
               /\ out_var' = outs[w]
               /\ oracle' = [x \in Point |-> NodeValue([n \in DOMAIN out_var' |->
                                                           box.on[out_var'[n]]], x)]
               /\ k' = oracle'[Corner(AllFree, "0")]
               /\ pc' = "find"
  BY DEF FindVars
<1>2. /\ pc = "parse" /\ in_vars = <<>> /\ groups = <<>> /\ at = 1
      /\ UNCHANGED <<box, at, groups, v_obj>>
  BY DEF FindVars, IInv, Phases
<1>3. box \in Boxes /\ TypeOK
  BY DEF IInv
<1>4. /\ box.PI_name \in [PI -> Name] /\ box.PO_name \in [PO -> Name]
      /\ box.on \in [PO -> OnSet]
  BY <1>3, ArithmeticAssumption
<1>5. IsFiniteSet(PI) /\ IsFiniteSet(PO)
  <2>1. 0 \in Int /\ NumPI - 1 \in Int /\ NumPO - 1 \in Int
    BY NumPIAssumption, ArithmeticAssumption
  <2> QED BY <2>1, FS_Interval DEF PI, PO
<1>6. CASE Grouped(ins) = {} \/ OutputVars(ins, outs) = {}
  <2>1. pc' = "done" /\ UNCHANGED <<in_vars, out_var, oracle, k>>
    BY <1>1, <1>6
  <2>2. TypeOK'
    BY <1>2, <1>3, <2>1 DEF TypeOK, Value, Mod, OutWidth
  <2> QED
    BY <1>2, <1>3, <2>1, <2>2
    DEF IInv, WideEnough, CircuitIsSum, Phases, Distinct, BuiltSoFar, FoundSoFar, FoundAll
<1>7. CASE ~ (Grouped(ins) = {} \/ OutputVars(ins, outs) = {})
  <2>1. PICK s \in InOrder(Longest(ins)), w \in OutputVars(ins, outs) :
          /\ in_vars' = [n \in DOMAIN s |-> ins[s[n]]]
          /\ out_var' = outs[w]
          /\ oracle' = [x \in Point |-> NodeValue([n \in DOMAIN out_var' |->
                                                      box.on[out_var'[n]]], x)]
          /\ k' = oracle'[Corner(AllFree, "0")]
          /\ pc' = "find"
    BY <1>1, <1>7
  <2>2. /\ IsFiniteSet(DOMAIN ins)
        /\ \A v \in DOMAIN ins : ins[v] \in Seq(PI)
        /\ \A v, u \in DOMAIN ins : v # u =>
             \A i \in DOMAIN ins[v], j \in DOMAIN ins[u] : ins[v][i] # ins[u][j]
    <3>1. DOMAIN box.PI_name = PI
      BY <1>4
    <3> QED BY <1>5, <3>1, VariablesType
  <2>3. w \in DOMAIN outs /\ outs[w] \in Seq(PO)
    <3>1. DOMAIN box.PO_name = PO
      BY <1>4
    <3>2. \A v \in DOMAIN outs : outs[v] \in Seq(PO)
      BY <1>5, <3>1, VariablesType
    <3> QED BY <3>2 DEF OutputVars
  <2>4. PICK N \in Nat : /\ s \in [1 .. N -> DOMAIN ins]
                         /\ \A m, n \in 1 .. N : m # n => s[m] # s[n]
    <3>1. Longest(ins) \subseteq DOMAIN ins
      BY DEF Longest, Grouped
    <3>2. IsFiniteSet(Longest(ins))
      BY <2>2, <3>1, FS_Subset
    <3>3. PICK N \in Nat : N = Cardinality(Longest(ins))
      BY <3>2, FS_CardinalityType
    <3>4. PICK V : V = Longest(ins)
      OBVIOUS
    <3>5. s \in [1 .. N -> V] /\ \A m, n \in DOMAIN s : m # n => s[m] # s[n]
      BY <3>3, <3>4 DEF InOrder
    <3>6. s \in [1 .. N -> DOMAIN ins] /\ DOMAIN s = 1 .. N
      BY <3>1, <3>4, <3>5
    <3> QED BY <3>5, <3>6
  <2>5. /\ in_vars' = [n \in 1 .. N |-> ins[s[n]]]
        /\ in_vars' \in Seq(Seq(PI)) /\ Len(in_vars') = N
    <3>1. in_vars' = [n \in 1 .. N |-> ins[s[n]]]
      BY <2>1, <2>4
    <3>2. \A n \in 1 .. N : ins[s[n]] \in Seq(PI)
      BY <2>2, <2>4
    <3> QED BY <3>1, <3>2
  <2>6. out_var' \in Seq(PO) /\ OutWidth' = Len(out_var') /\ OutWidth' \in Nat
    <3>1. out_var' \in Seq(PO)
      BY <2>1, <2>3
    <3>2. Len(out_var') \in Nat
      BY <3>1
    <3> QED BY <3>1, <3>2 DEF OutWidth
  <2>7. oracle' \in [Point -> Value']
    <3>1. oracle' \in [Point -> 0 .. 2 ^ Len(out_var') - 1]
      BY <1>4, <2>1, <2>6, OracleType
    <3> QED BY <2>6, <3>1 DEF Value
  <2>8. k' \in Value' /\ k' \in Int
    <3>1. Corner(AllFree, "0") \in Point
      BY DEF Corner, AllFree, Point, Bit
    <3>2. k' \in Value'
      BY <2>1, <2>7, <3>1
    <3>3. PICK p \in Nat : p = 2 ^ OutWidth'
      BY <2>6, Powers
    <3> QED BY <3>2, <3>3 DEF Value
  <2>9. OutWidth' >= 1
    <3>1. PICK v \in Grouped(ins) : TRUE
      BY <1>7
    <3>2. v \in DOMAIN ins /\ Len(ins[v]) >= MinLiterals
      BY DEF Grouped
    <3>3. Len(ins[v]) \in Nat
      BY <2>2, <3>2
    <3>4. Len(outs[w]) >= Len(ins[v])
      BY DEF OutputVars
    <3> QED BY <2>1, <2>6, <3>2, <3>3, <3>4, ArithmeticAssumption
  <2>10. TypeOK'
    BY <1>2, <1>3, <2>1, <2>5, <2>6, <2>7, <2>8 DEF TypeOK
  <2>11. Phases'
    BY <1>2, <2>1, <2>5, <2>7, <2>9 DEF Phases
  <2>12. Distinct'
    <3>1. DOMAIN in_vars' = 1 .. N /\ \A m \in 1 .. N : in_vars'[m] = ins[s[m]]
      BY <2>5
    <3>2. \A m, n \in 1 .. N : m # n =>
            /\ s[m] \in DOMAIN ins /\ s[n] \in DOMAIN ins /\ s[m] # s[n]
      BY <2>4
    <3>3. \A m, n \in 1 .. N : m # n =>
            \A i \in DOMAIN ins[s[m]], j \in DOMAIN ins[s[n]] : ins[s[m]][i] # ins[s[n]][j]
      BY <2>2, <3>2
    <3>4. \A m, n \in DOMAIN in_vars' : m # n =>
            \A i \in DOMAIN in_vars'[m], j \in DOMAIN in_vars'[n] :
              in_vars'[m][i] # in_vars'[n][j]
      <4>1. PICK V : V = in_vars'
        OBVIOUS
      <4> SUFFICES ASSUME NEW m \in 1 .. N, NEW n \in 1 .. N, m # n,
                          NEW i \in DOMAIN V[m], NEW j \in DOMAIN V[n]
                   PROVE  V[m][i] # V[n][j]
        BY <3>1, <4>1
      <4>2. V[m] = ins[s[m]] /\ V[n] = ins[s[n]]
        BY <3>1, <4>1
      <4> QED BY <3>3, <4>2
    <3> QED BY <3>4 DEF Distinct
  <2>13. FoundSoFar'
    <3> SUFFICES ASSUME NEW x \in Point
                 PROVE  /\ SumOf(groups', k', Len(groups'), x) = k'
                        /\ k' + TargetOf(in_vars', oracle', k', OutWidth', at' - 1, x) = k'
      BY DEF FoundSoFar, Mod
    <3>1. groups' = <<>> /\ Len(groups') = 0 /\ groups' \in Seq(Group)
      BY <1>2
    <3>2. SumOf(groups', k', 0, x) = k'
      BY <2>8, <3>1, SumOfIs
    <3>3. oracle' \in [Point -> 0 .. 2 ^ OutWidth' - 1]
      BY <2>7 DEF Value
    <3>4. TargetOf(in_vars', oracle', k', OutWidth', 0, x) = 0
      <4>1. PICK W \in Nat : W = OutWidth'
        BY <2>5, <2>6, <2>8
      <4>2. PICK vs \in Seq(Seq(PI)), orc \in [Point -> 0 .. 2 ^ W - 1], c \in Int :
              vs = in_vars' /\ orc = oracle' /\ c = k'
        BY <2>5, <2>6, <2>8, <3>3, <4>1
      <4>3. TargetOf(vs, orc, c, W, 0, x) = 0
        BY TargetOfIs
      <4> QED BY <4>1, <4>2, <4>3, Zenon
    <3>5. at' - 1 = 0
      BY <1>2
    <3> QED BY <2>8, <3>1, <3>2, <3>4, <3>5
  <2> QED
    BY <1>2, <1>3, <2>1, <2>10, <2>11, <2>12, <2>13
    DEF IInv, WideEnough, CircuitIsSum, BuiltSoFar, FoundAll
<1> QED BY <1>6, <1>7

\* Half the range of ratios is taken for negative, and adds the same modulo the output.
LEMMA SignedRatioIs ==
  ASSUME OutWidth \in Nat, OutWidth >= 1, NEW var \in Seq(PI), NEW r \in 1 .. Mod - 1
  PROVE  /\ SignedRatio(var, r) \in [var : Seq(PI), relation : {"ADD", "SUBTRACT"},
                                     ratio : Value \ {0}]
         /\ SignedRatio(var, r) \in Group
         /\ 2 * SignedRatio(var, r).ratio <= Mod
         /\ \A x \in Point : Same(Term(SignedRatio(var, r), x), VarValue(var, x) * r, Mod)
<1>1. PICK p \in Nat \ {0} : p = 2 ^ (OutWidth - 1) /\ 2 ^ OutWidth = 2 * p
  <2>1. OutWidth - 1 \in Nat /\ (OutWidth - 1) + 1 = OutWidth
    OBVIOUS
  <2> QED BY <2>1, Powers
<1>2. Mod = 2 * p /\ Value = 0 .. 2 * p - 1
  BY <1>1 DEF Mod, Value
<1>3. r \in 1 .. 2 * p - 1 /\ r \in Nat /\ 2 * p - r \in 1 .. 2 * p - 1 /\ 2 * p - r \in Nat
  BY <1>2
<1>4. CASE r >= p
  <2> DEFINE g == [var |-> var, relation |-> "SUBTRACT", ratio |-> 2 * p - r]
  <2>1. SignedRatio(var, r) = g
    BY <1>1, <1>2, <1>4 DEF SignedRatio
  <2>2. /\ 2 * p - r \in Value \ {0} /\ 2 * (2 * p - r) <= Mod
    BY <1>2, <1>3, <1>4
  <2>3. ASSUME NEW x \in Point PROVE Same(Term(g, x), VarValue(var, x) * r, Mod)
    <3>1. PICK v \in Nat : v = VarValue(var, x)
      BY VarValueType
    <3>2. Term(g, x) = -(v * (2 * p - r))
      BY <3>1 DEF Term
    <3>3. PICK m \in Nat, e \in Int : m = 2 * p /\ e = -v
      OBVIOUS
    <3>4. -(v * (m - r)) = v * r + e * m
      <4>1. v * (m - r) = v * m - v * r /\ (-v) * m = -(v * m)
        OBVIOUS
      <4> QED BY <3>3, <4>1
    <3> QED BY <1>2, <3>1, <3>2, <3>3, <3>4 DEF Same
  <2> QED BY <1>3, <2>1, <2>2, <2>3 DEF Group
<1>5. CASE ~ (r >= p)
  <2> DEFINE g == [var |-> var, relation |-> "ADD", ratio |-> r]
  <2>1. SignedRatio(var, r) = g
    BY <1>1, <1>2, <1>5 DEF SignedRatio
  <2>2. /\ r \in Value \ {0} /\ 2 * r <= Mod
    BY <1>2, <1>3, <1>5
  <2>3. ASSUME NEW x \in Point PROVE Same(Term(g, x), VarValue(var, x) * r, Mod)
    <3>1. PICK v \in Nat : v = VarValue(var, x)
      BY VarValueType
    <3>2. Term(g, x) = v * r /\ v * r \in Int
      BY <1>3, <3>1 DEF Term
    <3>3. Mod \in Int
      BY <1>2
    <3> QED BY <3>1, <3>2, <3>3, SameSelf
  <2> QED BY <1>3, <2>1, <2>2, <2>3 DEF Group
<1> QED BY <1>4, <1>5

\* A variable without a bit that is 1 has the value 0.
LEMMA ZeroValue ==
  ASSUME NEW var \in Seq(PI), NEW x \in Point, \A n \in DOMAIN var : x[var[n]] # "1"
  PROVE  VarValue(var, x) = 0
<1> DEFINE v == Inputs(var)
           f == [n \in 0 .. Len(var) |-> 0]
<1>1. v \in Vector /\ Len(v) = Len(var) /\ VarValue(var, x) = NodeValue(v, x)
  BY VarValueIs
<1>2. \A n \in 1 .. Len(var) : Digit(v[n], x) = 0
  BY DEF Inputs, On, Digit
<1>3. Len(var) \in Nat
  OBVIOUS
<1> HIDE DEF v
<1>4. \A n \in 1 .. Len(var) : f[n] = 2 * f[n - 1] + Digit(v[n], x)
  BY <1>2, <1>3
<1>5. f \in [0 .. Len(var) -> Nat] /\ f[0] = 0 /\ f[Len(var)] = 0
  BY <1>3
<1>6. IsUp(f, v, x)
  <2> HIDE DEF f
  <2> QED BY <1>1, <1>4, <1>5 DEF IsUp
<1>7. NodeValue(v, x) = f[Len(v)]
  <2> HIDE DEF f
  <2> QED BY <1>1, <1>6, UpIsValue
<1> QED BY <1>1, <1>5, <1>7

\* Where only the bits of one variable are drawn, the others add nothing.
LEMMA AloneTarget ==
  ASSUME NEW vs \in Seq(Seq(PI)), NEW w \in Nat, NEW orc \in [Point -> 0 .. 2 ^ w - 1],
         NEW c \in Int, NEW m \in 1 .. Len(vs), NEW x \in Alone(vs[m]),
         \A l, n \in DOMAIN vs : l # n =>
           \A i \in DOMAIN vs[l], j \in DOMAIN vs[n] : vs[l][i] # vs[n][j]
  PROVE  TargetOf(vs, orc, c, w, Len(vs), x) = VarValue(vs[m], x) * RatioOf(vs[m], orc, c, w)
<1> DEFINE part(n) == VarValue(vs[n], x) * RatioOf(vs[n], orc, c, w)
           t(n) == TargetOf(vs, orc, c, w, n, x)
           S == {n \in 0 .. Len(vs) : t(n) = IF n < m THEN 0 ELSE part(m)}
<1>1. Len(vs) \in Nat /\ DOMAIN vs = 1 .. Len(vs)
  OBVIOUS
<1>2. x \in Point /\ \A i \in PI : x[i] = "1" => \E n \in DOMAIN vs[m] : vs[m][n] = i
  BY DEF Alone
<1>3. ASSUME NEW n \in 1 .. Len(vs), n # m PROVE part(n) = 0
  <2>1. vs[n] \in Seq(PI) /\ n \in DOMAIN vs /\ m \in DOMAIN vs
    BY <1>1
  <2>2. \A i \in DOMAIN vs[n] : x[vs[n][i]] # "1"
    <3> SUFFICES ASSUME NEW i \in DOMAIN vs[n], x[vs[n][i]] = "1" PROVE FALSE
      OBVIOUS
    <3>1. vs[n][i] \in PI
      BY <2>1
    <3>2. PICK j \in DOMAIN vs[m] : vs[m][j] = vs[n][i]
      BY <1>2, <3>1
    <3> QED BY <1>3, <2>1, <3>2
  <2>3. VarValue(vs[n], x) = 0
    BY <1>2, <2>1, <2>2, ZeroValue
  <2>4. PICK r \in Int : r = RatioOf(vs[n], orc, c, w)
    <3>1. PICK p \in Nat : p = 2 ^ w
      BY Powers
    <3>2. RatioOf(vs[n], orc, c, w) \in 0 .. p - 1
      BY <3>1, RatioType
    <3> QED BY <3>2
  <2>5. 0 * r = 0
    OBVIOUS
  <2> QED BY <2>3, <2>4, <2>5
<1>4. /\ \A n \in 0 .. Len(vs) : t(n) \in Int
      /\ t(0) = 0
      /\ \A n \in 1 .. Len(vs) : t(n) = t(n - 1) + part(n)
  <2>1. PICK y \in Point : y = x
    BY <1>2
  <2>2. /\ \A n \in 0 .. Len(vs) : TargetOf(vs, orc, c, w, n, y) \in Int
        /\ TargetOf(vs, orc, c, w, 0, y) = 0
        /\ \A n \in 1 .. Len(vs) :
             TargetOf(vs, orc, c, w, n, y) = TargetOf(vs, orc, c, w, n - 1, y)
               + VarValue(vs[n], y) * RatioOf(vs[n], orc, c, w)
    BY TargetOfIs
  <2> QED BY <2>1, <2>2
<1>5. part(m) \in Int
  <2>1. VarValue(vs[m], x) \in Nat
    <3>1. vs[m] \in Seq(PI)
      BY <1>1
    <3> QED BY <1>2, <3>1, VarValueType
  <2>2. RatioOf(vs[m], orc, c, w) \in Int
    <3>1. PICK p \in Nat : p = 2 ^ w
      BY Powers
    <3> QED BY <3>1, RatioType
  <2>3. PICK v \in Int, r \in Int : v = VarValue(vs[m], x) /\ r = RatioOf(vs[m], orc, c, w)
    BY <2>1, <2>2
  <2> QED BY <2>3
<1> HIDE DEF part, t
<1>6. 0 \in S
  BY <1>1, <1>4
<1>7. \A n \in 0 .. Len(vs) - 1 : n \in S => n + 1 \in S
  <2> SUFFICES ASSUME NEW n \in 0 .. Len(vs) - 1, n \in S PROVE n + 1 \in S
    OBVIOUS
  <2>1. n + 1 \in 1 .. Len(vs) /\ (n + 1) - 1 = n /\ n + 1 \in 0 .. Len(vs)
    BY <1>1
  <2>2. t(n + 1) = t(n) + part(n + 1)
    BY <1>4, <2>1
  <2>3. CASE n + 1 = m
    <3>1. n < m /\ ~ (n + 1 < m) /\ t(n) = 0
      BY <2>3
    <3> QED BY <1>5, <2>1, <2>2, <2>3, <3>1
  <2>4. CASE n + 1 # m
    <3>1. part(n + 1) = 0
      BY <1>3, <2>1, <2>4
    <3>2. n + 1 < m <=> n < m
      BY <2>4
    <3> QED BY <1>5, <2>1, <2>2, <3>1, <3>2
  <2> QED BY <2>3, <2>4
<1>8. 0 .. Len(vs) \subseteq S
  <2> HIDE DEF S
  <2> QED BY <1>1, <1>6, <1>7, UpToInduction
<1>9. t(Len(vs)) = part(m)
  <2>1. Len(vs) \in 0 .. Len(vs) /\ ~ (Len(vs) < m)
    BY <1>1
  <2>2. Len(vs) \in S
    <3> HIDE DEF S
    <3> QED BY <1>8, <2>1
  <2> QED BY <2>1, <2>2
<1> QED BY <1>9 DEF t, part

\* A black box that is a sum is explained by the ratio of each variable, whatever is
\* drawn of it.
LEMMA AdditiveExplains ==
  ASSUME TypeOK, Distinct, Additive, OutWidth \in Nat, oracle \in [Point -> Value],
         NEW m \in 1 .. Len(in_vars), NEW samples \in SUBSET Alone(in_vars[m])
  PROVE  Explains(in_vars[m], samples)
<1>1. PICK M \in Nat \ {0} : M = Mod /\ M = 2 ^ OutWidth
  BY Powers DEF Mod
<1>2. in_vars \in Seq(Seq(PI)) /\ oracle \in [Point -> 0 .. 2 ^ OutWidth - 1] /\ k \in 0 .. M - 1
  BY <1>1 DEF TypeOK, Value
<1> SUFFICES ASSUME NEW x \in samples
             PROVE  Minus(oracle[x], k) = (VarValue(in_vars[m], x) * Ratio(in_vars[m])) % Mod
  BY DEF Explains
<1>3. x \in Point /\ x \in Alone(in_vars[m])
  BY DEF Alone
<1>4. PICK t \in Nat : t = VarValue(in_vars[m], x) * Ratio(in_vars[m])
  <2>1. VarValue(in_vars[m], x) \in Nat
    <3>1. in_vars[m] \in Seq(PI)
      BY <1>2
    <3> QED BY <1>3, <3>1, VarValueType
  <2>2. Ratio(in_vars[m]) = RatioOf(in_vars[m], oracle, k, OutWidth)
    BY DEF Ratio, RatioOf, Minus, Mod
  <2>3. Ratio(in_vars[m]) \in 0 .. M - 1
    BY <1>1, <1>2, <2>2, RatioType
  <2>4. PICK v \in Nat, r \in Nat : v = VarValue(in_vars[m], x) /\ r = Ratio(in_vars[m])
    BY <2>1, <2>3
  <2> QED BY <2>4
<1>5. TargetOf(in_vars, oracle, k, OutWidth, Len(in_vars), x) = t
  <2>1. Ratio(in_vars[m]) = RatioOf(in_vars[m], oracle, k, OutWidth)
    BY DEF Ratio, RatioOf, Minus, Mod
  <2>2. k \in Int
    BY <1>2
  <2>3. TargetOf(in_vars, oracle, k, OutWidth, Len(in_vars), x) =
          VarValue(in_vars[m], x) * RatioOf(in_vars[m], oracle, k, OutWidth)
    BY <1>2, <1>3, <2>2, AloneTarget DEF Distinct
  <2> QED BY <1>4, <2>1, <2>3
<1>6. oracle[x] = ((k + t) % M)
  BY <1>1, <1>3, <1>5, AdditiveIs
<1>7. Same(oracle[x], k + t, M) /\ oracle[x] \in Int /\ k + t \in Int /\ k \in Int
  <2>1. k + t \in Int /\ k \in Int
    BY <1>2
  <2>2. ((k + t) % M) \in Int
    BY <2>1
  <2> QED BY <1>6, <2>1, <2>2, SameOfRest
<1>8. Same(oracle[x] - k, t, M)
  <2>1. M \in Int /\ Same(k, k, M)
    BY <1>7, SameSelf
  <2>2. Same(oracle[x] - k, (k + t) - k, M)
    BY <1>7, <2>1, SameSum
  <2>3. (k + t) - k = t
    BY <1>7
  <2> QED BY <2>2, <2>3
<1>9. ((oracle[x] - k) % M) = (t % M)
  <2>1. oracle[x] - k \in Int /\ t \in Int
    BY <1>7
  <2> QED BY <1>8, <2>1, SameRest
<1> QED BY <1>1, <1>4, <1>9 DEF Minus

\* A variable adds its group, or nothing, and for a sum these are what it does.
LEMMA FindKeeps ==
  ASSUME IInv, Find
  PROVE  IInv'
<1>1. /\ box \in Boxes /\ TypeOK /\ Distinct /\ pc = "find"
      /\ oracle \in [Point -> Value] /\ OutWidth >= 1
      /\ at \in 1 .. Len(in_vars) /\ FoundSoFar
  <2>1. at \in 1 .. Len(in_vars) + 1 /\ at <= Len(in_vars) /\ Len(in_vars) \in Nat
    BY DEF IInv, Phases, Find, TypeOK
  <2> QED BY <2>1 DEF IInv, Phases, Find
<1>2. UNCHANGED <<box, in_vars, out_var, oracle, k, v_obj, pc>> /\ at' = at + 1
  BY DEF Find, parsed
<1>3. OutWidth \in Nat /\ OutWidth' = OutWidth /\ Mod' = Mod /\ Value' = Value
  BY <1>1, <1>2 DEF TypeOK, OutWidth, Mod, Value
<1>4. PICK M \in Nat \ {0} : M = Mod /\ M = 2 ^ OutWidth /\ Value = 0 .. M - 1
  BY <1>3, Powers DEF Mod, Value
<1>5. /\ in_vars \in Seq(Seq(PI)) /\ in_vars[at] \in Seq(PI) /\ k \in 0 .. M - 1 /\ k \in Int
      /\ oracle \in [Point -> 0 .. 2 ^ OutWidth - 1] /\ Len(in_vars) \in Nat
  BY <1>1, <1>4 DEF TypeOK, Value
<1> DEFINE var == in_vars[at]
           r == Ratio(in_vars[at])
           g == SignedRatio(in_vars[at], Ratio(in_vars[at]))
<1>6. r = RatioOf(var, oracle, k, OutWidth) /\ r \in 0 .. M - 1
  <2>1. r = RatioOf(var, oracle, k, OutWidth)
    BY DEF Ratio, RatioOf, Minus, Mod
  <2> QED BY <1>3, <1>4, <1>5, <2>1, RatioType
<1>7. PICK samples \in SUBSET Alone(var) :
        groups' = IF Explains(var, samples) /\ r # 0 THEN Append(groups, g) ELSE groups
  BY DEF Find
<1>8. r # 0 => /\ g \in [var : Seq(PI), relation : {"ADD", "SUBTRACT"}, ratio : Value \ {0}]
               /\ g \in Group /\ 2 * g.ratio <= Mod
               /\ \A x \in Point : Same(Term(g, x), VarValue(var, x) * r, Mod)
  <2> SUFFICES ASSUME r # 0
               PROVE  /\ g \in [var : Seq(PI), relation : {"ADD", "SUBTRACT"},
                               ratio : Value \ {0}]
                      /\ g \in Group /\ 2 * g.ratio <= Mod
                      /\ \A x \in Point : Same(Term(g, x), VarValue(var, x) * r, Mod)
    OBVIOUS
  <2>1. r \in 1 .. Mod - 1
    BY <1>4, <1>6
  <2> HIDE DEF r
  <2> QED BY <1>1, <1>3, <1>5, <2>1, SignedRatioIs DEF r
<1> HIDE DEF var, r, g
<1>9. /\ groups' \in Seq([var : Seq(PI), relation : {"ADD", "SUBTRACT"}, ratio : Value \ {0}])
      /\ \A n \in DOMAIN groups' : 2 * groups'[n].ratio <= Mod
  <2>1. /\ groups \in Seq([var : Seq(PI), relation : {"ADD", "SUBTRACT"}, ratio : Value \ {0}])
        /\ \A n \in DOMAIN groups : 2 * groups[n].ratio <= Mod
    BY <1>1 DEF TypeOK
  <2>2. PICK G : G = [var : Seq(PI), relation : {"ADD", "SUBTRACT"}, ratio : Value \ {0}]
    OBVIOUS
  <2>3. CASE groups' = groups
    BY <2>1, <2>3
  <2>4. CASE groups' # groups
    <3>1. groups' = Append(groups, g) /\ r # 0
      BY <1>7, <2>4
    <3>2. g \in G /\ groups \in Seq(G) /\ 2 * g.ratio <= Mod
      BY <1>8, <2>1, <2>2, <3>1
    <3>3. /\ groups' \in Seq(G) /\ Len(groups') = Len(groups) + 1
          /\ DOMAIN groups' = 1 .. Len(groups) + 1 /\ DOMAIN groups = 1 .. Len(groups)
          /\ groups'[Len(groups) + 1] = g
          /\ \A n \in 1 .. Len(groups) : groups'[n] = groups[n]
      BY <3>1, <3>2
    <3>4. \A n \in 1 .. Len(groups) + 1 : n \in 1 .. Len(groups) \/ n = Len(groups) + 1
      BY <3>2
    <3> QED BY <2>1, <2>2, <3>2, <3>3, <3>4
  <2> QED BY <2>3, <2>4
<1>10. TypeOK'
  <2>1. at' \in Nat
    BY <1>1, <1>2 DEF TypeOK
  <2> QED BY <1>1, <1>2, <1>3, <1>9, <2>1 DEF TypeOK
<1>11. Phases'
  <2>1. at' \in 1 .. Len(in_vars') + 1
    BY <1>1, <1>2, <1>5
  <2> QED BY <1>1, <1>2, <1>3, <2>1 DEF Phases
<1>12. ASSUME Additive', NEW x \in Point
       PROVE  (SumOf(groups', k', Len(groups'), x) % Mod') =
                ((k' + TargetOf(in_vars', oracle', k', OutWidth', at' - 1, x)) % Mod')
  <2>1. Additive
    BY <1>2, <1>12 DEF Additive, Ratio, Minus, Mod, OutWidth
  <2>2. Explains(var, samples)
    BY <1>1, <1>3, <2>1, AdditiveExplains DEF var
  <2>3. groups \in Seq(Group)
    BY <1>1, <1>3, GroupsType
  <2>4. PICK s \in Int : s = SumOf(groups, k, Len(groups), x)
    <3>1. Len(groups) \in 0 .. Len(groups)
      BY <2>3
    <3> QED BY <1>5, <2>3, <3>1, SumOfIs
  <2>5. PICK t \in Int : t = TargetOf(in_vars, oracle, k, OutWidth, at - 1, x)
    <3>1. at - 1 \in 0 .. Len(in_vars)
      BY <1>1, <1>5
    <3> QED BY <1>3, <1>5, <3>1, TargetOfIs
  <2>6. (s % M) = ((k + t) % M)
    BY <1>1, <1>4, <2>1, <2>4, <2>5 DEF FoundSoFar
  <2>7. PICK a \in Int : a = VarValue(var, x) * r
    <3>1. VarValue(var, x) \in Nat
      BY <1>5, VarValueType DEF var
    <3>2. PICK v \in Nat, q \in Nat : v = VarValue(var, x) /\ q = r
      BY <1>6, <3>1
    <3> QED BY <3>2
  <2>8. TargetOf(in_vars', oracle', k', OutWidth', at' - 1, x) = t + a
    <3>1. TargetOf(in_vars, oracle, k, OutWidth, at, x) = t + a
      <4>1. PICK W \in Nat : W = OutWidth
        BY <1>3
      <4>2. PICK vs \in Seq(Seq(PI)), orc \in [Point -> 0 .. 2 ^ W - 1], c \in Int :
              vs = in_vars /\ orc = oracle /\ c = k
        BY <1>5, <4>1
      <4>3. TargetOf(in_vars, oracle, k, W, at, x) =
              TargetOf(in_vars, oracle, k, W, at - 1, x) +
              VarValue(in_vars[at], x) * RatioOf(in_vars[at], oracle, k, W)
        <5>1. at \in 1 .. Len(vs)
          BY <1>1, <4>2
        <5>2. TargetOf(vs, orc, c, W, at, x) =
                TargetOf(vs, orc, c, W, at - 1, x) +
                VarValue(vs[at], x) * RatioOf(vs[at], orc, c, W)
          <6>1. \A n \in 1 .. Len(vs) :
                  TargetOf(vs, orc, c, W, n, x) = TargetOf(vs, orc, c, W, n - 1, x) +
                    VarValue(vs[n], x) * RatioOf(vs[n], orc, c, W)
            BY TargetOfIs
          <6> QED BY <5>1, <6>1, Zenon
        <5> QED BY <4>2, <5>2, Zenon
      <4>4. VarValue(in_vars[at], x) * RatioOf(in_vars[at], oracle, k, W) = a
        BY <1>6, <2>7, <4>1, Zenon DEF var
      <4>5. TargetOf(in_vars, oracle, k, W, at - 1, x) = t
        BY <2>5, <4>1, Zenon
      <4> QED BY <4>1, <4>3, <4>4, <4>5, Zenon
    <3>2. at' - 1 = at
      BY <1>1, <1>2
    <3> QED BY <1>2, <1>3, <3>1, <3>2
  <2>9. Same(SumOf(groups', k', Len(groups'), x), s + a, M) /\
        SumOf(groups', k', Len(groups'), x) \in Int
    <3>1. CASE r = 0
      <4>1. groups' = groups /\ k' = k
        BY <1>2, <1>7, <3>1
      <4>2. a = 0
        <5>1. VarValue(var, x) \in Nat
          BY <1>5, VarValueType DEF var
        <5> QED BY <2>7, <3>1, <5>1
      <4>3. s + a = s /\ M \in Int
        BY <4>2
      <4> QED BY <2>4, <4>1, <4>3, SameSelf
    <3>2. CASE r # 0
      <4>1. groups' = Append(groups, g) /\ k' = k
        BY <1>2, <1>7, <2>2, <3>2
      <4>2. Len(groups') = Len(groups) + 1
        BY <2>3, <4>1
      <4>3. SumOf(groups', k', Len(groups'), x) = s + Term(g, x)
        BY <1>5, <1>8, <2>3, <2>4, <3>2, <4>1, <4>2, SumOfAppend
      <4>4. Term(g, x) \in Int /\ Same(Term(g, x), a, M) /\ M \in Int
        BY <1>4, <1>8, <2>7, <3>2, TermType
      <4>5. Same(s, s, M)
        BY <4>4, SameSelf
      <4>6. Same(s + Term(g, x), s + a, M)
        BY <4>4, <4>5, SameSum
      <4> QED BY <4>3, <4>4, <4>6
    <3> QED BY <3>1, <3>2
  <2>10. Same(s + a, (k + t) + a, M)
    <3>1. k + t \in Int /\ M \in Int
      BY <1>5
    <3>2. PICK u \in Int : u = k + t
      BY <3>1
    <3>3. Same(s, s % M, M) /\ Same(u % M, u, M) /\ (s % M) \in Int
      BY <3>1, <3>2, SameOfRest
    <3>4. Same(s, u, M)
      <4>1. Same(s % M, u, M)
        BY <2>6, <3>2, <3>3
      <4> QED BY <3>1, <3>3, <4>1, SameTrans
    <3>5. Same(a, a, M)
      BY <3>1, SameSelf
    <3> QED BY <3>1, <3>2, <3>4, <3>5, SameSum
  <2>11. PICK z \in Int, y \in Int : /\ z = SumOf(groups', k', Len(groups'), x)
                                     /\ y = (k + t) + a
    BY <1>5, <2>9
  <2>12. Same(z, y, M)
    <3>1. s + a \in Int /\ M \in Int
      OBVIOUS
    <3> QED BY <2>9, <2>10, <2>11, <3>1, SameTrans
  <2>13. (z % M) = (y % M)
    BY <2>12, SameRest
  <2>14. k' + TargetOf(in_vars', oracle', k', OutWidth', at' - 1, x) = y
    BY <1>2, <1>5, <2>8, <2>11
  <2> QED BY <1>3, <1>4, <2>11, <2>13, <2>14
<1>13. FoundSoFar'
  BY <1>12 DEF FoundSoFar
<1>14. Distinct'
  BY <1>1, <1>2 DEF Distinct
<1> QED
  BY <1>1, <1>2, <1>10, <1>11, <1>13, <1>14
  DEF IInv, WideEnough, CircuitIsSum, BuiltSoFar, FoundAll

\* When all the variables have been looked at, a sum of them is known.
LEMMA FoundEnds ==
  ASSUME IInv, pc = "find", at > Len(in_vars), Additive, NEW x \in Point
  PROVE  (SumOf(groups, k, Len(groups), x) % Mod) = oracle[x]
<1>1. at - 1 = Len(in_vars)
  <2>1. at \in 1 .. Len(in_vars) + 1 /\ Len(in_vars) \in Nat
    BY DEF IInv, Phases, TypeOK
  <2> QED BY <2>1
<1>2. oracle[x] = ((k + TargetOf(in_vars, oracle, k, OutWidth, Len(in_vars), x)) % Mod)
  BY AdditiveIs
<1>3. (SumOf(groups, k, Len(groups), x) % Mod) =
        ((k + TargetOf(in_vars, oracle, k, OutWidth, at - 1, x)) % Mod)
  BY DEF IInv, FoundSoFar
<1> QED BY <1>1, <1>2, <1>3, Zenon

\* Returning without a group keeps the invariant.
LEMMA GiveUpKeeps ==
  ASSUME IInv, GiveUp
  PROVE  IInv'
<1>1. /\ pc = "find" /\ at > Len(in_vars) /\ groups = <<>> /\ pc' = "done"
      /\ UNCHANGED <<box, in_vars, out_var, oracle, k, at, groups, v_obj>>
  BY DEF GiveUp, parsed
<1>2. OutWidth' = OutWidth /\ Mod' = Mod /\ Value' = Value
  BY <1>1 DEF OutWidth, Mod, Value
<1>3. TypeOK'
  BY <1>1, <1>2 DEF IInv, TypeOK
<1>4. FoundAll'
  <2> SUFFICES ASSUME Additive', NEW x \in Point
               PROVE  (SumOf(groups', k', Len(groups'), x) % Mod') = oracle'[x]
    BY DEF FoundAll
  <2>1. Additive
    BY <1>1 DEF Additive, Ratio, Minus, Mod, OutWidth
  <2>2. (SumOf(groups, k, Len(groups), x) % Mod) = oracle[x]
    BY <1>1, <2>1, FoundEnds
  <2> QED BY <1>1, <1>2, <2>2
<1> QED
  BY <1>1, <1>3, <1>4
  DEF IInv, WideEnough, CircuitIsSum, Phases, Distinct, BuiltSoFar, FoundSoFar

\* The vector of constants is the sum of no group.
LEMMA StartBuildKeeps ==
  ASSUME IInv, StartBuild
  PROVE  IInv'
<1>1. /\ pc = "find" /\ at > Len(in_vars) /\ groups # <<>> /\ pc' = "build"
      /\ v_obj' = Constants /\ at' = 1
      /\ UNCHANGED <<box, in_vars, out_var, oracle, k, groups>>
  BY DEF StartBuild, parsed
<1>2. OutWidth' = OutWidth /\ Mod' = Mod /\ Value' = Value
  BY <1>1 DEF OutWidth, Mod, Value
<1>3. OutWidth \in Nat /\ k \in Value /\ TypeOK
  BY DEF IInv, TypeOK, OutWidth
<1>4. PICK M \in Nat \ {0} : M = Mod /\ Value = 0 .. M - 1
  BY <1>3, Powers DEF Mod, Value
<1>5. groups \in Seq(Group) /\ k \in Int
  BY <1>3, <1>4, GroupsType
<1>6. /\ v_obj' \in Vector /\ Len(v_obj') = OutWidth
      /\ \A x \in Point : NodeValue(v_obj', x) = k
  BY <1>1, <1>3, ConstantsValue
<1>7. TypeOK'
  BY <1>1, <1>2, <1>3, <1>6 DEF TypeOK
<1>8. WideEnough'
  BY <1>2, <1>3, <1>6 DEF WideEnough
<1>9. Phases'
  <2>1. at' \in 1 .. Len(groups') + 1
    <3>1. Len(groups) \in Nat
      BY <1>5
    <3> QED BY <1>1, <3>1
  <2> QED BY <1>1, <1>2, <2>1 DEF IInv, Phases
<1>10. BuiltSoFar'
  <2> SUFFICES ASSUME NEW x \in Point
               PROVE  (NodeValue(v_obj', x) % Mod') =
                        (SumOf(groups', k', at' - 1, x) % Mod')
    BY DEF BuiltSoFar
  <2>1. SumOf(groups, k, 0, x) = k
    BY <1>5, SumOfIs
  <2>2. at' - 1 = 0
    BY <1>1
  <2> QED BY <1>1, <1>2, <1>6, <2>1, <2>2
<1>11. FoundAll'
  <2> SUFFICES ASSUME Additive', NEW x \in Point
               PROVE  (SumOf(groups', k', Len(groups'), x) % Mod') = oracle'[x]
    BY DEF FoundAll
  <2>1. Additive
    BY <1>1 DEF Additive, Ratio, Minus, Mod, OutWidth
  <2>2. (SumOf(groups, k, Len(groups), x) % Mod) = oracle[x]
    BY <1>1, <2>1, FoundEnds
  <2> QED BY <1>1, <1>2, <2>2
<1> QED
  BY <1>1, <1>7, <1>8, <1>9, <1>10, <1>11
  DEF IInv, CircuitIsSum, Distinct, FoundSoFar

\* An adder or subtractor as wide as the output adds its second operand or takes it
\* away, but for a multiple of the range of the output.
LEMMA StepAdds ==
  ASSUME NEW a \in Vector, NEW b \in Vector, NEW w \in Nat, Len(a) >= w,
         NEW r \in {"ADD", "SUBTRACT"}, NEW x
  PROVE  /\ AddArithmeticCircuit(a, b, r) \in Vector
         /\ Len(AddArithmeticCircuit(a, b, r)) >= w
         /\ Same(NodeValue(AddArithmeticCircuit(a, b, r), x),
                 IF r = "ADD" THEN NodeValue(a, x) + NodeValue(b, x)
                              ELSE NodeValue(a, x) - NodeValue(b, x), 2 ^ w)
<1>1. PICK n \in Nat : n = Longer(a, b) /\ n >= w
  <2>1. Longer(a, b) \in Nat /\ Longer(a, b) >= Len(a) /\ Len(a) \in Nat
    BY LongerIs DEF Vector
  <2> QED BY <2>1
<1>2. PICK p \in Nat : p = NodeValue(a, x)
  <2>1. PICK d \in Nat : d = 2 ^ Len(a)
    BY Powers DEF Vector
  <2>2. NodeValue(a, x) \in 0 .. d - 1
    BY <2>1, NodeValueBelow
  <2> QED BY <2>2
<1>3. PICK q \in Nat : q = NodeValue(b, x)
  <2>1. PICK d \in Nat : d = 2 ^ Len(b)
    BY Powers DEF Vector
  <2>2. NodeValue(b, x) \in 0 .. d - 1
    BY <2>1, NodeValueBelow
  <2> QED BY <2>2
<1>4. PICK M \in Nat : M = 2 ^ w
  BY Powers
<1>5. CASE r = "ADD"
  <2>1. AddArithmeticCircuit(a, b, r) = AddFullAdder(a, b)
    BY <1>5 DEF AddArithmeticCircuit
  <2>2. /\ AddFullAdder(a, b) \in Vector /\ Len(AddFullAdder(a, b)) = n + 1
        /\ NodeValue(AddFullAdder(a, b), x) = p + q
    BY <1>1, <1>2, <1>3, AdderAdds
  <2>3. Same(p + q, p + q, M) /\ n + 1 >= w
    BY <1>1, SameSelf
  <2> QED BY <1>2, <1>3, <1>4, <1>5, <2>1, <2>2, <2>3
<1>6. CASE r = "SUBTRACT"
  <2>1. AddArithmeticCircuit(a, b, r) = AddFullSubtractor(a, b)
    BY <1>6 DEF AddArithmeticCircuit
  <2>2. PICK c \in {0, 1} :
          NodeValue(AddFullSubtractor(a, b), x) = p - q + c * 2 ^ (n + 1)
    BY <1>1, <1>2, <1>3, SubtractorSubtracts
  <2>3. /\ AddFullSubtractor(a, b) \in Vector
        /\ Len(AddFullSubtractor(a, b)) = n + 1
    BY <1>1, SubtractorSubtracts
  <2>4. PICK d \in Nat : 2 ^ (n + 1) = d * M
    <3>1. w <= n + 1 /\ n + 1 \in Nat
      BY <1>1
    <3>2. \E d \in Nat : 2 ^ (n + 1) = d * 2 ^ w
      BY <3>1, PowerMultiple
    <3> QED BY <1>4, <3>2
  <2>5. Same(NodeValue(AddFullSubtractor(a, b), x), p - q, M)
    <3>1. PICK e \in Int : e = c * d
      OBVIOUS
    <3>2. c * 2 ^ (n + 1) = e * M
      <4>1. PICK z \in Int : z = d * M
        OBVIOUS
      <4>2. CASE c = 0
        BY <2>4, <3>1, <4>1, <4>2
      <4>3. CASE c = 1
        BY <2>4, <3>1, <4>1, <4>3
      <4> QED BY <4>2, <4>3
    <3> QED BY <2>2, <3>1, <3>2 DEF Same
  <2> QED BY <1>1, <1>2, <1>3, <1>4, <1>6, <2>1, <2>3, <2>5
<1> QED BY <1>5, <1>6

\* A round of the build adds the group's term to the number built.
LEMMA BuildKeeps ==
  ASSUME IInv, Build
  PROVE  IInv'
<1> DEFINE g == groups[at]
           b == Multiply(Inputs(g.var), g.ratio)
<1>1. /\ pc = "build" /\ at \in 1 .. Len(groups) /\ at' = at + 1
      /\ v_obj' = AddArithmeticCircuit(v_obj, b, g.relation)
      /\ UNCHANGED <<box, in_vars, out_var, oracle, k, groups, pc>>
  <2>1. at \in 1 .. Len(groups) + 1 /\ Len(groups) \in Nat
    BY DEF IInv, Phases, Build, TypeOK
  <2> QED BY <2>1 DEF Build, parsed
<1>2. OutWidth' = OutWidth /\ Mod' = Mod /\ Value' = Value
  BY <1>1 DEF OutWidth, Mod, Value
<1>3. OutWidth \in Nat /\ k \in Value /\ TypeOK
  BY DEF IInv, TypeOK, OutWidth
<1>4. PICK M \in Nat \ {0} : M = Mod /\ Value = 0 .. M - 1 /\ M = 2 ^ OutWidth
  BY <1>3, Powers DEF Mod, Value
<1>5. groups \in Seq(Group) /\ k \in Int
  BY <1>3, <1>4, GroupsType
<1>6. /\ g \in Group /\ g.var \in Seq(PI) /\ g.ratio \in 0 .. 2 ^ OutWidth - 1
      /\ g.relation \in {"ADD", "SUBTRACT"}
  <2>1. g \in [var : Seq(PI), relation : {"ADD", "SUBTRACT"}, ratio : Value \ {0}]
    <3>1. PICK G : G = [var : Seq(PI), relation : {"ADD", "SUBTRACT"}, ratio : Value \ {0}]
      OBVIOUS
    <3>2. groups \in Seq(G)
      BY <1>3, <3>1 DEF TypeOK
    <3>3. groups[at] \in G
      BY <1>1, <3>2
    <3> QED BY <3>1, <3>3
  <2>2. g.ratio \in 0 .. 2 ^ OutWidth - 1
    BY <2>1 DEF Value
  <2> QED BY <1>1, <1>5, <2>1, <2>2
<1> HIDE DEF g
<1>7. /\ b \in Vector
      /\ \A x \in Point : NodeValue(b, x) = VarValue(g.var, x) * g.ratio
  <2>1. Inputs(g.var) \in Vector
    <3>1. \A x \in Point : Inputs(g.var) \in Vector
      BY <1>6, VarValueIs
    <3>2. Unit(g.var) \in Point
      BY DEF Unit, Point, Bit
    <3> QED BY <3>1, <3>2
  <2>2. b \in Vector /\ \A x : NodeValue(b, x) = NodeValue(Inputs(g.var), x) * g.ratio
    BY <1>3, <1>6, <2>1, Multiplied
  <2>3. \A x \in Point : VarValue(g.var, x) = NodeValue(Inputs(g.var), x)
    BY <1>6, VarValueIs
  <2> QED BY <2>2, <2>3
<1> HIDE DEF b
<1>8. /\ v_obj \in Vector /\ Len(v_obj) >= OutWidth
      /\ \A x \in Point : (NodeValue(v_obj, x) % M) = (SumOf(groups, k, at - 1, x) % M)
  BY <1>1, <1>3, <1>4 DEF IInv, TypeOK, WideEnough, BuiltSoFar
<1>9. v_obj' \in Vector /\ Len(v_obj') >= OutWidth
  <2>1. /\ AddArithmeticCircuit(v_obj, b, g.relation) \in Vector
        /\ Len(AddArithmeticCircuit(v_obj, b, g.relation)) >= OutWidth
    BY <1>3, <1>6, <1>7, <1>8, StepAdds
  <2> QED BY <1>1, <2>1
<1>10. TypeOK'
  <2>1. at' \in Nat
    BY <1>1
  <2> QED BY <1>1, <1>2, <1>3, <1>9, <2>1 DEF TypeOK
<1>11. WideEnough'
  BY <1>2, <1>9 DEF WideEnough
<1>12. Phases'
  <2>1. at' \in 1 .. Len(groups') + 1
    <3>1. Len(groups) \in Nat
      BY <1>5
    <3> QED BY <1>1, <3>1
  <2> QED BY <1>1, <1>2, <2>1 DEF IInv, Phases
<1>13. ASSUME NEW x \in Point
       PROVE  (NodeValue(v_obj', x) % Mod') = (SumOf(groups', k', at' - 1, x) % Mod')
  <2>1. PICK s \in Int : s = SumOf(groups, k, at - 1, x)
    <3>1. at - 1 \in 0 .. Len(groups)
      BY <1>1
    <3> QED BY <1>5, <3>1, SumOfIs
  <2>2. SumOf(groups, k, at, x) = s + Term(g, x) /\ Term(g, x) \in Int
    <3>1. SumOf(groups, k, at, x) = SumOf(groups, k, at - 1, x) + Term(groups[at], x)
      BY <1>1, <1>5, SumOfIs
    <3>2. Term(g, x) \in Int
      BY <1>6, TermType
    <3>3. Term(groups[at], x) = Term(g, x)
      BY DEF g
    <3> QED BY <2>1, <3>1, <3>2, <3>3
  <2>3. PICK v \in Int : v = NodeValue(v_obj, x)
    <3>1. PICK d \in Nat : d = 2 ^ Len(v_obj)
      BY <1>8, Powers DEF Vector
    <3>2. NodeValue(v_obj, x) \in 0 .. d - 1
      BY <1>8, <3>1, NodeValueBelow
    <3> QED BY <3>2
  <2>4. PICK c \in Int : c = NodeValue(b, x) /\ c = VarValue(g.var, x) * g.ratio
    <3>1. PICK d \in Nat : d = 2 ^ Len(b)
      BY <1>7, Powers DEF Vector
    <3>2. NodeValue(b, x) \in 0 .. d - 1
      BY <1>7, <3>1, NodeValueBelow
    <3> QED BY <1>7, <3>2
  <2>5. PICK u \in Int : u = NodeValue(v_obj', x)
    <3>1. PICK d \in Nat : d = 2 ^ Len(v_obj')
      BY <1>9, Powers DEF Vector
    <3>2. NodeValue(v_obj', x) \in 0 .. d - 1
      BY <1>9, <3>1, NodeValueBelow
    <3> QED BY <3>2
  <2>6. Same(u, IF g.relation = "ADD" THEN v + c ELSE v - c, M)
    <3>1. Same(NodeValue(AddArithmeticCircuit(v_obj, b, g.relation), x),
               IF g.relation = "ADD" THEN NodeValue(v_obj, x) + NodeValue(b, x)
                                     ELSE NodeValue(v_obj, x) - NodeValue(b, x),
               2 ^ OutWidth)
      BY <1>3, <1>6, <1>7, <1>8, StepAdds
    <3> QED BY <1>1, <1>4, <2>3, <2>4, <2>5, <3>1
  <2>7. Same(u, v + Term(g, x), M)
    <3>1. Term(g, x) = IF g.relation = "ADD" THEN c ELSE -c
      BY <2>4 DEF Term
    <3>2. (IF g.relation = "ADD" THEN v + c ELSE v - c) = v + Term(g, x)
      BY <3>1
    <3> QED BY <2>6, <3>2
  <2>8. Same(v, s, M)
    <3>1. (v % M) = (s % M)
      BY <1>8, <2>1, <2>3
    <3>2. Same(v, v % M, M) /\ Same(s % M, s, M) /\ (s % M) \in Int
      BY SameOfRest
    <3>3. Same(v % M, s, M) /\ (v % M) \in Int
      BY <3>1, <3>2
    <3> QED BY <3>2, <3>3, SameTrans
  <2>9. Same(v + Term(g, x), s + Term(g, x), M)
    <3>1. Same(Term(g, x), Term(g, x), M)
      BY <2>2, SameSelf
    <3> QED BY <2>2, <2>8, <3>1, SameSum
  <2>10. PICK y \in Int, z \in Int : y = v + Term(g, x) /\ z = s + Term(g, x)
    BY <2>2
  <2>11. (u % M) = (z % M)
    <3>1. Same(u, z, M)
      BY <2>7, <2>9, <2>10, SameTrans
    <3> QED BY <3>1, SameRest
  <2>12. SumOf(groups', k', at' - 1, x) = z
    <3>1. at' - 1 = at
      BY <1>1
    <3> QED BY <1>1, <2>2, <2>10, <3>1
  <2> QED BY <1>2, <1>4, <2>5, <2>11, <2>12
<1>14. BuiltSoFar'
  BY <1>13 DEF BuiltSoFar
<1>15. FoundAll'
  <2> SUFFICES ASSUME Additive', in_vars' # <<>>, NEW x \in Point
               PROVE  (SumOf(groups', k', Len(groups'), x) % Mod') = oracle'[x]
    BY DEF FoundAll
  <2>1. Additive
    BY <1>1 DEF Additive, Ratio, Minus, Mod, OutWidth
  <2>2. (SumOf(groups, k, Len(groups), x) % Mod) = oracle[x]
    BY <1>1, <2>1 DEF IInv, FoundAll
  <2> QED BY <1>1, <1>2, <2>2
<1> QED
  BY <1>1, <1>10, <1>11, <1>12, <1>14, <1>15
  DEF IInv, CircuitIsSum, Distinct, FoundSoFar

\* What is driven to the output is the sum modulo its range.
LEMMA AssignKeeps ==
  ASSUME IInv, AssignOutputs
  PROVE  IInv'
<1>1. /\ pc = "build" /\ at > Len(groups) /\ pc' = "done"
      /\ v_obj' = AssignedBits(v_obj)
      /\ UNCHANGED <<box, in_vars, out_var, oracle, k, at, groups>>
  BY DEF AssignOutputs, parsed
<1>2. OutWidth' = OutWidth /\ Mod' = Mod /\ Value' = Value
  BY <1>1 DEF OutWidth, Mod, Value
<1>3. OutWidth \in Nat /\ k \in Value /\ TypeOK
  BY DEF IInv, TypeOK, OutWidth
<1>4. PICK M \in Nat \ {0} : M = Mod /\ Value = 0 .. M - 1 /\ M = 2 ^ OutWidth
  BY <1>3, Powers DEF Mod, Value
<1>5. groups \in Seq(Group) /\ k \in Int
  BY <1>3, <1>4, GroupsType
<1>6. at - 1 = Len(groups)
  <2>1. at \in 1 .. Len(groups) + 1 /\ Len(groups) \in Nat
    BY <1>1, <1>5 DEF IInv, Phases
  <2> QED BY <1>1, <2>1
<1>7. /\ v_obj \in Vector /\ Len(v_obj) >= OutWidth
      /\ \A x \in Point : (NodeValue(v_obj, x) % M) = (SumOf(groups, k, at - 1, x) % M)
  BY <1>1, <1>3, <1>4 DEF IInv, TypeOK, WideEnough, BuiltSoFar
<1>8. /\ v_obj' \in Vector
      /\ \A x : NodeValue(v_obj', x) = (NodeValue(v_obj, x) % M)
  BY <1>1, <1>3, <1>4, <1>7, AssignedValue
<1>9. TypeOK'
  BY <1>1, <1>2, <1>3, <1>8 DEF TypeOK
<1>10. CircuitIsSum'
  <2> SUFFICES ASSUME NEW x \in Point
               PROVE  NodeValue(v_obj', x) = (Sum(x)' % Mod')
    BY DEF CircuitIsSum
  <2>1. Sum(x)' = SumOf(groups, k, Len(groups), x)
    BY <1>1 DEF Sum, SumOf
  <2>2. NodeValue(v_obj', x) = (SumOf(groups, k, at - 1, x) % M)
    BY <1>7, <1>8
  <2> QED BY <1>2, <1>4, <1>6, <2>1, <2>2
<1>11. FoundAll'
  <2> SUFFICES ASSUME Additive', in_vars' # <<>>, NEW x \in Point
               PROVE  (SumOf(groups', k', Len(groups'), x) % Mod') = oracle'[x]
    BY DEF FoundAll
  <2>1. Additive
    BY <1>1 DEF Additive, Ratio, Minus, Mod, OutWidth
  <2>2. (SumOf(groups, k, Len(groups), x) % Mod) = oracle[x]
    BY <1>1, <2>1 DEF IInv, FoundAll
  <2> QED BY <1>1, <1>2, <2>2
<1> QED
  BY <1>1, <1>9, <1>10, <1>11
  DEF IInv, WideEnough, Phases, Distinct, BuiltSoFar, FoundSoFar

\* No step breaks the invariant, and neither does a stutter.
LEMMA Inductive == IInv /\ [Next]_vars => IInv'
<1> SUFFICES ASSUME IInv, [Next]_vars PROVE IInv'
  OBVIOUS
<1>1. CASE FindVars
  BY <1>1, FindVarsKeeps
<1>2. CASE Find
  BY <1>2, FindKeeps
<1>3. CASE GiveUp
  BY <1>3, GiveUpKeeps
<1>4. CASE StartBuild
  BY <1>4, StartBuildKeeps
<1>5. CASE Build
  BY <1>5, BuildKeeps
<1>6. CASE AssignOutputs
  BY <1>6, AssignKeeps
<1>7. ASSUME UNCHANGED vars PROVE IInv'
  <2>1. UNCHANGED <<box, in_vars, out_var, oracle, k, at, groups, v_obj, pc>>
    BY <1>7 DEF vars, parsed
  <2>2. OutWidth' = OutWidth /\ Mod' = Mod /\ Value' = Value
    BY <2>1 DEF OutWidth, Mod, Value
  <2>3. TypeOK' /\ WideEnough' /\ Phases' /\ Distinct' /\ BuiltSoFar'
    BY <2>1, <2>2 DEF IInv, TypeOK, WideEnough, Phases, Distinct, BuiltSoFar
  <2>4. \A x : Sum(x)' = Sum(x)
    BY <2>1 DEF Sum
  <2>5. CircuitIsSum'
    BY <2>1, <2>2, <2>4 DEF IInv, CircuitIsSum
  <2>6. Additive' <=> Additive
    BY <2>1 DEF Additive, Ratio, Minus, Mod, OutWidth
  <2>7. FoundSoFar' /\ FoundAll'
    BY <2>1, <2>2, <2>6 DEF IInv, FoundSoFar, FoundAll
  <2> QED BY <2>1, <2>3, <2>5, <2>7 DEF IInv
<1>8. CASE Returned
  BY <1>7, <1>8 DEF Returned
<1> QED BY <1>1, <1>2, <1>3, <1>4, <1>5, <1>6, <1>7, <1>8 DEF Next

\* The invariant holds in every state.
LEMMA Invariant == Spec => []IInv
<1> QED BY InitIInv, Inductive, PTL DEF Spec

-----------------------------------------------------------------------------
\* The variables keep their types: no ratio is 0 or above half of the range, and the
\* relation carries the sign (Group_v2, group.cpp:230-239).
THEOREM TypeCorrect == Spec => []TypeOK
<1>1. IInv => TypeOK
  BY DEF IInv
<1> QED BY <1>1, Invariant, PTL

\* The assertion of assign_outputs (abc_wrapper.cpp:156) holds, whatever groups have
\* been found: the adders never make the vector shorter.
THEOREM WideEnoughCorrect == Spec => []WideEnough
<1>1. IInv => WideEnough
  BY DEF IInv
<1> QED BY <1>1, Invariant, PTL

\* The circuit of multiplier, adders and subtractors (lrg.cpp:87-99, add_cube.cpp)
\* computes k plus and minus the multiples of the variables modulo 2^|out_var|, for
\* every width, ratio and order of the groups.
THEOREM CircuitIsSumCorrect == Spec => []CircuitIsSum
<1>1. IInv => CircuitIsSum
  BY DEF IInv
<1> QED BY <1>1, Invariant, PTL

\* An output variable that is a sum of multiples of the input variables is
\* reproduced, whatever patterns find_relation draws (group.cpp:190-250).
THEOREM ExactOnSumsCorrect == Spec => []ExactOnSums
<1>1. IInv => ExactOnSums
  <2> SUFFICES ASSUME IInv, pc = "done", in_vars # <<>>, Additive
               PROVE  IF groups = <<>>
                      THEN \A x \in Point : oracle[x] = k
                      ELSE \A x \in Point : NodeValue(v_obj, x) = oracle[x]
    BY DEF ExactOnSums
  <2>1. \A x \in Point : (SumOf(groups, k, Len(groups), x) % Mod) = oracle[x]
    BY DEF IInv, FoundAll
  <2>2. CASE groups = <<>>
    <3>1. PICK M \in Nat \ {0} : M = Mod /\ k \in 0 .. M - 1
      <4>1. OutWidth \in Nat /\ k \in Value
        BY DEF IInv, TypeOK, OutWidth
      <4> QED BY <4>1, Powers DEF Mod, Value
    <3>2. (k % M) = k
      BY <3>1
    <3>3. ASSUME NEW x \in Point PROVE oracle[x] = k
      <4>1. <<>> \in Seq(Group) /\ k \in Int
        BY <3>1
      <4>2. SumOf(<<>>, k, 0, x) = k
        BY <4>1, SumOfIs
      <4>3. Len(groups) = 0
        BY <2>2
      <4> QED BY <2>1, <2>2, <3>1, <3>2, <4>2, <4>3
    <3> QED BY <2>2, <3>3
  <2>3. CASE groups # <<>>
    <3>1. ASSUME NEW x \in Point PROVE NodeValue(v_obj, x) = oracle[x]
      <4>1. NodeValue(v_obj, x) = (Sum(x) % Mod)
        BY <2>3 DEF IInv, CircuitIsSum
      <4>2. Sum(x) = SumOf(groups, k, Len(groups), x)
        BY SumIs
      <4> QED BY <2>1, <4>1, <4>2
    <3> QED BY <2>3, <3>1
  <2> QED BY <2>2, <2>3
<1> QED BY <1>1, Invariant, PTL

-----------------------------------------------------------------------------
(* Numbers in names.                                                       *)

IsTens(up, n) ==
  /\ up \in [0 .. n -> Nat]
  /\ up[0] = 1
  /\ \A i \in 1 .. n : up[i] = 10 * up[i - 1]

\* The recursion in Tens has a value.
LEMMA TensIs ==
  ASSUME NEW n \in Nat
  PROVE  \E up : IsTens(up, n) /\ Tens(n) = up[n]
<1> DEFINE step == [i \in 1 .. n |-> [d \in Nat |-> 10 * d]]
           F(f) == [i \in 0 .. n |-> IF i = 0 THEN 1 ELSE 10 * f[i - 1]]
<1>1. step \in [1 .. n -> [Nat -> Nat]] /\ 1 \in Nat
  OBVIOUS
<1>2. PICK f : Recursive(Nat, step, 1, n, f)
  <2> HIDE DEF step
  <2> QED BY <1>1, Recursion
<1>3. f \in [0 .. n -> Nat] /\ f[0] = 1 /\ \A i \in 1 .. n : f[i] = 10 * f[i - 1]
  <2>1. \A i \in 1 .. n : f[i - 1] \in Nat
    BY <1>2 DEF Recursive
  <2> QED BY <1>2, <2>1 DEF Recursive
<1>4. f = F(f)
  <2>1. \A i \in 0 .. n : i = 0 \/ i \in 1 .. n
    OBVIOUS
  <2> QED BY <1>3, <2>1
<1> DEFINE up == CHOOSE h : h = F(h)
<1>5. up = F(up)
  <2> HIDE DEF F
  <2> QED BY <1>4
<1>6. up[0] = 1 /\ \A i \in 1 .. n : up[i] = 10 * up[i - 1]
  <2> HIDE DEF up
  <2>1. 0 \in 0 .. n /\ \A i \in 1 .. n : i \in 0 .. n /\ i # 0
    OBVIOUS
  <2> QED BY <1>5, <2>1
<1>7. up \in [0 .. n -> Nat]
  <2> DEFINE S == {i \in 0 .. n : up[i] \in Nat}
  <2> HIDE DEF up
  <2>1. 0 \in S
    BY <1>6
  <2>2. \A i \in 0 .. n - 1 : i \in S => i + 1 \in S
    <3> SUFFICES ASSUME NEW i \in 0 .. n - 1, i \in S PROVE i + 1 \in S
      OBVIOUS
    <3>1. i + 1 \in 1 .. n /\ (i + 1) - 1 = i /\ i + 1 \in 0 .. n
      OBVIOUS
    <3>2. up[i + 1] = 10 * up[i]
      BY <1>6, <3>1
    <3> QED BY <3>1, <3>2
  <2>3. 0 .. n \subseteq S
    <3> HIDE DEF S
    <3> QED BY <2>1, <2>2, UpToInduction
  <2>4. \A i \in 0 .. n : up[i] \in Nat
    BY <2>3
  <2> QED BY <1>5, <2>4
<1>8. Tens(n) = up[n]
  BY DEF Tens
<1> HIDE DEF up
<1> QED BY <1>6, <1>7, <1>8 DEF IsTens

\* 10^n does not fall.
LEMMA TensGrow ==
  ASSUME NEW m \in Nat, NEW n \in Nat, m <= n
  PROVE  Tens(m) \in Nat /\ Tens(n) \in Nat /\ Tens(m) <= Tens(n)
<1>1. PICK a : IsTens(a, m) /\ Tens(m) = a[m]
  BY TensIs
<1>2. PICK b : IsTens(b, n) /\ Tens(n) = b[n]
  BY TensIs
<1> DEFINE S == {i \in 0 .. m : a[i] = b[i]}
           T == {i \in 0 .. n - m : b[m] <= b[m + i]}
<1>3. 0 .. m \subseteq S
  <2>1. 0 \in S
    BY <1>1, <1>2 DEF IsTens
  <2>2. \A i \in 0 .. m - 1 : i \in S => i + 1 \in S
    <3> SUFFICES ASSUME NEW i \in 0 .. m - 1, i \in S PROVE i + 1 \in S
      OBVIOUS
    <3>1. i + 1 \in 1 .. m /\ (i + 1) - 1 = i /\ i + 1 \in 0 .. m /\ i + 1 \in 1 .. n
      OBVIOUS
    <3>2. a[i + 1] = 10 * a[i] /\ b[i + 1] = 10 * b[i] /\ a[i] = b[i]
      BY <1>1, <1>2, <3>1 DEF IsTens
    <3> QED BY <3>1, <3>2
  <2> HIDE DEF S
  <2> QED BY <2>1, <2>2, UpToInduction
<1>4. 0 .. n - m \subseteq T
  <2>1. 0 \in T
    BY <1>2 DEF IsTens
  <2>2. \A i \in 0 .. (n - m) - 1 : i \in T => i + 1 \in T
    <3> SUFFICES ASSUME NEW i \in 0 .. (n - m) - 1, i \in T PROVE i + 1 \in T
      OBVIOUS
    <3>1. m + (i + 1) \in 1 .. n /\ (m + (i + 1)) - 1 = m + i /\ m + i \in 0 .. n
          /\ m \in 0 .. n /\ i + 1 \in 0 .. n - m
      OBVIOUS
    <3>2. b[m + (i + 1)] = 10 * b[m + i] /\ b[m + i] \in Nat /\ b[m] \in Nat
      BY <1>2, <3>1 DEF IsTens
    <3> QED BY <3>1, <3>2
  <2>3. n - m \in Nat
    OBVIOUS
  <2> HIDE DEF T
  <2> QED BY <2>1, <2>2, <2>3, UpToInduction
<1>5. a[m] = b[m]
  BY <1>3
<1>6. b[m] <= b[n]
  <2>1. n - m \in 0 .. n - m /\ m + (n - m) = n
    OBVIOUS
  <2> QED BY <1>4, <2>1
<1> QED BY <1>1, <1>2, <1>5, <1>6 DEF IsTens

\* What is left of a name is a name, whose last part is one to sort by.
LEMMA IndexType ==
  ASSUME NEW name \in Name, NEW del
  PROVE  Index(Trim(name, del)) \in Part
<1>1. PICK L \in Nat : L = Len(name) /\ L >= 1 /\ name \in Seq(Part)
  BY DEF Name
<1> DEFINE ends == {n \in 1 .. L - 1 : name[n] = del}
           last == CHOOSE n \in ends : \A m \in ends : m <= n
           left == Ltrim(name, del)
<1>2. left \in Seq(Part) /\ Len(left) >= 1
  <2>1. CASE ends = {}
    BY <1>1, <2>1 DEF Ltrim
  <2>2. CASE ends # {}
    <3>1. \E n \in ends : \A m \in ends : m <= n
      <4> DEFINE T == {L - n : n \in ends}
      <4>1. T \subseteq Nat /\ T # {}
        BY <2>2
      <4>2. PICK t \in T : \A u \in T : t <= u
        <5> HIDE DEF T
        <5> QED BY <4>1, LeastOf
      <4>3. PICK n \in ends : t = L - n
        OBVIOUS
      <4>4. ASSUME NEW m \in ends PROVE m <= n
        <5>1. L - m \in T
          OBVIOUS
        <5>2. L - n <= L - m
          BY <4>2, <4>3, <5>1
        <5> QED BY <5>2
      <4> QED BY <4>4
    <3>2. last \in ends
      BY <3>1
    <3>3. left = SubSeq(name, last + 1, L)
      BY <1>1, <2>2 DEF Ltrim
    <3>4. PICK e \in 1 .. L - 1 : e = last
      BY <3>2
    <3>5. SubSeq(name, e + 1, L) \in Seq(Part) /\ Len(SubSeq(name, e + 1, L)) = L - e
      BY <1>1
    <3> QED BY <3>3, <3>4, <3>5
  <2> QED BY <2>1, <2>2
<1> HIDE DEF left
<1>3. PICK t : t = Rtrim(left)
  OBVIOUS
<1>4. t \in Seq(Part) /\ Len(t) >= 1
  <2>1. CASE Len(left) > 1 /\ left[Len(left)] = NoPart
    <3>1. t = SubSeq(left, 1, Len(left) - 1)
      BY <1>3, <2>1 DEF Rtrim
    <3> QED BY <1>2, <2>1, <3>1
  <2>2. CASE ~ (Len(left) > 1 /\ left[Len(left)] = NoPart)
    BY <1>2, <1>3, <2>2 DEF Rtrim
  <2> QED BY <2>1, <2>2
<1>5. t[Len(t)] \in Part
  BY <1>4
<1> QED BY <1>3, <1>5 DEF Trim, Index, left

\* A number that is not sorted before another is not the smaller one of the two.
LEMMA NumbersCompare ==
  ASSUME NEW a \in Part, NEW b \in Part, ~ Compare(b, a), IsNumber(a), IsNumber(b)
  PROVE  a.val >= b.val
<1>1. a.len \in Nat /\ b.len \in Nat /\ a.val \in Nat /\ b.val \in Nat
  BY DEF Part
<1>2. a.len >= b.len /\ (a.len = b.len => a.val >= b.val)
  BY <1>1 DEF Compare
<1>3. ASSUME a.len > b.len PROVE a.val >= b.val
  <2>1. a.len - 1 \in Nat /\ b.len <= a.len - 1 /\ a.len # 1
    BY <1>1, <1>3 DEF IsNumber
  <2>2. /\ Tens(b.len) \in Nat /\ Tens(a.len - 1) \in Nat
        /\ Tens(b.len) <= Tens(a.len - 1)
    BY <1>1, <2>1, TensGrow
  <2>3. b.val < Tens(b.len) /\ a.val >= Tens(a.len - 1)
    BY <2>1 DEF IsNumber
  <2> QED BY <1>1, <2>2, <2>3
<1> QED BY <1>1, <1>2, <1>3

\* Every variable of the parser has its numbered bits in falling order.
LEMMA VariablesFall ==
  ASSUME NEW D, NEW names \in [D -> Name], NEW del, NEW f \in Variables(names, del),
         NEW v \in DOMAIN f
  PROVE  NumbersFall(names, del, f[v])
<1> DEFINE key(i) == Index(Trim(names[i], del))
<1>1. f[v] \in Sorted(names, del, v)
  BY DEF Variables
<1>2. PICK N, M : N = Cardinality(Members(names, del, v)) /\ M = Members(names, del, v)
  OBVIOUS
<1>3. PICK s \in [1 .. N -> M] :
        /\ s = f[v]
        /\ \A m, n \in DOMAIN s : m < n => ~ Compare(key(s[n]), key(s[m]))
  BY <1>1, <1>2 DEF Sorted
<1>4. \A n \in DOMAIN s : key(s[n]) \in Part
  <2> SUFFICES ASSUME NEW n \in DOMAIN s PROVE key(s[n]) \in Part
    OBVIOUS
  <2>1. s[n] \in D
    BY <1>2, <1>3 DEF Members
  <2>2. names[s[n]] \in Name
    BY <2>1
  <2> QED BY <2>2, IndexType
<1> HIDE DEF key
<1>5. ASSUME NEW m \in DOMAIN s, NEW n \in DOMAIN s, m < n,
             IsNumber(key(s[m])), IsNumber(key(s[n]))
      PROVE  key(s[m]).val >= key(s[n]).val
  BY <1>3, <1>4, <1>5, NumbersCompare
<1> QED BY <1>3, <1>5 DEF NumbersFall, key

\* The variables picked are variables of the parser, and stay what they are.
LEMMA FallsAlways == IInv /\ MostSignificantFirst /\ [Next]_vars => MostSignificantFirst'
<1> SUFFICES ASSUME IInv, MostSignificantFirst, [Next]_vars
             PROVE  MostSignificantFirst'
  OBVIOUS
<1>1. ASSUME UNCHANGED <<box, in_vars, out_var>> PROVE MostSignificantFirst'
  BY <1>1 DEF MostSignificantFirst
<1>2. CASE FindVars
  <2>1. PICK ins \in Variables(box.PI_name, PI_del), outs \in Variables(box.PO_name, PO_del) :
          IF Grouped(ins) = {} \/ OutputVars(ins, outs) = {}
          THEN UNCHANGED <<in_vars, out_var>>
          ELSE \E s \in InOrder(Longest(ins)), w \in OutputVars(ins, outs) :
                 /\ in_vars' = [n \in DOMAIN s |-> ins[s[n]]]
                 /\ out_var' = outs[w]
    BY <1>2 DEF FindVars
  <2>2. UNCHANGED box
    BY <1>2 DEF FindVars
  <2>3. CASE Grouped(ins) = {} \/ OutputVars(ins, outs) = {}
    BY <1>1, <2>1, <2>2, <2>3
  <2>4. CASE ~ (Grouped(ins) = {} \/ OutputVars(ins, outs) = {})
    <3>1. PICK s \in InOrder(Longest(ins)), w \in OutputVars(ins, outs) :
            /\ in_vars' = [n \in DOMAIN s |-> ins[s[n]]]
            /\ out_var' = outs[w]
      BY <2>1, <2>4
    <3>2. box.PI_name \in [PI -> Name] /\ box.PO_name \in [PO -> Name]
      BY ArithmeticAssumption DEF IInv
    <3>3. \A n \in DOMAIN s : s[n] \in DOMAIN ins
      BY DEF InOrder, Longest, Grouped
    <3>4. w \in DOMAIN outs
      BY DEF OutputVars
    <3>5. \A n \in DOMAIN in_vars' : NumbersFall(box.PI_name, PI_del, in_vars'[n])
      <4>1. \A v \in DOMAIN ins : NumbersFall(box.PI_name, PI_del, ins[v])
        BY <3>2, VariablesFall
      <4>2. DOMAIN in_vars' = DOMAIN s /\ \A n \in DOMAIN s : in_vars'[n] = ins[s[n]]
        BY <3>1
      <4> QED BY <3>3, <4>1, <4>2
    <3>6. NumbersFall(box.PO_name, PO_del, out_var')
      BY <3>1, <3>2, <3>4, VariablesFall
    <3> QED BY <2>2, <3>5, <3>6 DEF MostSignificantFirst
  <2> QED BY <2>3, <2>4
<1>3. CASE Find \/ GiveUp \/ StartBuild \/ Build \/ AssignOutputs \/ Returned
  BY <1>1, <1>3 DEF Find, GiveUp, StartBuild, Build, AssignOutputs, Returned, vars, parsed
<1>4. CASE UNCHANGED vars
  BY <1>1, <1>4 DEF vars, parsed
<1> QED BY <1>2, <1>3, <1>4 DEF Next

\* The bits of every variable are in falling order of the numbers in their names,
\* the highest first (variable.h:24), for any names and any numbers of digits.
THEOREM MostSignificantFirstCorrect == Spec => []MostSignificantFirst
<1>1. Init => MostSignificantFirst
  BY DEF Init, MostSignificantFirst, NumbersFall
<1> QED BY <1>1, Invariant, FallsAlways, PTL DEF Spec
=============================================================================
