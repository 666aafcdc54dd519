---------------------------- MODULE GenPat_proofs ----------------------------
(***************************************************************************)
(* The comparators of Relations compare, for variables of any length, and  *)
(* what gen_pat returns is seen by them as asked for.                      *)
(***************************************************************************)
EXTENDS GenPat, Network_proofs

-----------------------------------------------------------------------------
(* What the comparators see of two blocks.                                 *)

\* The relation r between two patterns of L bits.
Holds(L, r, a, b) ==
  \/ r = "XOR" /\ \A i \in 0 .. L - 1 : a[i] # b[i]
  \/ r = "EQUIVALENCE" /\ \A i \in 0 .. L - 1 : a[i] = b[i]
  \/ r = "LARGER_THAN" /\ Below(L, b, a)
  \/ r = "SMALLER_THAN" /\ Below(L, a, b)
  \/ r = "LARGER_EQ_THAN" /\ ~Below(L, a, b)
  \/ r = "SMALLER_EQ_THAN" /\ ~Below(L, b, a)

\* Bits a and b at the inputs of v and w, the least significant one at the last.
Reads(y, v, w, a, b) ==
  \A n \in 1 .. Len(v) : y[v[n]] = a[Len(v) - n] /\ y[w[n]] = b[Len(v) - n]

\* The first position that differs is the highest bit that differs.
LEMMA LargerIsBelow ==
  ASSUME NEW v, NEW w, SameLength(v, w), NEW a \in Block, NEW b \in Block,
         Len(v) <= BlockBits, NEW y \in Point, Reads(y, v, w, a, b)
  PROVE  y \in LargerFrom(v, w, 1) <=> Below(Len(v), b, a)
<1>1. PICK L \in Nat \ {0} : L = Len(v)
  BY DEF SameLength
<1>2. BlockBits \in Nat /\ L <= BlockBits
  BY <1>1, GenPatAssumption
<1>3. \A i \in 0 .. L - 1 : a[i] \in Bit /\ b[i] \in Bit
  BY <1>2 DEF Block
<1>4. \A n \in 1 .. L : /\ L - n \in 0 .. L - 1
                        /\ y[v[n]] = a[L - n] /\ y[w[n]] = b[L - n]
  BY <1>1 DEF Reads
<1>5. \A n \in 1 .. L : Greater(v, w, y, n) <=> b[L - n] = "0" /\ a[L - n] = "1"
  BY <1>3, <1>4 DEF Greater, Bit
<1>6. \A n \in 1 .. L : Equal(v, w, y, n) <=> b[L - n] = a[L - n]
  BY <1>3, <1>4 DEF Equal, Bit
<1>7. ASSUME y \in LargerFrom(v, w, 1) PROVE Below(L, b, a)
  <2>1. PICK m \in 1 .. L : Greater(v, w, y, m) /\ \A j \in 1 .. m - 1 : Equal(v, w, y, j)
    BY <1>1, <1>7 DEF LargerFrom
  <2>2. L - m \in 0 .. L - 1 /\ b[L - m] = "0" /\ a[L - m] = "1"
    BY <1>4, <1>5, <2>1
  <2>3. ASSUME NEW j \in (L - m) + 1 .. L - 1 PROVE b[j] = a[j]
    <3>1. L - j \in 1 .. m - 1 /\ L - j \in 1 .. L /\ L - (L - j) = j
      OBVIOUS
    <3> QED BY <1>6, <2>1, <3>1
  <2> QED BY <2>2, <2>3 DEF Below
<1>8. ASSUME Below(L, b, a) PROVE y \in LargerFrom(v, w, 1)
  <2>1. PICK i \in 0 .. L - 1 : /\ b[i] = "0" /\ a[i] = "1"
                                /\ \A j \in i + 1 .. L - 1 : b[j] = a[j]
    BY <1>8 DEF Below
  <2>2. L - i \in 1 .. L /\ L - (L - i) = i
    OBVIOUS
  <2>3. Greater(v, w, y, L - i)
    BY <1>5, <2>1, <2>2
  <2>4. ASSUME NEW j \in 1 .. (L - i) - 1 PROVE Equal(v, w, y, j)
    <3>1. L - j \in i + 1 .. L - 1 /\ j \in 1 .. L
      OBVIOUS
    <3> QED BY <1>6, <2>1, <3>1
  <2> QED BY <1>1, <2>2, <2>3, <2>4 DEF LargerFrom
<1> QED BY <1>1, <1>7, <1>8

\* The comparators see the relation between the patterns.
LEMMA FanoutSees ==
  ASSUME NEW v, NEW w, SameLength(v, w), NEW a \in Block, NEW b \in Block,
         Len(v) <= BlockBits, NEW y \in Point, Reads(y, v, w, a, b),
         NEW r \in Relation \ {"NO_RELATION"}
  PROVE  y \in Fanout(r, v, w) <=> Holds(Len(v), r, a, b)
<1>1. PICK L \in Nat \ {0} : L = Len(v)
  BY DEF SameLength
<1>2. BlockBits \in Nat /\ L <= BlockBits
  BY <1>1, GenPatAssumption
<1>3. \A i \in 0 .. L - 1 : a[i] \in Bit /\ b[i] \in Bit
  BY <1>2 DEF Block
<1>4. \A n \in 1 .. L : Equal(v, w, y, n) <=> a[L - n] = b[L - n]
  <2>1. \A n \in 1 .. L : /\ L - n \in 0 .. L - 1
                          /\ y[v[n]] = a[L - n] /\ y[w[n]] = b[L - n]
    BY <1>1 DEF Reads
  <2> QED BY <1>3, <2>1 DEF Equal, Bit
<1>5. /\ \A n \in 1 .. L : L - n \in 0 .. L - 1
      /\ \A i \in 0 .. L - 1 : L - i \in 1 .. L /\ L - (L - i) = i
  OBVIOUS
<1>6. y \in LargerFrom(v, w, 1) <=> Below(L, b, a)
  BY <1>1, LargerIsBelow
<1>7. y \in LargerFrom(w, v, 1) <=> Below(L, a, b)
  <2>1. SameLength(w, v) /\ Len(w) = L /\ Reads(y, w, v, b, a)
    BY <1>1 DEF SameLength, Reads
  <2> QED BY <1>1, <2>1, LargerIsBelow
<1>8. CASE r = "XOR"
  <2>1. y \in BuildXor(v, w) <=> \A i \in 0 .. L - 1 : a[i] # b[i]
    BY <1>1, <1>4, <1>5, XorIs
  <2> QED BY <1>1, <1>8, <2>1, FanoutIs DEF Holds
<1>9. CASE r = "EQUIVALENCE"
  <2>1. y \in BuildEquiv(v, w) <=> \A i \in 0 .. L - 1 : a[i] = b[i]
    BY <1>1, <1>4, <1>5, EquivIs
  <2> QED BY <1>1, <1>9, <2>1, FanoutIs DEF Holds
<1>10. CASE r = "LARGER_THAN"
  BY <1>1, <1>6, <1>10, FanoutIs, LargerIs DEF Holds
<1>11. CASE r = "SMALLER_THAN"
  BY <1>1, <1>7, <1>11, FanoutIs, SmallerIs DEF Holds
<1>12. CASE r = "LARGER_EQ_THAN"
  BY <1>1, <1>7, <1>12, FanoutIs, SmallerIs DEF Holds, Not
<1>13. CASE r = "SMALLER_EQ_THAN"
  BY <1>1, <1>6, <1>13, FanoutIs, LargerIs DEF Holds, Not
<1> QED BY <1>8, <1>9, <1>10, <1>11, <1>12, <1>13 DEF Relation

-----------------------------------------------------------------------------
(* The loops.                                                              *)

\* Of two patterns one is below the other, or they are equal; never both.
LEMMA Trichotomy ==
  ASSUME NEW L \in Nat, NEW a, NEW b, \A i \in 0 .. L - 1 : a[i] \in Bit /\ b[i] \in Bit
  PROVE  /\ Below(L, a, b) \/ Below(L, b, a) \/ \A i \in 0 .. L - 1 : a[i] = b[i]
         /\ ~ (Below(L, a, b) /\ Below(L, b, a))
         /\ (\A i \in 0 .. L - 1 : a[i] = b[i]) => ~Below(L, a, b) /\ ~Below(L, b, a)
<1>1. ASSUME ~ \A i \in 0 .. L - 1 : a[i] = b[i]
      PROVE  Below(L, a, b) \/ Below(L, b, a)
  <2> DEFINE T == {n \in Nat : n < L /\ a[(L - 1) - n] # b[(L - 1) - n]}
  <2>1. T # {} /\ T \subseteq Nat
    <3>1. PICK i \in 0 .. L - 1 : a[i] # b[i]
      BY <1>1
    <3>2. (L - 1) - i \in Nat /\ (L - 1) - i < L /\ (L - 1) - ((L - 1) - i) = i
      OBVIOUS
    <3>3. (L - 1) - i \in T
      BY <3>1, <3>2
    <3> QED BY <3>3
  <2>2. PICK n \in T : \A m \in T : n <= m
    <3> HIDE DEF T
    <3> QED BY <2>1, LeastOf
  <2>3. PICK i \in 0 .. L - 1 : i = (L - 1) - n /\ a[i] # b[i]
    BY <2>2
  <2>4. ASSUME NEW j \in i + 1 .. L - 1 PROVE a[j] = b[j]
    <3>1. (L - 1) - j \in Nat /\ (L - 1) - j < L /\ (L - 1) - ((L - 1) - j) = j
      BY <2>3
    <3>2. ~ (n <= (L - 1) - j)
      BY <2>2, <2>3
    <3>3. (L - 1) - j \notin T
      <4> HIDE DEF T
      <4> QED BY <2>2, <3>2
    <3> QED BY <3>1, <3>3
  <2>5. (a[i] = "0" /\ b[i] = "1") \/ (b[i] = "0" /\ a[i] = "1")
    BY <2>3 DEF Bit
  <2> QED BY <2>4, <2>5 DEF Below
<1>2. ASSUME Below(L, a, b), Below(L, b, a) PROVE FALSE
  <2>1. PICK i \in 0 .. L - 1 : /\ a[i] = "0" /\ b[i] = "1"
                                /\ \A j \in i + 1 .. L - 1 : a[j] = b[j]
    BY <1>2 DEF Below
  <2>2. PICK k \in 0 .. L - 1 : /\ b[k] = "0" /\ a[k] = "1"
                                /\ \A j \in k + 1 .. L - 1 : b[j] = a[j]
    BY <1>2 DEF Below
  <2>3. i = k \/ i \in k + 1 .. L - 1 \/ k \in i + 1 .. L - 1
    OBVIOUS
  <2> QED BY <2>1, <2>2, <2>3
<1>3. ASSUME \A i \in 0 .. L - 1 : a[i] = b[i]
      PROVE  ~Below(L, a, b) /\ ~Below(L, b, a)
  BY <1>3 DEF Below
<1> QED BY <1>1, <1>2, <1>3

\* No more bits are compared than the patterns have.
LEMMA ComparedBitsBound ==
  ASSUME Size \in 1 .. BlockBits
  PROVE  ComparedBits \in 0 .. Size
<1>1. PICK s \in Nat : s = Size
  BY GenPatAssumption
<1>2. BlockBits \in Nat \ {0} /\ ShiftBits \in Nat \ {0}
  BY GenPatAssumption
<1>3. \A n \in Nat, m \in Nat \ {0} : n % m \in 0 .. n
  <2> SUFFICES ASSUME NEW n \in Nat, NEW m \in Nat \ {0} PROVE n % m \in 0 .. n
    OBVIOUS
  <2>1. n % m \in 0 .. m - 1 /\ (n < m => n % m = n)
    OBVIOUS
  <2> QED BY <2>1
<1>4. s % BlockBits \in 0 .. s
  BY <1>2, <1>3
<1>5. (s % BlockBits) % ShiftBits \in 0 .. s % BlockBits
  BY <1>2, <1>3, <1>4
<1> QED BY <1>1, <1>4, <1>5 DEF ComparedBits

\* What each loop rejects.
LEMMA RejectsIs ==
  ASSUME NEW a, NEW b
  PROVE  /\ rel = "XOR" => (Rejects(a, b) <=> ~correct /\ Same(a, Complement(b)))
         /\ rel = "EQUIVALENCE" => (Rejects(a, b) <=> ~correct /\ Same(a, b))
         /\ rel = "LARGER_THAN" =>
              (Rejects(a, b) <=> IF correct THEN Less(a, b) \/ Same(a, b) ELSE Less(b, a))
         /\ rel = "SMALLER_THAN" =>
              (Rejects(a, b) <=> IF correct THEN Less(b, a) \/ Same(a, b) ELSE Less(a, b))
         /\ rel = "LARGER_EQ_THAN" =>
              (Rejects(a, b) <=> IF correct THEN Less(a, b) ELSE Less(b, a) \/ Same(a, b))
         /\ rel = "SMALLER_EQ_THAN" =>
              (Rejects(a, b) <=> IF correct THEN Less(b, a) ELSE Less(a, b) \/ Same(a, b))
<1> USE DEF Rejects
<1>1. rel = "XOR" => (Rejects(a, b) <=> ~correct /\ Same(a, Complement(b)))
  BY Zenon
<1>2. rel = "EQUIVALENCE" => (Rejects(a, b) <=> ~correct /\ Same(a, b))
  BY Zenon
<1>3. rel = "LARGER_THAN" =>
        (Rejects(a, b) <=> IF correct THEN Less(a, b) \/ Same(a, b) ELSE Less(b, a))
  BY Zenon
<1>4. rel = "SMALLER_THAN" =>
        (Rejects(a, b) <=> IF correct THEN Less(b, a) \/ Same(a, b) ELSE Less(a, b))
  BY Zenon
<1>5. rel = "LARGER_EQ_THAN" =>
        (Rejects(a, b) <=> IF correct THEN Less(a, b) ELSE Less(b, a) \/ Same(a, b))
  BY Zenon
<1>6. rel = "SMALLER_EQ_THAN" =>
        (Rejects(a, b) <=> IF correct THEN Less(b, a) ELSE Less(a, b) \/ Same(a, b))
  BY Zenon
<1> QED BY <1>1, <1>2, <1>3, <1>4, <1>5, <1>6

\* What is not rejected has the relation, or has not, as asked for: comparing fewer
\* bits for equality than there are only makes the loops reject more.
LEMMA AcceptedHolds ==
  ASSUME NEW a \in Block, NEW b \in Block, Size \in 1 .. BlockBits, correct \in BOOLEAN,
         rel \in Relation \ {"NO_RELATION"}, Drawn(a, b), ~Rejects(a, b)
  PROVE  correct <=> Holds(Size, rel, a, b)
<1>1. PICK L \in Nat : L = Size /\ L <= BlockBits
  BY GenPatAssumption
<1>2. \A i \in 0 .. L - 1 : a[i] \in Bit /\ b[i] \in Bit /\ i \in 0 .. BlockBits - 1
  BY <1>1, GenPatAssumption DEF Block
<1>3. PICK c \in 0 .. L : c = ComparedBits
  BY <1>1, ComparedBitsBound
<1>4. (\A i \in 0 .. L - 1 : a[i] = b[i]) => Same(a, b)
  <2>1. \A i \in 0 .. c - 1 : i \in 0 .. L - 1
    BY <1>1
  <2> QED BY <1>3, <2>1 DEF Same
<1>5. /\ Below(L, a, b) \/ Below(L, b, a) \/ \A i \in 0 .. L - 1 : a[i] = b[i]
      /\ ~ (Below(L, a, b) /\ Below(L, b, a))
      /\ (\A i \in 0 .. L - 1 : a[i] = b[i]) => ~Below(L, a, b) /\ ~Below(L, b, a)
  BY <1>2, Trichotomy
<1>6. (Less(a, b) <=> Below(L, a, b)) /\ (Less(b, a) <=> Below(L, b, a))
  BY <1>1 DEF Less
<1>7. \A i \in 0 .. L - 1 : /\ Complement(b)[i] # b[i]
                            /\ a[i] # Complement(b)[i] <=> a[i] = b[i]
  <2>1. \A i \in 0 .. BlockBits - 1 : Complement(b)[i] = IF b[i] = "0" THEN "1" ELSE "0"
    BY DEF Complement, Block
  <2> QED BY <1>2, <2>1 DEF Bit
<1>8. CASE rel = "XOR"
  <2>1. ASSUME correct PROVE \A i \in 0 .. L - 1 : a[i] # b[i]
    <3>1. b = Complement(a)
      BY <1>8, <2>1 DEF Drawn
    <3>2. \A i \in 0 .. BlockBits - 1 : Complement(a)[i] = IF a[i] = "0" THEN "1" ELSE "0"
      BY DEF Complement, Block
    <3> QED BY <1>2, <3>1, <3>2 DEF Bit
  <2>2. ASSUME ~correct PROVE ~ \A i \in 0 .. L - 1 : a[i] # b[i]
    <3>1. ~Same(a, Complement(b))
      BY <1>8, <2>2, RejectsIs
    <3>2. PICK i \in 0 .. c - 1 : a[i] # Complement(b)[i]
      BY <1>3, <3>1 DEF Same
    <3>3. i \in 0 .. L - 1
      BY <1>1, <1>3
    <3> QED BY <1>7, <3>2, <3>3
  <2> QED BY <1>1, <1>8, <2>1, <2>2 DEF Holds
<1>9. CASE rel = "EQUIVALENCE"
  <2>1. ASSUME correct PROVE \A i \in 0 .. L - 1 : a[i] = b[i]
    BY <1>9, <2>1 DEF Drawn
  <2>2. ASSUME ~correct PROVE ~ \A i \in 0 .. L - 1 : a[i] = b[i]
    BY <1>4, <1>9, <2>2, RejectsIs
  <2> QED BY <1>1, <1>9, <2>1, <2>2 DEF Holds
<1>10. CASE rel = "LARGER_THAN"
  <2>1. correct <=> Below(L, b, a)
    BY <1>4, <1>5, <1>6, <1>10, RejectsIs
  <2> QED BY <1>1, <1>10, <2>1 DEF Holds
<1>11. CASE rel = "SMALLER_THAN"
  <2>1. correct <=> Below(L, a, b)
    BY <1>4, <1>5, <1>6, <1>11, RejectsIs
  <2> QED BY <1>1, <1>11, <2>1 DEF Holds
<1>12. CASE rel = "LARGER_EQ_THAN"
  <2>1. correct <=> ~Below(L, a, b)
    BY <1>4, <1>5, <1>6, <1>12, RejectsIs
  <2> QED BY <1>1, <1>12, <2>1 DEF Holds
<1>13. CASE rel = "SMALLER_EQ_THAN"
  <2>1. correct <=> ~Below(L, b, a)
    BY <1>4, <1>5, <1>6, <1>13, RejectsIs
  <2> QED BY <1>1, <1>13, <2>1 DEF Holds
<1> QED BY <1>8, <1>9, <1>10, <1>11, <1>12, <1>13 DEF Relation

\* A pair of variables, and no input twice.
LEMMA PairIs ==
  ASSUME NEW vw \in VarPairs
  PROVE  /\ vw = <<vw[1], vw[2]>>
         /\ SameLength(vw[1], vw[2]) /\ Len(vw[1]) \in 1 .. BlockBits
         /\ \A m, n \in 1 .. Len(vw[1]) :
              /\ vw[1][m] # vw[2][n]
              /\ m # n => vw[1][m] # vw[1][n] /\ vw[2][m] # vw[2][n]
<1>1. vw \in Seq(PI) \X Seq(PI)
  BY GenPatAssumption
<1>2. DOMAIN vw[1] = 1 .. Len(vw[1])
  BY <1>1
<1>3. Len(vw[1]) = Len(vw[2]) /\ Len(vw[1]) \in 1 .. BlockBits
  BY GenPatAssumption
<1>4. Len(vw[1]) # 0
  BY <1>3, GenPatAssumption
<1>5. \A m, n \in DOMAIN vw[1] :
        /\ vw[1][m] # vw[2][n]
        /\ m # n => vw[1][m] # vw[1][n] /\ vw[2][m] # vw[2][n]
  BY GenPatAssumption
<1> QED BY <1>1, <1>2, <1>3, <1>4, <1>5 DEF SameLength

\* One variable is written: its inputs get the bits, all others keep theirs.
LEMMA WriteOne ==
  ASSUME NEW v \in Seq(PI), Len(v) <= BlockBits, NEW x \in Point, NEW b \in Block,
         \A m, n \in 1 .. Len(v) : m # n => v[m] # v[n]
  PROVE  /\ Write(x, v, b) \in Point
         /\ \A n \in 1 .. Len(v) : Write(x, v, b)[v[n]] = b[Len(v) - n]
         /\ \A i \in PI : (\A n \in 1 .. Len(v) : v[n] # i) => Write(x, v, b)[i] = x[i]
<1>1. PICK L \in Nat : L = Len(v) /\ DOMAIN v = 1 .. L /\ \A n \in 1 .. L : v[n] \in PI
  OBVIOUS
<1>2. \A n \in 1 .. L : b[L - n] \in Bit
  <2>1. BlockBits \in Nat /\ \A n \in 1 .. L : L - n \in 0 .. BlockBits - 1
    BY <1>1, GenPatAssumption
  <2> QED BY <2>1 DEF Block
<1> DEFINE at(i) == CHOOSE n \in DOMAIN v : v[n] = i
<1>3. \A n \in 1 .. L : at(v[n]) = n
  BY <1>1
<1>4. Write(x, v, b)
        = [i \in PI |-> IF \E n \in DOMAIN v : v[n] = i THEN b[Len(v) - at(i)] ELSE x[i]]
  BY DEF Write
<1> HIDE DEF at
<1>5. \A n \in 1 .. L : Write(x, v, b)[v[n]] = b[L - n]
  BY <1>1, <1>3, <1>4
<1>6. \A i \in PI : (\A n \in 1 .. L : v[n] # i) => Write(x, v, b)[i] = x[i]
  BY <1>1, <1>4
<1>7. \A i \in PI : Write(x, v, b)[i] \in Bit
  <2> SUFFICES ASSUME NEW i \in PI PROVE Write(x, v, b)[i] \in Bit
    OBVIOUS
  <2>1. CASE \E n \in 1 .. L : v[n] = i
    BY <1>2, <1>5, <2>1
  <2>2. CASE \A n \in 1 .. L : v[n] # i
    BY <1>6, <2>2 DEF Point
  <2> QED BY <2>1, <2>2
<1>8. Write(x, v, b) \in Point
  BY <1>4, <1>7 DEF Point
<1> QED BY <1>1, <1>5, <1>6, <1>8

\* Both variables are written.
LEMMA WriteBoth ==
  ASSUME NEW vw \in VarPairs, NEW x \in Point, NEW a \in Block, NEW b \in Block
  PROVE  /\ Write(Write(x, vw[1], a), vw[2], b) \in Point
         /\ Reads(Write(Write(x, vw[1], a), vw[2], b), vw[1], vw[2], a, b)
<1>1. PICK v, w : vw = <<v, w>>
  BY PairIs
<1>2. /\ v \in Seq(PI) /\ w \in Seq(PI) /\ Len(v) = Len(w) /\ Len(v) \in 1 .. BlockBits
      /\ \A m, n \in 1 .. Len(v) : /\ v[m] # w[n]
                                   /\ m # n => v[m] # v[n] /\ w[m] # w[n]
  BY <1>1, PairIs DEF SameLength
<1>3. PICK y : y = Write(x, v, a)
  OBVIOUS
<1>4. PICK z : z = Write(y, w, b)
  OBVIOUS
<1>5. Len(v) <= BlockBits /\ Len(v) \in Nat /\ BlockBits \in Nat
  BY <1>2, GenPatAssumption
<1>6. y \in Point /\ \A n \in 1 .. Len(v) : y[v[n]] = a[Len(v) - n]
  BY <1>2, <1>3, <1>5, WriteOne
<1>7. /\ z \in Point /\ \A n \in 1 .. Len(w) : z[w[n]] = b[Len(w) - n]
      /\ \A i \in PI : (\A n \in 1 .. Len(w) : w[n] # i) => z[i] = y[i]
  <2>1. w \in Seq(PI) /\ Len(w) <= BlockBits /\ y \in Point
    BY <1>2, <1>5, <1>6
  <2>2. \A m, n \in 1 .. Len(w) : m # n => w[m] # w[n]
    BY <1>2
  <2> QED BY <1>4, <2>1, <2>2, WriteOne
<1>8. \A n \in 1 .. Len(v) : v[n] \in PI
  BY <1>2
<1>9. \A n \in 1 .. Len(v) : z[v[n]] = y[v[n]]
  BY <1>2, <1>7, <1>8
<1> QED BY <1>1, <1>2, <1>3, <1>4, <1>6, <1>7, <1>9 DEF Reads

-----------------------------------------------------------------------------
(* The loop of gen_pat.                                                    *)

\* What leaves the loop has the relation, or has not, as asked for.
ChosenFits ==
  pc = "assign" /\ rel # "NO_RELATION" => (correct <=> Holds(Size, rel, p[1], p[2]))

IInv == TypeOK /\ ChosenFits /\ CircuitSeesDrawn

\* The inputs that are not drawn are all 0 or all 1.
LEMMA CornerType ==
  ASSUME NEW b \in Bit
  PROVE  Corner(AllFree, b) \in Point
BY DEF Corner, AllFree, Point, PI

\* The invariant holds when gen_pat is called.
LEMMA InitIInv == Init => IInv
<1> SUFFICES ASSUME Init PROVE IInv
  OBVIOUS
<1>1. ZeroBlock \in Block
  BY DEF ZeroBlock, Block, Bit
<1>2. pat \in Point
  BY CornerType DEF Init
<1>3. rel \in Relation /\ correct \in BOOLEAN
  BY GenPatAssumption DEF Init
<1> QED BY <1>1, <1>2, <1>3 DEF Init, IInv, TypeOK, ChosenFits, CircuitSeesDrawn

\* The length of the variables is one a block has room for.
LEMMA SizeIs ==
  ASSUME vars2 \in VarPairs
  PROVE  Size \in 1 .. BlockBits
BY PairIs DEF Size

\* Every step keeps the invariant.
LEMMA NextIInv == IInv /\ [Next]_vars => IInv'
<1> SUFFICES ASSUME IInv, [Next]_vars PROVE IInv'
  OBVIOUS
<1> USE DEF IInv, TypeOK
<1>1. CASE Reject
  BY <1>1 DEF Reject, ChosenFits, CircuitSeesDrawn
<1>2. CASE Accept
  <2>1. PICK a \in Block, b \in Block : Drawn(a, b) /\ ~Rejects(a, b) /\ p' = <<a, b>>
    BY <1>2 DEF Accept
  <2>2. rel # "NO_RELATION" => (correct <=> Holds(Size, rel, a, b))
    BY <2>1, SizeIs, AcceptedHolds
  <2>3. /\ Size' = Size /\ rel' = rel /\ correct' = correct
        /\ p'[1] = a /\ p'[2] = b
    BY <1>2, <2>1 DEF Accept, Size
  <2>4. ChosenFits'
    BY <2>2, <2>3 DEF ChosenFits
  <2> QED BY <1>2, <2>1, <2>4 DEF Accept, CircuitSeesDrawn
<1>3. CASE Assign2
  <2>1. PICK v, w : vars2 = <<v, w>> /\ SameLength(v, w) /\ Len(v) \in 1 .. BlockBits
    BY PairIs
  <2>2. PICK a \in Block, b \in Block : p = <<a, b>>
    OBVIOUS
  <2>3. pat' = Write(Write(pat, v, a), w, b)
    BY <1>3, <2>1, <2>2 DEF Assign2
  <2>4. pat' \in Point /\ Reads(pat', v, w, a, b)
    BY <2>1, <2>2, <2>3, WriteBoth
  <2>5. rel # "NO_RELATION" => (correct <=> Holds(Len(v), rel, a, b))
    BY <1>3, <2>1, <2>2 DEF Assign2, ChosenFits, Size
  <2>6. BlockBits \in Nat /\ Len(v) <= BlockBits
    BY <2>1, GenPatAssumption
  <2>7. rel # "NO_RELATION" => (pat' \in Fanout(rel, v, w) <=> correct)
    BY <2>1, <2>4, <2>5, <2>6, FanoutSees
  <2>8. vars2' = <<v, w>> /\ rel' = rel /\ correct' = correct /\ pc' = "done"
    BY <1>3, <2>1 DEF Assign2
  <2>9. Fanout(rel, v, w)' = Fanout(rel, v, w)
    BY <2>8 DEF Fanout
  <2>10. CircuitSeesDrawn'
    BY <2>7, <2>8 DEF CircuitSeesDrawn
  <2> QED BY <1>3, <2>4, <2>10 DEF Assign2, ChosenFits
<1>4. CASE Returned \/ UNCHANGED vars
  BY <1>4 DEF Returned, vars, ChosenFits, CircuitSeesDrawn, Size
<1> QED BY <1>1, <1>2, <1>3, <1>4 DEF Next

\* The inductive invariant holds throughout.
LEMMA Inductive == Spec => []IInv
BY InitIInv, NextIInv, PTL DEF Spec

\* Every bit of the two blocks is defined, whatever the lengths and the relation
\* (pattern.cpp:10-14).
THEOREM TypeCorrect == Spec => []TypeOK
<1>1. IInv => TypeOK
  BY DEF IInv
<1> QED BY <1>1, Inductive, PTL

\* Where gen_pat returns, the comparator of the relation sees what was asked for:
\* for variables of every length up to a block, in any inputs, and although too few
\* bits are compared for equality from 32 bits on (group.cpp:60-105).
THEOREM CircuitSees == Spec => []CircuitSeesDrawn
<1>1. IInv => CircuitSeesDrawn
  BY DEF IInv
<1> QED BY <1>1, Inductive, PTL
=============================================================================
