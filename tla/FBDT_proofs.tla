---------------------------- MODULE FBDT_proofs ----------------------------
(***************************************************************************)
(* The invariants of FBDT, proved for every number of inputs, every oracle *)
(* and every choice of the random patterns, after the lemmas about cubes   *)
(* and about what one call of find_critical_input returns.                 *)
(***************************************************************************)
EXTENDS FBDT, FiniteSetTheorems, TLAPS

-----------------------------------------------------------------------------
(* Cubes.                                                                  *)

\* The primary inputs are a finite set, hence so are the assigned ones.
LEMMA PIFinite ==
  /\ IsFiniteSet(PI)
  /\ \A s : IsFiniteSet(Free(s)) /\ IsFiniteSet(Assigned(s))
<1>1. IsFiniteSet(PI)
  BY NumPIAssumption, FS_Interval DEF PI
<1>2. \A s : Free(s) \in SUBSET PI /\ Assigned(s) \in SUBSET PI
  BY DEF Free, Assigned
<1> QED  BY <1>1, <1>2, FS_Subset

\* Assigning a bit keeps a cube a cube and makes exactly that input assigned.
LEMMA AssignBit ==
  ASSUME NEW c \in Cube, NEW pos \in PI, NEW v \in Bit
  PROVE  /\ Assign(c, pos, v) \in Cube
         /\ Assign(c, pos, v).s = [c.s EXCEPT ![pos] = v]
         /\ Assign(c, pos, v).tend = c.tend
         /\ Free(Assign(c, pos, v).s) = Free(c.s) \ {pos}
<1> DEFINE d == Assign(c, pos, v)
<1>1. v \in Bit \cup {DontCare} /\ v # DontCare
  BY DEF Bit, DontCare
<1>2. d.s = [c.s EXCEPT ![pos] = v] /\ d.tend = c.tend
  BY DEF Assign, Cube
<1>3. [c.s EXCEPT ![pos] = v] \in CubeString
  BY <1>1 DEF Cube, CubeString
<1>4. d \in Cube
  BY <1>3 DEF Assign, Cube
<1>5. Free(d.s) = Free(c.s) \ {pos}
  BY <1>1, <1>2 DEF Free, Cube, CubeString
<1> QED  BY <1>2, <1>4, <1>5

\* The size counter follows the string.
LEMMA AssignKeepsSize ==
  ASSUME NEW c \in Cube, NEW pos \in PI, NEW v \in Bit,
         c.size = Cardinality(Assigned(c.s))
  PROVE  Assign(c, pos, v).size = Cardinality(Assigned(Assign(c, pos, v).s))
<1> DEFINE d == Assign(c, pos, v)
<1>1. Assigned(d.s) = Assigned(c.s) \cup {pos}
  <2>1. Free(d.s) = Free(c.s) \ {pos}
    BY AssignBit
  <2> QED  BY <2>1 DEF Assigned
<1>2. pos \in Assigned(c.s) <=> c.s[pos] # DontCare
  BY DEF Assigned, Free
<1>3. d.size = IF c.s[pos] = DontCare THEN c.size + 1 ELSE c.size
  BY DEF Assign, Cube, Bit, DontCare
<1>4. Cardinality(Assigned(c.s) \cup {pos}) =
        IF pos \in Assigned(c.s) THEN Cardinality(Assigned(c.s))
                                 ELSE Cardinality(Assigned(c.s)) + 1
  BY PIFinite, FS_AddElement
<1> QED  BY <1>1, <1>2, <1>3, <1>4

\* The two cofactors of a cube cover it.
LEMMA CofactorsCover ==
  ASSUME NEW c \in Cube, NEW pos \in PI, NEW x \in Point, Covers(c.s, x)
  PROVE  Covers([c.s EXCEPT ![pos] = "0"], x) \/ Covers([c.s EXCEPT ![pos] = "1"], x)
<1>1. x[pos] = "0" \/ x[pos] = "1"
  BY DEF Point, Bit
<1>2. CASE x[pos] = "0"
  BY <1>2 DEF Covers, Cube, CubeString
<1>3. CASE x[pos] = "1"
  BY <1>3 DEF Covers, Cube, CubeString
<1> QED  BY <1>1, <1>2, <1>3

\* The corners of a cube lie in it.
LEMMA CornerInRegion ==
  ASSUME NEW s \in CubeString, NEW b \in Bit
  PROVE  Corner(s, b) \in Region(s)
BY DEF Corner, Region, Covers, Point, CubeString, Bit, DontCare

\* Flipping a free input does not leave the cube.
LEMMA FlipInRegion ==
  ASSUME NEW s \in CubeString, NEW x \in Region(s), NEW i \in Free(s)
  PROVE  Flip(x, i) \in Region(s)
<1>1. x \in Point /\ Covers(s, x) /\ i \in PI /\ s[i] = DontCare
  BY DEF Region, Free
<1>2. Flip(x, i) \in Point
  BY <1>1 DEF Flip, Point, Bit
<1>3. \A j \in PI : j # i => Flip(x, i)[j] = x[j]
  BY <1>1 DEF Flip, Point
<1>4. Covers(s, Flip(x, i))
  BY <1>1, <1>3 DEF Covers
<1> QED  BY <1>2, <1>4 DEF Region

\* A cube with a single free input has two points, each the flip of the other.
LEMMA OneFreeInput ==
  ASSUME NEW s \in CubeString, NEW i, Free(s) = {i},
         NEW x \in Region(s), NEW y \in Region(s)
  PROVE  y = x \/ y = Flip(x, i)
<1>1. x \in Point /\ y \in Point /\ Covers(s, x) /\ Covers(s, y) /\ i \in PI
  BY DEF Region, Free
<1>2. \A j \in PI : j # i => x[j] = s[j] /\ y[j] = s[j]
  BY <1>1 DEF Free, Covers, CubeString
<1>3. CASE x[i] = y[i]
  <2>1. \A j \in PI : x[j] = y[j]
    BY <1>2, <1>3
  <2> QED  BY <2>1, <1>1 DEF Point
<1>4. CASE x[i] # y[i]
  <2>1. y[i] = Flip(x, i)[i]
    BY <1>1, <1>4 DEF Point, Bit, Flip
  <2>2. \A j \in PI : y[j] = Flip(x, i)[j]
    BY <2>1, <1>1, <1>2 DEF Flip, Point
  <2>3. Flip(x, i) \in Point
    BY <1>1 DEF Flip, Point, Bit
  <2> QED  BY <2>2, <2>3, <1>1 DEF Point
<1> QED  BY <1>3, <1>4

-----------------------------------------------------------------------------
(* The samples of one call.                                                *)

\* The image of a finite set under a function is finite.
LEMMA ImageFinite ==
  ASSUME NEW S, IsFiniteSet(S), NEW f
  PROVE  IsFiniteSet({f[x] : x \in S})
<1> DEFINE T == {f[x] : x \in S}
           g == [x \in S |-> f[x]]
<1>1. g \in Surjection(S, T)
  BY DEF Surjection
<1> QED  BY <1>1, FS_Surjection

\* Golden patterns lie in the cube.
LEMMA GoldenInRegion ==
  ASSUME NEW s \in CubeString, NEW draws \in [1 .. NumDraws -> Draw(s)],
         NEW k \in GoldenIndex
  PROVE  Goldens(s, draws)[k] \in Draw(s)
<1>1. Zeros(s) \in Draw(s) /\ Ones(s) \in Draw(s)
  BY CornerInRegion, PadsAssumption DEF Zeros, Ones, Draw, Bit
<1>2. CASE k \in 1 .. NumDraws
  BY <1>2, SamplingAssumption DEF Goldens
<1>3. CASE k \notin 1 .. NumDraws
  <2>1. k = 0 \/ k = NumDraws + 1
    BY <1>3, SamplingAssumption DEF GoldenIndex
  <2>2. Goldens(s, draws)[k] \in {Zeros(s), Ones(s)}
    BY <2>1, SamplingAssumption DEF Goldens, GoldenIndex
  <2> QED  BY <2>2, <1>1
<1> QED  BY <1>2, <1>3

\* The ball around a pattern of a cube is a finite part of the cube.
LEMMA BallInCube ==
  ASSUME NEW s \in CubeString, NEW e \in Draw(s)
  PROVE  Ball(s, e) \subseteq Draw(s) /\ IsFiniteSet(Ball(s, e))
<1> DEFINE f == [i \in Free(s) |-> FlipEntry(e, i)]
           N == {f[i] : i \in Free(s)}
<1>1. Ball(s, e) = {e} \cup N
  BY DEF Ball
<1>2. \A i \in Free(s) : FlipEntry(e, i) \in Draw(s)
  <2> TAKE i \in Free(s)
  <2>1. Flip(e.bits, i) \in Region(s)
    BY FlipInRegion DEF Draw
  <2> QED  BY <2>1 DEF FlipEntry, Draw
<1>3. N \subseteq Draw(s)
  BY <1>2
<1>4. IsFiniteSet(N)
  <2> HIDE DEF f
  <2> QED  BY PIFinite, ImageFinite
<1>5. IsFiniteSet({e} \cup N)
  BY <1>4, FS_Singleton, FS_Union
<1> QED  BY <1>1, <1>3, <1>5

\* Every sample lies in the cube, there are finitely many of them, and the
\* pattern at the zero corner is one: the last golden pattern is reset_all().
LEMMA SamplesOfCube ==
  ASSUME NEW c \in Cube, NEW draws \in [1 .. NumDraws -> Draw(c.s)]
  PROVE  /\ Tested(c, draws) \subseteq Draw(c.s)
         /\ IsFiniteSet(Tested(c, draws))
         /\ Zeros(c.s) \in Tested(c, draws)
<1>0. c.s \in CubeString
  BY DEF Cube
<1>1. Zeros(c.s) \in Draw(c.s)
  BY <1>0, CornerInRegion, PadsAssumption DEF Zeros, Draw, Bit
<1>2. CASE c.size = NumPI
  BY <1>1, <1>2, FS_Singleton DEF Tested
<1>3. CASE c.size # NumPI
  <2> DEFINE g == Goldens(c.s, draws)
             f == [k \in GoldenIndex |-> Ball(c.s, g[k])]
             Balls == {f[k] : k \in GoldenIndex}
  <2>1. Tested(c, draws) = UNION Balls
    BY <1>3 DEF Tested
  <2>2. \A k \in GoldenIndex :
          Ball(c.s, g[k]) \subseteq Draw(c.s) /\ IsFiniteSet(Ball(c.s, g[k]))
    BY <1>0, GoldenInRegion, BallInCube
  <2>3. UNION Balls \subseteq Draw(c.s) /\ \A T \in Balls : IsFiniteSet(T)
    BY <2>2
  <2>4. IsFiniteSet(GoldenIndex)
    BY SamplingAssumption, FS_Interval DEF GoldenIndex
  <2>5. IsFiniteSet(Balls)
    <3> HIDE DEF f
    <3> QED  BY <2>4, ImageFinite
  <2>6. IsFiniteSet(UNION Balls)
    BY <2>3, <2>5, FS_UNION
  <2>7. Zeros(c.s) \in UNION Balls
    <3>1. NumDraws + 1 \in GoldenIndex /\ NumDraws + 1 # 0
      BY SamplingAssumption DEF GoldenIndex
    <3>2. g[NumDraws + 1] = Zeros(c.s)
      BY <3>1 DEF Goldens
    <3>3. Zeros(c.s) \in f[NumDraws + 1]
      BY <3>1, <3>2 DEF Ball
    <3> QED  BY <3>1, <3>3
  <2> HIDE DEF Balls
  <2> QED  BY <2>1, <2>3, <2>6, <2>7
<1> QED  BY <1>2, <1>3

\* The tolerated minority is never negative.
LEMMA ThresholdNat ==
  ASSUME NEW ph, IsFiniteSet(ph), NEW depth \in Int
  PROVE  Threshold(ph, depth) \in Nat
<1>1. Cardinality(ph) \in Nat
  BY FS_CardinalityType
<1>2. TolerancePercent(depth) \in {0, 1, 2, 4, 8, 16, 20}
  BY SamplingAssumption DEF TolerancePercent, Tolerance
<1>3. Cardinality(ph) * TolerancePercent(depth) \in Nat
  BY <1>1, <1>2
<1> QED  BY <1>3 DEF Threshold

\* A cube that has not converged has shown both values.
LEMMA BothValuesSampled ==
  ASSUME NEW orc, NEW ph, IsFiniteSet(ph), NEW depth \in Int,
         ~Converged(orc, ph, depth)
  PROVE  \A b \in BOOLEAN : \E e \in ph : orc[e.bits] = b
<1> SUFFICES ASSUME NEW b \in BOOLEAN, \A e \in ph : orc[e.bits] # b
             PROVE  FALSE
  OBVIOUS
<1>1. Holding(orc, ph, b) = {}
  BY DEF Holding
<1>2. Votes(orc, ph, b) = 0
  BY <1>1, FS_EmptySet DEF Votes
<1>3. Threshold(ph, depth) \in Nat
  BY ThresholdNat
<1> QED  BY <1>2, <1>3 DEF Converged

-----------------------------------------------------------------------------
(* The result of one call.                                                 *)

\* A result is a CubeInfo.
LEMMA ResultType ==
  ASSUME NEW orc, NEW c \in Cube, NEW draws, NEW r,
         FindCriticalInput(orc, c, draws, r)
  PROVE  r \in CubeInfo
<1>1. CASE XorInfo(orc, c, draws, r)
  BY <1>1 DEF XorInfo, CubeInfo
<1>2. CASE VoteInfo(orc, c, draws, r)
  BY <1>2 DEF VoteInfo, CubeInfo, PI, Converged, Majority
<1> QED  BY <1>1, <1>2 DEF FindCriticalInput

\* An exclusive-or carries the output at the zero corner of its cube.
LEMMA XorResult ==
  ASSUME NEW orc \in [Point -> BOOLEAN], NEW c \in Cube,
         NEW draws \in [1 .. NumDraws -> Draw(c.s)], NEW r,
         FindCriticalInput(orc, c, draws, r), r.isXor
  PROVE  /\ r.criticalInput \in {0, 1}
         /\ orc[Corner(c.s, "0")] = (r.criticalInput = 1)
<1>1. XorInfo(orc, c, draws, r)
  BY DEF FindCriticalInput, VoteInfo
<1>2. Zeros(c.s) \in Tested(c, draws)
  BY SamplesOfCube
<1>3. r.criticalInput = IF orc[Corner(c.s, "0")] THEN 1 ELSE 0
  BY <1>1, <1>2 DEF XorInfo
<1>4. orc[Corner(c.s, "0")] \in BOOLEAN
  <2>1. c.s \in CubeString
    BY DEF Cube
  <2>2. Corner(c.s, "0") \in Point
    BY <2>1, CornerInRegion DEF Region, Bit
  <2> QED  BY <2>2
<1> QED  BY <1>3, <1>4

\* With a single free input, a cube that is no exclusive-or is constant.
LEMMA OneFreeInputConstant ==
  ASSUME NEW orc, NEW c \in Cube,
         NEW draws \in [1 .. NumDraws -> Draw(c.s)],
         ~LooksXor(orc, c, draws), NEW ci, Free(c.s) = {ci}
  PROVE  \A x, y \in Region(c.s) : orc[x] = orc[y]
<1>0. c.s \in CubeString
  BY DEF Cube
<1>1. PICK k \in GoldenIndex : ~Toggles(orc, Goldens(c.s, draws)[k], ci)
  BY DEF LooksXor
<1> DEFINE g == Goldens(c.s, draws)[k].bits
<1>2. g \in Region(c.s)
  BY <1>0, GoldenInRegion DEF Draw
<1>3. orc[g] = orc[Flip(g, ci)]
  BY <1>1 DEF Toggles
<1>4. \A x \in Region(c.s) : x = g \/ x = Flip(g, ci)
  BY <1>0, <1>2, OneFreeInput
<1> QED  BY <1>3, <1>4

\* Otherwise the critical input is an input, and a cube with a free input that
\* is to be split has a free input besides the critical one.
LEMMA VoteResult ==
  ASSUME NEW orc \in [Point -> BOOLEAN], NEW c \in Cube, Free(c.s) # {},
         NEW draws \in [1 .. NumDraws -> Draw(c.s)], NEW r,
         FindCriticalInput(orc, c, draws, r), ~r.isXor
  PROVE  /\ r.criticalInput \in PI
         /\ ~r.isConverged => Free(c.s) \ {r.criticalInput} # {}
<1>1. VoteInfo(orc, c, draws, r)
  BY DEF FindCriticalInput, XorInfo
<1>2. r.criticalInput \in PI
  BY <1>1 DEF VoteInfo
<1>3. ASSUME ~r.isConverged, Free(c.s) \ {r.criticalInput} = {}
      PROVE  FALSE
  <2>1. Free(c.s) = {r.criticalInput}
    BY <1>3
  <2>2. ~LooksXor(orc, c, draws)
    BY <1>1 DEF VoteInfo
  <2>3. \A x, y \in Region(c.s) : orc[x] = orc[y]
    BY <2>1, <2>2, OneFreeInputConstant
  <2>4. \A e \in Tested(c, draws) : e.bits \in Region(c.s)
    BY SamplesOfCube DEF Draw
  <2>5. ~Converged(orc, Tested(c, draws), c.size)
    BY <1>1, <1>3 DEF VoteInfo
  <2>6. \A b \in BOOLEAN : \E e \in Tested(c, draws) : orc[e.bits] = b
    <3>1. IsFiniteSet(Tested(c, draws)) /\ c.size \in Int
      BY SamplesOfCube DEF Cube
    <3> QED  BY <2>5, <3>1, BothValuesSampled
  <2> QED  BY <2>3, <2>4, <2>6
<1> QED  BY <1>2, <1>3

-----------------------------------------------------------------------------
(* Small cubes: the corners and their neighbours are all there is.         *)

\* A set of at most two elements, and one of at most three.
LEMMA AtMostTwo ==
  ASSUME NEW S, IsFiniteSet(S), Cardinality(S) <= 2
  PROVE  \E a, b : S \subseteq {a, b}
<1>1. CASE S = {}
  BY <1>1
<1>2. CASE S # {}
  <2>1. PICK a : a \in S
    BY <1>2
  <2>2. /\ IsFiniteSet(S \ {a}) /\ Cardinality(S \ {a}) = Cardinality(S) - 1
        /\ Cardinality(S) \in Nat
    BY <2>1, FS_RemoveElement, FS_CardinalityType
  <2>3. CASE S \ {a} = {}
    BY <2>3
  <2>4. CASE S \ {a} # {}
    <3>1. PICK b : b \in S \ {a}
      BY <2>4
    <3>2. /\ IsFiniteSet((S \ {a}) \ {b})
          /\ Cardinality((S \ {a}) \ {b}) = Cardinality(S \ {a}) - 1
          /\ Cardinality((S \ {a}) \ {b}) \in Nat
      BY <2>2, <3>1, FS_RemoveElement, FS_CardinalityType
    <3>3. (S \ {a}) \ {b} = {}
      BY <2>2, <3>2, FS_EmptySet
    <3> QED  BY <3>3
  <2> QED  BY <2>3, <2>4
<1> QED  BY <1>1, <1>2

\* A set of at most three elements is within some three.
LEMMA AtMostThree ==
  ASSUME NEW S, IsFiniteSet(S), Cardinality(S) <= 3
  PROVE  \E a, b, c : S \subseteq {a, b, c}
<1>1. CASE S = {}
  BY <1>1
<1>2. CASE S # {}
  <2>1. PICK c : c \in S
    BY <1>2
  <2>2. /\ IsFiniteSet(S \ {c}) /\ Cardinality(S \ {c}) = Cardinality(S) - 1
        /\ Cardinality(S) \in Nat
    BY <2>1, FS_RemoveElement, FS_CardinalityType
  <2> DEFINE T == S \ {c}
  <2>3. IsFiniteSet(T) /\ Cardinality(T) <= 2
    BY <2>2
  <2>4. \E a, b : T \subseteq {a, b}
    <3> HIDE DEF T
    <3> QED  BY <2>3, AtMostTwo
  <2> QED  BY <2>4
<1> QED  BY <1>1, <1>2

\* The free inputs of a point of a cube that are 1.
OnesIn(s, x) == {i \in Free(s) : x[i] = "1"}

\* A point of a cube is determined by them.
LEMMA OnesDecide ==
  ASSUME NEW s \in CubeString, NEW x \in Region(s), NEW y \in Region(s),
         OnesIn(s, x) = OnesIn(s, y)
  PROVE  x = y
<1>1. x \in Point /\ y \in Point
  BY DEF Region
<1>2. \A i \in Free(s) : x[i] = y[i]
  <2>1. \A i \in Free(s) : i \in OnesIn(s, x) <=> i \in OnesIn(s, y)
    OBVIOUS
  <2>2. \A i \in Free(s) : /\ x[i] = "0" \/ x[i] = "1"
                           /\ y[i] = "0" \/ y[i] = "1"
    BY <1>1 DEF Free, Point, Bit
  <2> QED  BY <2>1, <2>2 DEF OnesIn
<1>3. \A i \in PI : i \notin Free(s) => x[i] = y[i]
  BY DEF Region, Covers, Free
<1>4. \A i \in PI : x[i] = y[i]
  BY <1>2, <1>3
<1> QED  BY <1>1, <1>4 DEF Point

\* The points that are sampled, and their ones.
LEMMA CornerOnes ==
  ASSUME NEW s \in CubeString
  PROVE  /\ Corner(s, "0") \in Region(s) /\ OnesIn(s, Corner(s, "0")) = {}
         /\ Corner(s, "1") \in Region(s) /\ OnesIn(s, Corner(s, "1")) = Free(s)
<1>1. Corner(s, "0") \in Region(s) /\ Corner(s, "1") \in Region(s)
  BY CornerInRegion DEF Bit
<1>2. \A i \in Free(s) : Corner(s, "0")[i] = "0" /\ Corner(s, "1")[i] = "1"
  BY DEF Corner, Free
<1> QED  BY <1>1, <1>2 DEF OnesIn

\* A flip moves one free bit between the ones and the zeros.
LEMMA FlipOnes ==
  ASSUME NEW s \in CubeString, NEW x \in Region(s), NEW i \in Free(s)
  PROVE  /\ Flip(x, i) \in Region(s)
         /\ i \notin OnesIn(s, x) => OnesIn(s, Flip(x, i)) = OnesIn(s, x) \cup {i}
         /\ i \in OnesIn(s, x) => OnesIn(s, Flip(x, i)) = OnesIn(s, x) \ {i}
<1>1. x \in Point /\ i \in PI
  BY DEF Region, Free
<1>2. \A j \in PI : j # i => Flip(x, i)[j] = x[j]
  BY <1>1 DEF Flip, Point
<1>3. Flip(x, i)[i] = IF x[i] = "0" THEN "1" ELSE "0"
  BY <1>1 DEF Flip, Point
<1>4. x[i] = "0" \/ x[i] = "1"
  BY <1>1 DEF Point, Bit
<1>5. \A j \in Free(s) : j \in PI
  BY DEF Free
<1>6. i \notin OnesIn(s, x) => OnesIn(s, Flip(x, i)) = OnesIn(s, x) \cup {i}
  BY <1>2, <1>3, <1>4, <1>5 DEF OnesIn
<1>7. i \in OnesIn(s, x) => OnesIn(s, Flip(x, i)) = OnesIn(s, x) \ {i}
  BY <1>2, <1>3, <1>4, <1>5 DEF OnesIn
<1> QED  BY <1>6, <1>7, FlipInRegion

\* A point is a corner of the cube or differs from one in a single free input.
NearCorner(s, x) ==
  \/ x \in {Corner(s, "0"), Corner(s, "1")}
  \/ \E i \in Free(s) : x \in {Flip(Corner(s, "0"), i), Flip(Corner(s, "1"), i)}

\* With at most three free inputs every point is near a corner, hence sampled.
LEMMA AllNearCorners ==
  ASSUME NEW s \in CubeString, Cardinality(Free(s)) <= 3, NEW x \in Region(s)
  PROVE  NearCorner(s, x)
<1> DEFINE O == OnesIn(s, x)
<1>0. O \subseteq Free(s)
  BY DEF OnesIn
<1>1. PICK a, b, c : Free(s) \subseteq {a, b, c}
  BY PIFinite, AtMostThree
<1>2. \/ \A i, j \in O : i = j
      \/ \A i, j \in Free(s) \ O : i = j
  <2> HIDE DEF O
  <2> QED  BY <1>0, <1>1
<1>3. O = {} => x = Corner(s, "0")
  BY CornerOnes, OnesDecide
<1>4. O = Free(s) => x = Corner(s, "1")
  BY CornerOnes, OnesDecide
<1>5. ASSUME NEW i \in O, O = {i}
      PROVE  x = Flip(Corner(s, "0"), i)
  <2>1. /\ Flip(Corner(s, "0"), i) \in Region(s)
        /\ OnesIn(s, Flip(Corner(s, "0"), i)) = {i}
    BY <1>0, CornerOnes, FlipOnes
  <2> QED  BY <1>5, <2>1, OnesDecide
<1>6. ASSUME NEW i \in Free(s), i \notin O, Free(s) \ O = {i}
      PROVE  x = Flip(Corner(s, "1"), i)
  <2>1. /\ Flip(Corner(s, "1"), i) \in Region(s)
        /\ OnesIn(s, Flip(Corner(s, "1"), i)) = Free(s) \ {i}
    BY CornerOnes, FlipOnes
  <2>2. Free(s) \ {i} = O
    BY <1>0, <1>6
  <2> QED  BY <2>1, <2>2, OnesDecide
<1> HIDE DEF O
<1>7. CASE \A i, j \in O : i = j
  <2>1. O = {} \/ \E i \in O : O = {i}
    BY <1>7
  <2> QED  BY <1>0, <1>3, <1>5, <2>1 DEF NearCorner
<1>8. CASE \A i, j \in Free(s) \ O : i = j
  <2>1. O = Free(s) \/ \E i \in Free(s) : i \notin O /\ Free(s) \ O = {i}
    BY <1>0, <1>8
  <2> QED  BY <1>4, <1>6, <2>1 DEF NearCorner
<1> QED  BY <1>2, <1>7, <1>8

-----------------------------------------------------------------------------
(* The result of one call on a small cube.                                 *)

\* The value an exclusive-or of a cube gives to a point with at most two ones.
LEMMA XorValueIs ==
  ASSUME NEW s \in CubeString, NEW x, NEW v \in {0, 1}
  PROVE  /\ OnesIn(s, x) = {} => (XorValue(<<s, v>>, x) <=> v = 1)
         /\ \A a : OnesIn(s, x) = {a} => (XorValue(<<s, v>>, x) <=> v = 0)
         /\ \A a, b : a # b /\ OnesIn(s, x) = {a, b} => (XorValue(<<s, v>>, x) <=> v = 1)
<1>1. XorValue(<<s, v>>, x) <=> ((Cardinality(OnesIn(s, x)) % 2) + v) % 2 = 1
  BY DEF XorValue, Parity, OnesIn
<1>2. CASE OnesIn(s, x) = {}
  <2>1. Cardinality(OnesIn(s, x)) = 0
    BY <1>2, FS_EmptySet
  <2>2. ((0 % 2) + v) % 2 = 1 <=> v = 1
    OBVIOUS
  <2> QED  BY <1>1, <1>2, <2>1, <2>2
<1>3. ASSUME NEW a, OnesIn(s, x) = {a}
      PROVE  XorValue(<<s, v>>, x) <=> v = 0
  <2>1. Cardinality(OnesIn(s, x)) = 1
    BY <1>3, FS_Singleton
  <2>2. ((1 % 2) + v) % 2 = 1 <=> v = 0
    OBVIOUS
  <2> QED  BY <1>1, <2>1, <2>2
<1>4. ASSUME NEW a, NEW b, a # b, OnesIn(s, x) = {a, b}
      PROVE  XorValue(<<s, v>>, x) <=> v = 1
  <2> DEFINE T == {a}
  <2>0. IsFiniteSet(T) /\ Cardinality(T) = 1 /\ b \notin T
    BY <1>4, FS_Singleton
  <2>1. Cardinality({a} \cup {b}) = 2
    <3>1. Cardinality(T \cup {b}) = 2
      <4> HIDE DEF T
      <4> QED  BY <2>0, FS_AddElement
    <3> QED  BY <3>1
  <2>2. {a} \cup {b} = OnesIn(s, x)
    BY <1>4
  <2>3. ((2 % 2) + v) % 2 = 1 <=> v = 1
    OBVIOUS
  <2> QED  BY <1>1, <2>1, <2>2, <2>3
<1> QED  BY <1>2, <1>3, <1>4

\* With at most two free inputs: the zero corner, its neighbours, and the one
\* corner, which is then the neighbour of both neighbours of the zero corner.
LEMMA TwoFreeInputs ==
  ASSUME NEW s \in CubeString, Cardinality(Free(s)) <= 2, NEW x \in Region(s)
  PROVE  \/ OnesIn(s, x) = {} /\ x = Corner(s, "0")
         \/ \E a \in Free(s) : OnesIn(s, x) = {a} /\ x = Flip(Corner(s, "0"), a)
         \/ \E a, b \in Free(s) :
              /\ a # b /\ OnesIn(s, x) = {a, b} /\ x = Corner(s, "1")
              /\ Flip(Corner(s, "1"), b) = Flip(Corner(s, "0"), a)
<1> DEFINE O == OnesIn(s, x)
<1>0. O \subseteq Free(s)
  BY DEF OnesIn
<1>1. PICK a, b : Free(s) \subseteq {a, b}
  BY PIFinite, AtMostTwo
<1>2. CASE O = {}
  BY <1>2, CornerOnes, OnesDecide
<1>3. ASSUME NEW i \in O, O = {i}
      PROVE  x = Flip(Corner(s, "0"), i)
  <2>1. /\ Flip(Corner(s, "0"), i) \in Region(s)
        /\ OnesIn(s, Flip(Corner(s, "0"), i)) = {i}
    BY <1>0, CornerOnes, FlipOnes
  <2> QED  BY <1>3, <2>1, OnesDecide
<1>4. CASE a # b /\ O = {a, b}
  <2>1. a \in Free(s) /\ b \in Free(s) /\ Free(s) = {a, b}
    BY <1>0, <1>1, <1>4
  <2>2. x = Corner(s, "1")
    BY <1>4, <2>1, CornerOnes, OnesDecide
  <2>3. /\ Flip(Corner(s, "1"), b) \in Region(s)
        /\ OnesIn(s, Flip(Corner(s, "1"), b)) = {a}
    BY <1>4, <2>1, CornerOnes, FlipOnes
  <2>4. /\ Flip(Corner(s, "0"), a) \in Region(s)
        /\ OnesIn(s, Flip(Corner(s, "0"), a)) = {a}
    BY <2>1, CornerOnes, FlipOnes
  <2>5. Flip(Corner(s, "1"), b) = Flip(Corner(s, "0"), a)
    BY <2>3, <2>4, OnesDecide
  <2> QED  BY <1>4, <2>1, <2>2, <2>5
<1>5. O = {} \/ (\E i \in O : O = {i}) \/ (a # b /\ O = {a, b})
  <2> HIDE DEF O
  <2> QED  BY <1>0, <1>1
<1> HIDE DEF O
<1>6. CASE \E i \in O : O = {i}
  BY <1>0, <1>3, <1>6 DEF O
<1> QED  BY <1>2, <1>4, <1>5, <1>6

\* The corners and their neighbours are sampled as golden patterns or next to one.
LEMMA CornersSampled ==
  ASSUME NEW c \in Cube, c.size # NumPI,
         NEW draws \in [1 .. NumDraws -> Draw(c.s)]
  PROVE  /\ 0 \in GoldenIndex /\ NumDraws + 1 \in GoldenIndex
         /\ Goldens(c.s, draws)[0] = Ones(c.s)
         /\ Goldens(c.s, draws)[NumDraws + 1] = Zeros(c.s)
         /\ \A x : NearCorner(c.s, x) => \E e \in Tested(c, draws) : e.bits = x
<1> DEFINE g == Goldens(c.s, draws)
<1>1. 0 \in GoldenIndex /\ NumDraws + 1 \in GoldenIndex /\ NumDraws + 1 # 0
  BY SamplingAssumption DEF GoldenIndex
<1>2. g[0] = Ones(c.s) /\ g[NumDraws + 1] = Zeros(c.s)
  BY <1>1 DEF Goldens
<1>3. Ball(c.s, g[0]) \subseteq Tested(c, draws)
      /\ Ball(c.s, g[NumDraws + 1]) \subseteq Tested(c, draws)
  BY <1>1 DEF Tested
<1>4. ASSUME NEW b, NEW e, e.bits = Corner(c.s, b), e = Ones(c.s) \/ e = Zeros(c.s)
      PROVE  /\ e \in Ball(c.s, e)
             /\ \A i \in Free(c.s) : /\ FlipEntry(e, i) \in Ball(c.s, e)
                                     /\ FlipEntry(e, i).bits = Flip(e.bits, i)
  BY <1>4 DEF Ball, FlipEntry, Ones, Zeros
<1>5. Ones(c.s).bits = Corner(c.s, "1") /\ Zeros(c.s).bits = Corner(c.s, "0")
  BY DEF Ones, Zeros
<1> HIDE DEF g
<1>6. ASSUME NEW x, NearCorner(c.s, x)
      PROVE  \E e \in Tested(c, draws) : e.bits = x
  BY <1>2, <1>3, <1>4, <1>5, <1>6 DEF NearCorner
<1> QED  BY <1>1, <1>2, <1>6 DEF g

\* A cube with at most two free inputs that looks like an exclusive-or is one: the
\* recorded value is that of the black box at each of its points.
LEMMA XorExact ==
  ASSUME NEW orc \in [Point -> BOOLEAN], NEW c \in Cube, c.size # NumPI,
         Cardinality(Free(c.s)) <= 2,
         NEW draws \in [1 .. NumDraws -> Draw(c.s)],
         LooksXor(orc, c, draws),
         NEW v \in {0, 1}, orc[Corner(c.s, "0")] <=> v = 1
  PROVE  \A x \in Region(c.s) : orc[x] <=> XorValue(<<c.s, v>>, x)
<1> DEFINE s == c.s
           zero == Corner(s, "0")
           one == Corner(s, "1")
<1>0. s \in CubeString /\ zero \in Point /\ one \in Point
  BY CornerOnes DEF Cube, Region
<1>1. \A i \in Free(s) : orc[one] # orc[Flip(one, i)] /\ orc[zero] # orc[Flip(zero, i)]
  <2>1. /\ 0 \in GoldenIndex /\ NumDraws + 1 \in GoldenIndex
        /\ Goldens(c.s, draws)[0] = Ones(c.s)
        /\ Goldens(c.s, draws)[NumDraws + 1] = Zeros(c.s)
    BY CornersSampled
  <2>2. \A i \in Free(c.s) : Toggles(orc, Ones(c.s), i) /\ Toggles(orc, Zeros(c.s), i)
    BY <2>1 DEF LooksXor
  <2> QED  BY <2>2 DEF Toggles, Zeros, Ones
<1>2. \A y \in Point : orc[y] \in BOOLEAN
  OBVIOUS
<1>3. \A i \in Free(s) : Flip(zero, i) \in Point
  BY <1>0, CornerOnes, FlipOnes DEF Region
<1> SUFFICES ASSUME NEW x \in Region(s)
             PROVE  orc[x] <=> XorValue(<<s, v>>, x)
  OBVIOUS
<1>4. /\ OnesIn(s, x) = {} => (XorValue(<<s, v>>, x) <=> v = 1)
      /\ \A a : OnesIn(s, x) = {a} => (XorValue(<<s, v>>, x) <=> v = 0)
      /\ \A a, b : a # b /\ OnesIn(s, x) = {a, b} => (XorValue(<<s, v>>, x) <=> v = 1)
  BY <1>0, XorValueIs
<1>5. \/ OnesIn(s, x) = {} /\ x = zero
      \/ \E a \in Free(s) : OnesIn(s, x) = {a} /\ x = Flip(zero, a)
      \/ \E a, b \in Free(s) :
           /\ a # b /\ OnesIn(s, x) = {a, b} /\ x = one
           /\ Flip(one, b) = Flip(zero, a)
  BY <1>0, TwoFreeInputs
<1>6. orc[zero] <=> v = 1
  OBVIOUS
<1> HIDE DEF s, zero, one
<1>7. CASE OnesIn(s, x) = {} /\ x = zero
  BY <1>4, <1>6, <1>7
<1>8. ASSUME NEW a \in Free(s), OnesIn(s, x) = {a}, x = Flip(zero, a)
      PROVE  orc[x] <=> XorValue(<<s, v>>, x)
  <2>1. orc[x] <=> ~ orc[zero]
    BY <1>0, <1>1, <1>2, <1>3, <1>8
  <2> QED  BY <1>4, <1>6, <1>8, <2>1
<1>9. ASSUME NEW a \in Free(s), NEW b \in Free(s), a # b, OnesIn(s, x) = {a, b},
             x = one, Flip(one, b) = Flip(zero, a)
      PROVE  orc[x] <=> XorValue(<<s, v>>, x)
  <2>1. orc[x] <=> orc[zero]
    BY <1>0, <1>1, <1>2, <1>3, <1>9
  <2> QED  BY <1>4, <1>6, <1>9, <2>1
<1> QED  BY <1>5, <1>7, <1>8, <1>9

\* Without tolerance, a cube that has converged has shown one value only, and this
\* is the majority.
LEMMA ConvergedShows ==
  ASSUME NEW orc \in [Point -> BOOLEAN], NEW ph, IsFiniteSet(ph), ph # {},
         NEW depth \in Int, depth < ExactDepth, Converged(orc, ph, depth),
         \A e \in ph : e.bits \in Point
  PROVE  \A e \in ph : orc[e.bits] = Majority(orc, ph)
<1>1. Threshold(ph, depth) = 0
  <2>1. TolerancePercent(depth) = 0
    BY SamplingAssumption DEF TolerancePercent
  <2>2. Cardinality(ph) \in Nat
    BY FS_CardinalityType
  <2> QED  BY <2>1, <2>2 DEF Threshold
<1>2. \A b \in BOOLEAN : IsFiniteSet(Holding(orc, ph, b))
  <2>1. \A b \in BOOLEAN : Holding(orc, ph, b) \in SUBSET ph
    BY DEF Holding
  <2> QED  BY <2>1, FS_Subset
<1>3. \A b \in BOOLEAN : /\ Votes(orc, ph, b) \in Nat
                         /\ Votes(orc, ph, b) = 0 <=> Holding(orc, ph, b) = {}
  BY <1>2, FS_CardinalityType, FS_EmptySet DEF Votes
<1>4. PICK b \in BOOLEAN : Votes(orc, ph, b) <= 0
  BY <1>1 DEF Converged
<1>5. Votes(orc, ph, b) = 0 /\ Holding(orc, ph, b) = {}
  BY <1>3, <1>4
<1>6. \A e \in ph : orc[e.bits] \in BOOLEAN
  OBVIOUS
<1>7. \A e \in ph : orc[e.bits] = ~b
  BY <1>5, <1>6 DEF Holding
<1>8. Votes(orc, ph, ~b) # 0
  <2>1. Holding(orc, ph, ~b) # {}
    BY <1>7 DEF Holding
  <2> QED  BY <1>3, <2>1
<1> DEFINE yes == Votes(orc, ph, TRUE)
           no == Votes(orc, ph, FALSE)
<1>9. /\ yes \in Nat /\ no \in Nat /\ (Majority(orc, ph) <=> yes > no)
      /\ b = TRUE => yes = 0
      /\ b = FALSE => no = 0 /\ yes # 0
  <2>1. yes \in Nat /\ no \in Nat
    BY <1>3
  <2>2. Majority(orc, ph) <=> yes > no
    BY Zenon DEF Majority
  <2>3. b = TRUE => yes = 0
    BY <1>5, Zenon
  <2>4. ~ FALSE = TRUE
    OBVIOUS
  <2>5. b = FALSE => no = 0 /\ yes # 0
    BY <1>5, <1>8, <2>4, Zenon
  <2> QED  BY <2>1, <2>2, <2>3, <2>5, Zenon
<1> HIDE DEF yes, no
<1>10. Majority(orc, ph) <=> ~b
  BY <1>9
<1>11. Majority(orc, ph) \in BOOLEAN
  <2>1. (yes > no) \in BOOLEAN
    BY <1>9
  <2>2. Majority(orc, ph) = (yes > no)
    BY Zenon DEF Majority, yes, no
  <2> QED  BY <2>1, <2>2, Zenon
<1>12. Majority(orc, ph) = ~b
  BY <1>10, <1>11
<1> QED  BY <1>7, <1>12, Zenon

\* Such a cube with at most three free inputs is constant: all of it is sampled.
LEMMA ConvergedExact ==
  ASSUME NEW orc \in [Point -> BOOLEAN], NEW c \in Cube, c.size # NumPI,
         Cardinality(Free(c.s)) <= 3, c.size < ExactDepth,
         NEW draws \in [1 .. NumDraws -> Draw(c.s)],
         Converged(orc, Tested(c, draws), c.size)
  PROVE  \A x \in Region(c.s) : orc[x] = Majority(orc, Tested(c, draws))
<1>0. c.s \in CubeString /\ c.size \in Int
  BY DEF Cube
<1> DEFINE ph == Tested(c, draws)
<1>1. IsFiniteSet(ph) /\ ph # {} /\ \A e \in ph : e.bits \in Region(c.s)
  BY SamplesOfCube DEF Draw
<1>2. \A e \in ph : e.bits \in Point
  BY <1>1 DEF Region
<1>3. \A x \in Region(c.s) : \E e \in ph : e.bits = x
  <2>1. \A x : NearCorner(c.s, x) => \E e \in ph : e.bits = x
    BY CornersSampled
  <2>2. \A x \in Region(c.s) : NearCorner(c.s, x)
    BY <1>0, AllNearCorners
  <2> QED  BY <2>1, <2>2
<1> HIDE DEF ph
<1>4. \A e \in ph : orc[e.bits] = Majority(orc, ph)
  BY <1>0, <1>1, <1>2, ConvergedShows DEF ph
<1> QED  BY <1>3, <1>4 DEF ph

\* When no flip changed the output next to the corners of a cube with at most two
\* free inputs, the cube is constant.
LEMMA QuietIsConstant ==
  ASSUME NEW orc \in [Point -> BOOLEAN], NEW s \in CubeString,
         Cardinality(Free(s)) <= 2,
         \A i \in Free(s) : /\ orc[Flip(Corner(s, "0"), i)] = orc[Corner(s, "0")]
                            /\ orc[Flip(Corner(s, "1"), i)] = orc[Corner(s, "1")]
  PROVE  \A x \in Region(s) : orc[x] = orc[Corner(s, "0")]
BY TwoFreeInputs

\* A cube with at most two free inputs that is to be split is split on one of them.
LEMMA SplitsFresh ==
  ASSUME NEW orc \in [Point -> BOOLEAN], NEW c \in Cube, c.size # NumPI,
         Cardinality(Free(c.s)) <= 2,
         NEW draws \in [1 .. NumDraws -> Draw(c.s)],
         ~Converged(orc, Tested(c, draws), c.size),
         NEW ci \in PI, IsCritical(orc, c, draws, ci)
  PROVE  ci \in Free(c.s)
<1> SUFFICES ASSUME ci \notin Free(c.s) PROVE FALSE
  OBVIOUS
<1>0. c.s \in CubeString /\ c.size \in Int
  BY DEF Cube
<1> DEFINE Toggling(i) == {k \in GoldenIndex : Toggles(orc, Goldens(c.s, draws)[k], i)}
<1>1. \A i \in Free(c.s) : i \in PI /\ Cardinality(Toggling(i)) <= 0
  <2>1. Changes(orc, c, draws, ci) = 0
    BY DEF Changes
  <2>2. \A i \in Free(c.s) : i \in PI /\ Changes(orc, c, draws, i) <= 0
    BY <2>1 DEF IsCritical, Free
  <2> QED  BY <2>2 DEF Changes
<1>2. \A i \in Free(c.s) : Toggling(i) = {}
  <2>1. IsFiniteSet(GoldenIndex)
    BY SamplingAssumption, FS_Interval DEF GoldenIndex
  <2>2. ASSUME NEW i \in Free(c.s)
        PROVE  Toggling(i) = {}
    <3> DEFINE T == Toggling(i)
    <3>1. IsFiniteSet(T)
      <4>1. T \in SUBSET GoldenIndex
        OBVIOUS
      <4> HIDE DEF T
      <4> QED  BY <2>1, <4>1, FS_Subset
    <3>2. Cardinality(T) <= 0
      BY <1>1
    <3> HIDE DEF T
    <3>3. T = {}
      BY <3>1, <3>2, FS_CardinalityType, FS_EmptySet
    <3> QED  BY <3>3 DEF T
  <2> QED  BY <2>2
<1>3. \A i \in Free(c.s) : /\ orc[Flip(Corner(c.s, "0"), i)] = orc[Corner(c.s, "0")]
                           /\ orc[Flip(Corner(c.s, "1"), i)] = orc[Corner(c.s, "1")]
  <2>1. \A i \in Free(c.s), k \in GoldenIndex : ~Toggles(orc, Goldens(c.s, draws)[k], i)
    BY <1>2
  <2>2. /\ \A i \in Free(c.s) : ~Toggles(orc, Ones(c.s), i)
        /\ \A i \in Free(c.s) : ~Toggles(orc, Zeros(c.s), i)
    <3> HIDE DEF Toggling
    <3>1. /\ 0 \in GoldenIndex /\ NumDraws + 1 \in GoldenIndex
          /\ Goldens(c.s, draws)[0] = Ones(c.s)
          /\ Goldens(c.s, draws)[NumDraws + 1] = Zeros(c.s)
      BY CornersSampled
    <3> QED  BY <2>1, <3>1
  <2> QED  BY <2>2 DEF Toggles, Zeros, Ones
<1>4. \A x \in Region(c.s) : orc[x] = orc[Corner(c.s, "0")]
  BY <1>0, <1>3, QuietIsConstant
<1>5. \A b \in BOOLEAN : \E e \in Tested(c, draws) : orc[e.bits] = b
  BY <1>0, SamplesOfCube, BothValuesSampled
<1>6. \A e \in Tested(c, draws) : e.bits \in Region(c.s)
  BY SamplesOfCube DEF Draw
<1> QED  BY <1>4, <1>5, <1>6

\* The inputs are assigned or free.
LEMMA AssignedAndFree ==
  ASSUME NEW s
  PROVE  /\ Cardinality(Free(s)) \in Nat
         /\ Cardinality(Assigned(s)) = NumPI - Cardinality(Free(s))
<1>1. Free(s) \in SUBSET PI /\ PI \cap Free(s) = Free(s)
  BY DEF Free
<1>2. Cardinality(PI) = NumPI
  BY NumPIAssumption, FS_Interval DEF PI
<1>3. Cardinality(PI \ Free(s)) = Cardinality(PI) - Cardinality(PI \cap Free(s))
  BY PIFinite, FS_Difference
<1> QED  BY <1>1, <1>2, <1>3, PIFinite, FS_CardinalityType DEF Assigned

\* What a result says of a small cube is true: an exclusive-or of at most two free
\* inputs is one, a settled cube of at most three, without tolerance, is constant,
\* and a cube with at most two is split on one of them.
TrueOfSmall(orc, c, r) ==
  LET free == Cardinality(Free(c.s))
  IN  /\ r.isXor /\ free <= 2 =>
           \A x \in Region(c.s) : orc[x] <=> XorValue(<<c.s, r.criticalInput>>, x)
      /\ ~r.isXor /\ r.isConverged /\ free <= 3 /\ NumPI - free < ExactDepth =>
           \A x \in Region(c.s) : orc[x] = r.cubeTendency
      /\ ~r.isXor /\ ~r.isConverged /\ free <= 2 => r.criticalInput \in Free(c.s)

\* What find_critical_input returns on a small cube is true of it.
LEMMA SmallResult ==
  ASSUME NEW orc \in [Point -> BOOLEAN], NEW c \in Cube, Free(c.s) # {},
         c.size = Cardinality(Assigned(c.s)),
         NEW draws \in [1 .. NumDraws -> Draw(c.s)], NEW r,
         FindCriticalInput(orc, c, draws, r)
  PROVE  TrueOfSmall(orc, c, r)
<1> DEFINE free == Cardinality(Free(c.s))
<1>0. /\ free \in Nat /\ c.size = NumPI - free /\ c.size # NumPI
      /\ NumPI \in Nat
  BY AssignedAndFree, PIFinite, FS_EmptySet, NumPIAssumption
<1>1. ASSUME r.isXor, free <= 2
      PROVE  \A x \in Region(c.s) : orc[x] <=> XorValue(<<c.s, r.criticalInput>>, x)
  <2>1. LooksXor(orc, c, draws)
    BY <1>1 DEF FindCriticalInput, XorInfo, VoteInfo
  <2>2. r.criticalInput \in {0, 1} /\ orc[Corner(c.s, "0")] = (r.criticalInput = 1)
    BY <1>1, XorResult
  <2> QED  BY <1>0, <1>1, <2>1, <2>2, XorExact
<1>2. ASSUME ~r.isXor
      PROVE  VoteInfo(orc, c, draws, r)
  BY <1>2 DEF FindCriticalInput, XorInfo
<1>3. ASSUME ~r.isXor, r.isConverged, free <= 3, NumPI - free < ExactDepth
      PROVE  \A x \in Region(c.s) : orc[x] = r.cubeTendency
  <2>1. /\ Converged(orc, Tested(c, draws), c.size)
        /\ r.cubeTendency = Majority(orc, Tested(c, draws))
    BY <1>2, <1>3 DEF VoteInfo
  <2> QED  BY <1>0, <1>3, <2>1, ConvergedExact
<1>4. ASSUME ~r.isXor, ~r.isConverged, free <= 2
      PROVE  r.criticalInput \in Free(c.s)
  <2>1. /\ r.criticalInput \in PI /\ IsCritical(orc, c, draws, r.criticalInput)
        /\ ~Converged(orc, Tested(c, draws), c.size)
    BY <1>2, <1>4 DEF VoteInfo
  <2> QED  BY <1>0, <1>4, <2>1, SplitsFresh
<1> QED  BY <1>1, <1>3, <1>4 DEF TrueOfSmall

-----------------------------------------------------------------------------
(* The queue as a set of cubes.                                            *)

Elements(q) == {q[k] : k \in 1 .. Len(q)}

\* The elements of a queue are its head and those of its tail.
LEMMA ElementsPop ==
  ASSUME NEW S, NEW q \in Seq(S), q # <<>>
  PROVE  /\ Head(q) \in S /\ Tail(q) \in Seq(S)
         /\ Elements(q) = {Head(q)} \cup Elements(Tail(q))
<1>1. Len(q) \in Nat /\ Len(q) >= 1 /\ Head(q) = q[1] /\ Head(q) \in S
  OBVIOUS
<1>2. /\ Tail(q) \in Seq(S) /\ Len(Tail(q)) = Len(q) - 1
      /\ \A k \in 1 .. Len(q) - 1 : Tail(q)[k] = q[k + 1]
  OBVIOUS
<1>3. Elements(q) \subseteq {Head(q)} \cup Elements(Tail(q))
  <2> SUFFICES ASSUME NEW k \in 1 .. Len(q), k # 1
               PROVE  q[k] \in Elements(Tail(q))
    BY <1>1 DEF Elements
  <2>1. k - 1 \in 1 .. Len(Tail(q)) /\ q[k] = Tail(q)[k - 1]
    BY <1>1, <1>2
  <2> QED  BY <2>1 DEF Elements
<1>4. Elements(Tail(q)) \subseteq Elements(q)
  <2> SUFFICES ASSUME NEW k \in 1 .. Len(Tail(q))
               PROVE  Tail(q)[k] \in Elements(q)
    BY DEF Elements
  <2>1. k + 1 \in 1 .. Len(q) /\ Tail(q)[k] = q[k + 1]
    BY <1>1, <1>2
  <2> QED  BY <2>1 DEF Elements
<1>5. Head(q) \in Elements(q)
  BY <1>1 DEF Elements
<1> QED  BY <1>1, <1>2, <1>3, <1>4, <1>5

\* A push adds one element.
LEMMA ElementsPush ==
  ASSUME NEW S, NEW q \in Seq(S), NEW e \in S
  PROVE  /\ Append(q, e) \in Seq(S)
         /\ Elements(Append(q, e)) = Elements(q) \cup {e}
<1>1. /\ Append(q, e) \in Seq(S)
      /\ Len(q) \in Nat /\ Len(Append(q, e)) = Len(q) + 1
      /\ Append(q, e)[Len(q) + 1] = e
      /\ \A k \in 1 .. Len(q) : Append(q, e)[k] = q[k]
  OBVIOUS
<1>2. \A k \in 1 .. Len(q) + 1 : k \in 1 .. Len(q) \/ k = Len(q) + 1
  BY <1>1
<1>3. 1 .. Len(q) \subseteq 1 .. Len(q) + 1 /\ Len(q) + 1 \in 1 .. Len(q) + 1
  BY <1>1
<1>4. Elements(Append(q, e)) \subseteq Elements(q) \cup {e}
  BY <1>1, <1>2 DEF Elements
<1>5. Elements(q) \cup {e} \subseteq Elements(Append(q, e))
  BY <1>1, <1>3 DEF Elements
<1> QED  BY <1>1, <1>4, <1>5

\* Popping: the cube in hand takes the string and size of the front of the queue.
LEMMA FrontCube ==
  ASSUME TypeOK, queue # <<>>
  PROVE  /\ Head(queue) \in Cube /\ Tail(queue) \in Seq(Cube)
         /\ Elements(queue) = {Head(queue)} \cup Elements(Tail(queue))
         /\ Front \in Cube
         /\ Front.s = Head(queue).s /\ Front.size = Head(queue).size
<1>1. queue \in Seq(Cube) /\ cube \in Cube
  BY DEF TypeOK
<1>2. /\ Head(queue) \in Cube /\ Tail(queue) \in Seq(Cube)
      /\ Elements(queue) = {Head(queue)} \cup Elements(Tail(queue))
  BY <1>1, ElementsPop
<1> HIDE <1>1
<1>3. cube \in Cube
  BY <1>1
<1>4. Front = [Head(queue) EXCEPT !.tend = cube.tend]
  BY DEF Front, CopyAssign
<1> DEFINE h == Head(queue)
<1>5. [h EXCEPT !.tend = cube.tend] \in Cube
      /\ [h EXCEPT !.tend = cube.tend].s = h.s
      /\ [h EXCEPT !.tend = cube.tend].size = h.size
  <2> HIDE DEF h
  <2>1. h \in Cube
    BY <1>2 DEF h
  <2> QED  BY <1>3, <2>1 DEF Cube
<1> QED  BY <1>2, <1>4, <1>5

\* Cube d is cube c with input i assigned to v.
IsAssigned(d, c, i, v) ==
  d \in Cube /\ d.s = [c.s EXCEPT ![i] = v] /\ Free(d.s) = Free(c.s) \ {i}

\* Assigning a bit does that.
LEMMA AssignIs ==
  ASSUME NEW c \in Cube, NEW i \in PI, NEW v \in Bit
  PROVE  IsAssigned(Assign(c, i, v), c, i, v)
BY AssignBit, Zenon DEF IsAssigned

\* Splitting: the cofactors are cubes, with the critical input assigned.
LEMMA Cofactors ==
  ASSUME TypeOK, info.criticalInput \in PI
  PROVE  /\ NegCofactor \in Cube /\ PosCofactor \in Cube
         /\ NegCofactor.s = [cube.s EXCEPT ![info.criticalInput] = "0"]
         /\ PosCofactor.s = [cube.s EXCEPT ![info.criticalInput] = "1"]
         /\ Free(NegCofactor.s) = Free(cube.s) \ {info.criticalInput}
         /\ Free(PosCofactor.s) = Free(cube.s) \ {info.criticalInput}
<1> DEFINE i == info.criticalInput
           neg == Assign(cube, i, "0")
           pos == Assign(NegCofactor, i, "1")
<1>0. cube \in Cube /\ info \in CubeInfo /\ "0" \in Bit /\ "1" \in Bit /\ i \in PI
  BY DEF TypeOK, Bit
<1> HIDE DEF i
<1>2. /\ neg \in Cube
      /\ neg.s = [cube.s EXCEPT ![i] = "0"]
      /\ Free(neg.s) = Free(cube.s) \ {i}
  <2>1. IsAssigned(neg, cube, i, "0")
    BY <1>0, AssignIs
  <2> QED BY <2>1 DEF IsAssigned
<1>3. NegCofactor \in Cube /\ NegCofactor.s = neg.s
  <2>1. NegCofactor = [neg EXCEPT !.tend = info.negCofacTendency]
    BY DEF NegCofactor, SetTendency, i
  <2>2. info.negCofacTendency \in BOOLEAN
    BY <1>0 DEF CubeInfo
  <2> HIDE DEF neg
  <2> QED BY <1>2, <2>1, <2>2 DEF Cube
<1>4. /\ pos \in Cube
      /\ pos.s = [NegCofactor.s EXCEPT ![i] = "1"]
      /\ Free(pos.s) = Free(NegCofactor.s) \ {i}
  <2>1. IsAssigned(pos, NegCofactor, i, "1")
    BY <1>0, <1>3, AssignIs
  <2> QED BY <2>1 DEF IsAssigned
<1>5. PosCofactor \in Cube /\ PosCofactor.s = pos.s
  <2>1. PosCofactor = [pos EXCEPT !.tend = info.posCofacTendency]
    BY DEF PosCofactor, SetTendency, i
  <2>2. info.posCofacTendency \in BOOLEAN
    BY <1>0 DEF CubeInfo
  <2> HIDE DEF pos
  <2> QED BY <1>4, <2>1, <2>2 DEF Cube
<1>6. [NegCofactor.s EXCEPT ![i] = "1"] = [cube.s EXCEPT ![i] = "1"]
  BY <1>0, <1>2, <1>3 DEF Cube, CubeString
<1> QED  BY <1>2, <1>3, <1>4, <1>5, <1>6 DEF i

\* The open cubes before and after each step, in terms of the queue.
LEMMA OpenIs ==
  /\ Queued = Elements(queue)
  /\ Open = Elements(queue) \cup (IF pc = "decide" THEN {cube} ELSE {})
  /\ Open' = Elements(queue') \cup (IF pc' = "decide" THEN {cube'} ELSE {})
BY DEF Open, Queued, Elements

\* Judging takes cubes away and adds none.
LEMMA OpenShrinks ==
  ASSUME TypeOK, RecordXor \/ RecordConverged \/ RecordCut \/ Finish \/ UNCHANGED vars
  PROVE  Open' \subseteq Open
<1>1. queue' = queue /\ (pc' = "decide" => pc = "decide" /\ cube' = cube)
  BY DEF RecordXor, RecordConverged, RecordCut, Settle, Finish, vars
<1> QED  BY <1>1, OpenIs

\* A pop leaves the open cubes but for the one popped.
LEMMA OpenAfterPop ==
  ASSUME TypeOK, queue # <<>>, pc = "loop"
  PROVE  /\ Open = {Head(queue)} \cup Elements(Tail(queue))
         /\ Guess  => Open' = Elements(Tail(queue))
         /\ Sample => Open' = {Front} \cup Elements(Tail(queue))
<1>1. Elements(queue) = {Head(queue)} \cup Elements(Tail(queue))
  BY FrontCube
<1>2. Guess => queue' = Tail(queue) /\ pc' = "loop"
  BY DEF Guess
<1>3. Sample => queue' = Tail(queue) /\ pc' = "decide" /\ cube' = Front
  BY DEF Sample
<1> QED  BY <1>1, <1>2, <1>3, OpenIs

\* A split puts the two cofactors in place of the cube.
LEMMA OpenAfterSplit ==
  ASSUME TypeOK, Split, info.criticalInput \in PI
  PROVE  /\ queue' \in Seq(Cube)
         /\ Open = {cube} \cup Elements(queue)
         /\ Open' = {NegCofactor, PosCofactor} \cup Elements(queue)
<1> DEFINE q == Append(queue, NegCofactor)
<1>1. queue \in Seq(Cube) /\ NegCofactor \in Cube /\ PosCofactor \in Cube
  BY Cofactors DEF TypeOK
<1>2. q \in Seq(Cube) /\ Elements(q) = Elements(queue) \cup {NegCofactor}
  BY <1>1, ElementsPush
<1>3. /\ Append(q, PosCofactor) \in Seq(Cube)
      /\ Elements(Append(q, PosCofactor)) = Elements(q) \cup {PosCofactor}
  <2> HIDE DEF q
  <2> QED  BY <1>1, <1>2, ElementsPush
<1>4. queue' = Append(q, PosCofactor) /\ pc = "decide" /\ pc' = "loop"
  BY DEF Split
<1> HIDE DEF q
<1> QED  BY <1>2, <1>3, <1>4, OpenIs

-----------------------------------------------------------------------------
(***************************************************************************)
(* Types, free inputs and the result of find_critical_input depend on each *)
(* other: a recorded inversion is a bit because InfoFits, InfoFits because *)
(* the cube in hand has a free input, and it has one because the cube it   *)
(* was split from had one besides the critical input, which is InfoFits.   *)
(***************************************************************************)
IInv == TypeOK /\ NoFullCube /\ InfoFits /\ XorAnchored

\* The first cube has all bits free.
LEMMA InitIInv == Init => IInv
<1> SUFFICES ASSUME Init PROVE IInv
  OBVIOUS
<1>1. PICK t \in BOOLEAN : cube = NewCube(t)
  BY DEF Init
<1>2. cube \in Cube /\ Free(cube.s) = PI /\ PI # {}
  BY <1>1, NumPIAssumption DEF NewCube, Cube, CubeString, AllFree, Free, PI
<1>3. oracle \in [Point -> BOOLEAN]
  BY OraclesAssumption DEF Init
<1>4. info \in CubeInfo
  BY DEF Init, NoInfo, CubeInfo
<1>5. queue = <<cube>> /\ <<cube>> \in Seq(Cube)
  BY <1>2 DEF Init
<1>6. budget \in Nat
  BY BoundsAssumption DEF Init
<1>7. TypeOK
  BY <1>2, <1>3, <1>4, <1>5, <1>6 DEF Init, TypeOK
<1>8. Elements(<<cube>>) = {cube}
  BY DEF Elements
<1>9. NoFullCube
  BY <1>2, <1>5, <1>8, OpenIs DEF NoFullCube, Init
<1>10. InfoFits /\ XorAnchored
  BY DEF Init, InfoFits, XorAnchored
<1> QED  BY <1>7, <1>9, <1>10 DEF IInv

\* Types are preserved.
LEMMA StepTypeOK ==
  ASSUME TypeOK, InfoFits, [Next]_vars
  PROVE  TypeOK'
<1> USE DEF TypeOK
<1>1. CASE Guess
  <2>1. Front \in Cube /\ Tail(queue) \in Seq(Cube)
    BY <1>1, FrontCube DEF Guess
  <2>2. Front.s \in CubeString /\ Front.tend \in BOOLEAN
    BY <2>1 DEF Cube
  <2>3. judged' \in SUBSET Judgement
    BY <1>1, <2>2 DEF Guess, Judge, Judgement, Branch
  <2> QED  BY <1>1, <2>1, <2>2, <2>3 DEF Guess
<1>2. CASE Sample
  <2>1. Front \in Cube /\ Tail(queue) \in Seq(Cube)
    BY <1>2, FrontCube DEF Sample
  <2>2. info' \in CubeInfo
    BY <1>2, <2>1, ResultType DEF Sample
  <2>3. budget' \in Nat /\ dead' \in BOOLEAN
    BY <1>2 DEF Sample
  <2> QED  BY <1>2, <2>1, <2>2, <2>3 DEF Sample
<1>3. CASE RecordXor
  <2>1. cube.s \in CubeString /\ info.criticalInput \in {0, 1}
    BY <1>3 DEF RecordXor, InfoFits, Cube
  <2>2. xor_cubes' \in SUBSET (CubeString \X {0, 1})
    BY <1>3, <2>1 DEF RecordXor
  <2> DEFINE val == info.criticalInput = 1
  <2>3. val \in BOOLEAN /\ judged' = judged \cup {[s |-> cube.s, by |-> "xor", val |-> val]}
    BY <1>3 DEF RecordXor, Judge
  <2>4. judged' \in SUBSET Judgement
    <3> HIDE DEF val
    <3> QED  BY <2>1, <2>3 DEF Judgement, Branch
  <2> QED  BY <1>3, <2>2, <2>4 DEF RecordXor
<1>4. ASSUME NEW by \in Branch, Settle(by)
      PROVE  TypeOK'
  <2>1. cube.s \in CubeString /\ info.cubeTendency \in BOOLEAN
    BY DEF Cube, CubeInfo
  <2>2. cubes' \in SUBSET CubeString
    BY <1>4, <2>1 DEF Settle
  <2>3. judged' \in SUBSET Judgement
    BY <1>4, <2>1 DEF Settle, Judge, Judgement
  <2> QED  BY <1>4, <2>2, <2>3 DEF Settle
<1>5. CASE RecordConverged
  BY <1>4, <1>5 DEF RecordConverged, Branch
<1>6. CASE RecordCut
  BY <1>4, <1>6 DEF RecordCut, Branch
<1>7. CASE Split
  <2>1. info.criticalInput \in PI
    BY <1>7 DEF Split, InfoFits
  <2>2. PosCofactor \in Cube /\ queue' \in Seq(Cube)
    BY <1>7, <2>1, Cofactors, OpenAfterSplit
  <2> QED  BY <1>7, <2>2 DEF Split
<1>8. CASE Finish
  BY <1>8 DEF Finish
<1>9. CASE UNCHANGED vars
  BY <1>9 DEF vars
<1> QED
  BY <1>1, <1>2, <1>3, <1>5, <1>6, <1>7, <1>8, <1>9 DEF Next, Returned

\* No cube loses its last free input.
LEMMA StepNoFullCube ==
  ASSUME TypeOK, NoFullCube, InfoFits, [Next]_vars
  PROVE  NoFullCube'
<1> DEFINE OpenFree == \A c \in Open : Free(c.s) # {}
           XorFree  == \A xc \in xor_cubes : Free(xc[1]) # {}
<1>0. OpenFree /\ XorFree
  BY DEF NoFullCube
<1> SUFFICES OpenFree' /\ XorFree'
  BY DEF NoFullCube
<1>1. CASE Guess
  <2>1. Open' \subseteq Open
    BY <1>1, OpenAfterPop DEF Guess
  <2>2. xor_cubes' = xor_cubes
    BY <1>1 DEF Guess
  <2> QED  BY <1>0, <2>1, <2>2
<1>2. CASE Sample
  <2>1. /\ Open = {Head(queue)} \cup Elements(Tail(queue))
        /\ Open' = {Front} \cup Elements(Tail(queue))
    BY <1>2, OpenAfterPop DEF Sample
  <2>2. Front.s = Head(queue).s
    BY <1>2, FrontCube DEF Sample
  <2>3. xor_cubes' = xor_cubes
    BY <1>2 DEF Sample
  <2> QED  BY <1>0, <2>1, <2>2, <2>3
<1>3. CASE RecordXor
  <2>1. cube \in Open
    BY <1>3, OpenIs DEF RecordXor
  <2>2. xor_cubes' = xor_cubes \cup {<<cube.s, info.criticalInput>>}
    BY <1>3 DEF RecordXor
  <2> QED  BY <1>0, <1>3, <2>1, <2>2, OpenShrinks
<1>4. CASE RecordConverged \/ RecordCut \/ Finish \/ UNCHANGED vars
  <2>1. xor_cubes' = xor_cubes
    BY <1>4 DEF RecordConverged, RecordCut, Settle, Finish, vars
  <2> QED  BY <1>0, <1>4, <2>1, OpenShrinks
<1>5. CASE Split
  <2>1. /\ info.criticalInput \in PI
        /\ Free(cube.s) \ {info.criticalInput} # {}
    BY <1>5 DEF Split, InfoFits
  <2>2. Free(NegCofactor.s) # {} /\ Free(PosCofactor.s) # {}
    BY <2>1, Cofactors
  <2>3. /\ Open = {cube} \cup Elements(queue)
        /\ Open' = {NegCofactor, PosCofactor} \cup Elements(queue)
    BY <1>5, <2>1, OpenAfterSplit
  <2>4. xor_cubes' = xor_cubes
    BY <1>5 DEF Split
  <2> QED  BY <1>0, <2>2, <2>3, <2>4
<1> QED  BY <1>1, <1>2, <1>3, <1>4, <1>5 DEF Next, Returned

\* The branches always find a result that fits the cube in hand.
LEMMA StepInfoFits ==
  ASSUME TypeOK, NoFullCube, InfoFits, [Next]_vars
  PROVE  InfoFits'
<1>1. CASE Sample
  <2>1. Front \in Cube /\ Front.s = Head(queue).s
    BY <1>1, FrontCube DEF Sample
  <2>2. Free(Front.s) # {}
    BY <1>1, <2>1, OpenAfterPop DEF Sample, NoFullCube
  <2>3. PICK draws \in [1 .. NumDraws -> Draw(Front.s)] :
          FindCriticalInput(oracle, Front, draws, info')
    BY <1>1 DEF Sample
  <2>4. oracle \in [Point -> BOOLEAN]
    BY DEF TypeOK
  <2>5. info'.isXor =>
          /\ info'.criticalInput \in {0, 1}
          /\ oracle[Corner(Front.s, "0")] = (info'.criticalInput = 1)
    BY <2>1, <2>3, <2>4, XorResult
  <2>6. ~info'.isXor =>
          /\ info'.criticalInput \in PI
          /\ ~info'.isConverged => Free(Front.s) \ {info'.criticalInput} # {}
    BY <2>1, <2>2, <2>3, <2>4, VoteResult
  <2>7. cube' = Front /\ oracle' = oracle
    BY <1>1 DEF Sample
  <2> QED  BY <2>5, <2>6, <2>7 DEF InfoFits
<1>2. CASE UNCHANGED vars
  BY <1>2 DEF vars, InfoFits
<1>3. CASE Guess \/ RecordXor \/ RecordConverged \/ RecordCut \/ Split \/ Finish
  <2>1. pc' # "decide"
    BY <1>3 DEF Guess, RecordXor, RecordConverged, RecordCut, Settle, Split, Finish
  <2> QED  BY <2>1 DEF InfoFits
<1> QED  BY <1>1, <1>2, <1>3 DEF Next, Returned

\* The inversion recorded with an exclusive-or is that of its zero corner.
LEMMA StepXorAnchored ==
  ASSUME InfoFits, XorAnchored, [Next]_vars
  PROVE  XorAnchored'
<1>1. CASE RecordXor
  <2>1. oracle[Corner(cube.s, "0")] = (info.criticalInput = 1)
    BY <1>1 DEF RecordXor, InfoFits
  <2>2. oracle' = oracle /\ xor_cubes' = xor_cubes \cup {<<cube.s, info.criticalInput>>}
    BY <1>1 DEF RecordXor
  <2> QED  BY <2>1, <2>2 DEF XorAnchored
<1>2. CASE ~RecordXor
  <2>1. oracle' = oracle /\ xor_cubes' = xor_cubes
    BY <1>2 DEF Next, Guess, Sample, RecordConverged, RecordCut, Settle, Split,
                Finish, Returned, vars
  <2> QED  BY <2>1 DEF XorAnchored
<1> QED  BY <1>1, <1>2

\* The types, and what the next step relies on of the cube and the result in hand.
THEOREM Invariance == Spec => []IInv
<1>1. Init => IInv
  BY InitIInv
<1>2. IInv /\ [Next]_vars => IInv'
  BY StepTypeOK, StepNoFullCube, StepInfoFits, StepXorAnchored DEF IInv
<1> QED  BY <1>1, <1>2, PTL DEF Spec

\* Every variable keeps its type.
THEOREM TypeCorrect == Spec => []TypeOK
BY Invariance, PTL DEF IInv

\* No cube with every input assigned is queued or recorded as an exclusive-or.
THEOREM NoFullCubeCorrect == Spec => []NoFullCube
BY Invariance, PTL DEF IInv

\* The branches find a result that fits the cube in hand.
THEOREM InfoFitsCorrect == Spec => []InfoFits
BY Invariance, PTL DEF IInv

\* Recorded inversions are the output at the zero corner.
THEOREM XorAnchoredCorrect == Spec => []XorAnchored
BY Invariance, PTL DEF IInv

-----------------------------------------------------------------------------
(* The size counter.                                                       *)

\* The first cube has no assigned bit.
LEMMA InitSize == Init => SizeIsAssigned
<1> SUFFICES ASSUME Init PROVE SizeIsAssigned
  OBVIOUS
<1>1. cube.size = 0 /\ Assigned(cube.s) = {}
  BY DEF Init, NewCube, AllFree, Assigned, Free
<1>2. Open = {cube}
  <2>1. queue = <<cube>> /\ pc = "loop"
    BY DEF Init
  <2>2. Elements(<<cube>>) = {cube}
    BY DEF Elements
  <2> QED  BY <2>1, <2>2, OpenIs
<1> QED  BY <1>1, <1>2, FS_EmptySet DEF SizeIsAssigned

\* A cofactor has one assigned bit more, and counts it.
LEMMA CofactorsSize ==
  ASSUME TypeOK, info.criticalInput \in PI, cube.size = Cardinality(Assigned(cube.s))
  PROVE  /\ NegCofactor.size = Cardinality(Assigned(NegCofactor.s))
         /\ PosCofactor.size = Cardinality(Assigned(PosCofactor.s))
<1> DEFINE i == info.criticalInput
           neg == Assign(cube, i, "0")
           pos == Assign(NegCofactor, i, "1")
<1>0. /\ cube \in Cube /\ "0" \in Bit /\ "1" \in Bit /\ NegCofactor \in Cube
      /\ i \in PI /\ cube.size = Cardinality(Assigned(cube.s))
  BY Cofactors DEF TypeOK, Bit
<1> HIDE DEF i
<1>1. neg.size = Cardinality(Assigned(neg.s)) /\ neg \in Cube
  <2>1. neg \in Cube
    BY <1>0, AssignBit
  <2>2. neg.size = Cardinality(Assigned(neg.s))
    BY <1>0, AssignKeepsSize
  <2> QED  BY <2>1, <2>2
<1>2. NegCofactor.s = neg.s /\ NegCofactor.size = neg.size
  BY <1>1 DEF NegCofactor, SetTendency, Cube, i
<1>3. pos.size = Cardinality(Assigned(pos.s)) /\ pos \in Cube
  <2>1. pos \in Cube
    BY <1>0, AssignBit
  <2>2. NegCofactor.size = Cardinality(Assigned(NegCofactor.s))
    BY <1>1, <1>2
  <2>3. pos.size = Cardinality(Assigned(pos.s))
    BY <1>0, <2>2, AssignKeepsSize
  <2> QED  BY <2>1, <2>3
<1>4. PosCofactor.s = pos.s /\ PosCofactor.size = pos.size
  BY <1>3 DEF PosCofactor, SetTendency, Cube, i
<1> QED  BY <1>1, <1>2, <1>3, <1>4

\* Every step keeps the size counters right.
LEMMA StepSize ==
  ASSUME TypeOK, InfoFits, SizeIsAssigned, [Next]_vars
  PROVE  SizeIsAssigned'
<1>1. CASE Guess
  BY <1>1, OpenAfterPop DEF Guess, SizeIsAssigned
<1>2. CASE Sample
  <2>1. Front.s = Head(queue).s /\ Front.size = Head(queue).size
    BY <1>2, FrontCube DEF Sample
  <2> QED  BY <1>2, <2>1, OpenAfterPop DEF Sample, SizeIsAssigned
<1>3. CASE RecordXor \/ RecordConverged \/ RecordCut \/ Finish \/ UNCHANGED vars
  BY <1>3, OpenShrinks DEF SizeIsAssigned
<1>4. CASE Split
  <2>1. info.criticalInput \in PI
    BY <1>4 DEF Split, InfoFits
  <2>2. cube \in Open
    BY <1>4, <2>1, OpenAfterSplit
  <2>3. /\ NegCofactor.size = Cardinality(Assigned(NegCofactor.s))
        /\ PosCofactor.size = Cardinality(Assigned(PosCofactor.s))
    BY <2>1, <2>2, CofactorsSize DEF SizeIsAssigned
  <2> QED  BY <1>4, <2>1, <2>3, OpenAfterSplit DEF SizeIsAssigned
<1> QED  BY <1>1, <1>2, <1>3, <1>4 DEF Next, Returned

\* The size counter of every open cube is the number of its assigned inputs.
THEOREM SizeCorrect == Spec => []SizeIsAssigned
<1>1. IInv /\ SizeIsAssigned /\ [Next]_vars => SizeIsAssigned'
  BY StepSize DEF IInv
<1> QED  BY InitSize, Invariance, <1>1, PTL DEF Spec

-----------------------------------------------------------------------------
(* Coverage.                                                               *)

\* The first cube covers every point.
LEMMA InitCoverage == Init => Coverage
<1> SUFFICES ASSUME Init PROVE Coverage
  OBVIOUS
<1>1. \A x \in Point : Covers(cube.s, x)
  BY DEF Init, NewCube, AllFree, Covers
<1>2. cube \in Open
  <2>1. queue = <<cube>>
    BY DEF Init
  <2>2. Elements(<<cube>>) = {cube}
    BY DEF Elements
  <2> QED  BY <2>1, <2>2, OpenIs
<1> QED  BY <1>1, <1>2 DEF Coverage

\* A judgement is on record for the cube it was made of.
LEMMA JudgedIs ==
  ASSUME NEW s, NEW by, NEW val, Judge(s, by, val)
  PROVE  \E j \in judged' : j.s = s
<1> DEFINE j == [s |-> s, by |-> by, val |-> val]
<1>1. j \in judged' /\ j.s = s
  BY DEF Judge
<1> QED  BY <1>1

\* No step loses a point that is covered.
LEMMA StepCoverage ==
  ASSUME TypeOK, InfoFits, Coverage, [Next]_vars
  PROVE  Coverage'
<1> SUFFICES ASSUME NEW x \in Point
             PROVE  \/ \E c \in Open' : Covers(c.s, x)
                    \/ \E j \in judged' : Covers(j.s, x)
  BY DEF Coverage
<1>0. \/ \E c \in Open : Covers(c.s, x)
      \/ \E j \in judged : Covers(j.s, x)
  BY DEF Coverage
<1>1. judged \subseteq judged'
  BY DEF Next, Guess, Sample, RecordXor, RecordConverged, RecordCut, Settle, Judge,
         Split, Finish, Returned, vars
<1>2. CASE Guess
  <2>1. /\ Open = {Head(queue)} \cup Elements(Tail(queue))
        /\ Open' = Elements(Tail(queue))
    BY <1>2, OpenAfterPop DEF Guess
  <2>2. \E j \in judged' : j.s = Head(queue).s
    BY <1>2, FrontCube, JudgedIs DEF Guess
  <2> QED  BY <1>0, <1>1, <2>1, <2>2
<1>3. CASE Sample
  <2>1. /\ Open = {Head(queue)} \cup Elements(Tail(queue))
        /\ Open' = {Front} \cup Elements(Tail(queue))
    BY <1>3, OpenAfterPop DEF Sample
  <2>2. Front.s = Head(queue).s
    BY <1>3, FrontCube DEF Sample
  <2> QED  BY <1>0, <1>1, <2>1, <2>2
<1>4. CASE RecordXor \/ RecordConverged \/ RecordCut
  <2>1. \E j \in judged' : j.s = cube.s
    BY <1>4, JudgedIs DEF RecordXor, RecordConverged, RecordCut, Settle
  <2>2. /\ Open = Elements(queue) \cup {cube}
        /\ Open' = Elements(queue)
    BY <1>4, OpenIs DEF RecordXor, RecordConverged, RecordCut, Settle
  <2> QED  BY <1>0, <1>1, <2>1, <2>2
<1>5. CASE Split
  <2>1. info.criticalInput \in PI /\ cube \in Cube
    BY <1>5 DEF Split, InfoFits, TypeOK
  <2>2. /\ NegCofactor.s = [cube.s EXCEPT ![info.criticalInput] = "0"]
        /\ PosCofactor.s = [cube.s EXCEPT ![info.criticalInput] = "1"]
    BY <2>1, Cofactors
  <2>3. Covers(cube.s, x) => Covers(NegCofactor.s, x) \/ Covers(PosCofactor.s, x)
    BY <2>1, <2>2, CofactorsCover
  <2>4. /\ Open = {cube} \cup Elements(queue)
        /\ Open' = {NegCofactor, PosCofactor} \cup Elements(queue)
    BY <1>5, <2>1, OpenAfterSplit
  <2> QED  BY <1>0, <1>1, <2>3, <2>4
<1>6. CASE Finish \/ UNCHANGED vars
  <2>1. Open' = Open
    BY <1>6, OpenIs DEF Finish, vars
  <2> QED  BY <1>0, <1>1, <2>1
<1> QED  BY <1>2, <1>3, <1>4, <1>5, <1>6 DEF Next, Returned

\* No point of the input space is ever lost between the queue and the verdicts.
THEOREM CoverageCorrect == Spec => []Coverage
<1>1. IInv /\ Coverage /\ [Next]_vars => Coverage'
  BY StepCoverage DEF IInv
<1> QED  BY InitCoverage, Invariance, <1>1, PTL DEF Spec

-----------------------------------------------------------------------------
(* What is recorded, what is judged, and what the black box answers.       *)

\* The result in hand says nothing false of a small cube.
InfoTrue == pc = "decide" => TrueOfSmall(oracle, cube, info)

\* Sample makes the result in hand a true one; other steps leave it alone or use it up.
LEMMA StepInfoTrue ==
  ASSUME TypeOK, NoFullCube, SizeIsAssigned, [Next]_vars
  PROVE  InfoTrue' \/ UNCHANGED <<oracle, cube, info, pc>>
<1>1. CASE Sample
  <2>1. /\ Front \in Cube /\ Front.s = Head(queue).s /\ Front.size = Head(queue).size
        /\ Head(queue) \in Open
    BY <1>1, FrontCube, OpenAfterPop DEF Sample
  <2>2. Free(Front.s) # {} /\ Front.size = Cardinality(Assigned(Front.s))
    BY <2>1 DEF NoFullCube, SizeIsAssigned
  <2>3. PICK draws \in [1 .. NumDraws -> Draw(Front.s)] :
          FindCriticalInput(oracle, Front, draws, info')
    BY <1>1 DEF Sample
  <2>4. oracle \in [Point -> BOOLEAN]
    BY DEF TypeOK
  <2>5. TrueOfSmall(oracle, Front, info')
    BY <2>1, <2>2, <2>3, <2>4, SmallResult
  <2>6. cube' = Front /\ oracle' = oracle
    BY <1>1 DEF Sample
  <2> QED  BY <2>5, <2>6 DEF InfoTrue
<1>2. CASE UNCHANGED vars
  BY <1>2 DEF vars
<1>3. CASE Guess \/ RecordXor \/ RecordConverged \/ RecordCut \/ Split \/ Finish
  <2>1. pc' # "decide"
    BY <1>3 DEF Guess, RecordXor, RecordConverged, RecordCut, Settle, Split, Finish
  <2> QED  BY <2>1 DEF InfoTrue
<1> QED  BY <1>1, <1>2, <1>3 DEF Next, Returned

\* The result in hand stays true of the cube in hand.
LEMMA InfoTrueStays ==
  ASSUME TypeOK, NoFullCube, SizeIsAssigned, InfoTrue, [Next]_vars
  PROVE  InfoTrue'
BY StepInfoTrue DEF InfoTrue

\* A step settles an open cube, records it as an exclusive-or, or leaves what is
\* recorded and judged alone.
NoteValue(s, by, val) ==
  /\ Judge(s, by, val)
  /\ cubes' = IF val # tendency THEN cubes \cup {s} ELSE cubes
  /\ xor_cubes' = xor_cubes

NoteXor(s, v) ==
  /\ Judge(s, "xor", v = 1)
  /\ xor_cubes' = xor_cubes \cup {<<s, v>>}
  /\ cubes' = cubes

Noted ==
  \/ \E c \in Open, by \in Branch \ {"xor"}, val \in BOOLEAN : NoteValue(c.s, by, val)
  \/ \E c \in Open, v \in {0, 1} : NoteXor(c.s, v)
  \/ UNCHANGED <<judged, cubes, xor_cubes>>

\* Every step notes what it judges, as Noted says.
LEMMA StepNotes ==
  ASSUME TypeOK, InfoFits, [Next]_vars
  PROVE  Noted /\ tendency' = tendency /\ oracle' = oracle
<1>0. tendency' = tendency /\ oracle' = oracle
  BY DEF Next, Guess, Sample, RecordXor, RecordConverged, RecordCut, Settle, Split,
         Finish, Returned, vars
<1>1. CASE Guess
  <2>1. /\ Head(queue) \in Open /\ Front.s = Head(queue).s /\ Front \in Cube
    BY <1>1, FrontCube, OpenAfterPop DEF Guess
  <2>2. Front.tend \in BOOLEAN /\ Front.tend # tendency
    BY <1>1, <2>1 DEF Guess, Cube
  <2>3. NoteValue(Head(queue).s, "guess", Front.tend)
    BY <1>1, <2>1, <2>2 DEF Guess, NoteValue
  <2> QED  BY <1>0, <2>1, <2>2, <2>3 DEF Noted, Branch
<1>2. ASSUME NEW by \in Branch \ {"xor"}, Settle(by), pc = "decide"
      PROVE  Noted
  <2>1. cube \in Open /\ info.cubeTendency \in BOOLEAN
    BY <1>2, OpenIs DEF TypeOK, CubeInfo
  <2>2. NoteValue(cube.s, by, info.cubeTendency)
    BY <1>2 DEF Settle, NoteValue
  <2> QED  BY <2>1, <2>2 DEF Noted
<1>3. CASE RecordConverged
  BY <1>0, <1>2, <1>3 DEF RecordConverged, Branch
<1>4. CASE RecordCut
  BY <1>0, <1>2, <1>4 DEF RecordCut, Branch
<1>5. CASE RecordXor
  <2>1. cube \in Open /\ info.criticalInput \in {0, 1}
    BY <1>5, OpenIs DEF RecordXor, InfoFits
  <2>2. NoteXor(cube.s, info.criticalInput)
    BY <1>5 DEF RecordXor, NoteXor
  <2> QED  BY <1>0, <2>1, <2>2 DEF Noted
<1>6. CASE Sample \/ Split \/ Finish \/ UNCHANGED vars
  BY <1>0, <1>6 DEF Sample, Split, Finish, vars, Noted
<1> QED  BY <1>1, <1>3, <1>4, <1>5, <1>6 DEF Next, Returned

\* The books are in order: what is judged to differ from the default is recorded,
\* and what is recorded was judged so.
Invert(val) == IF val THEN 1 ELSE 0
JudgedRecorded ==
  \A j \in judged : /\ j.by = "xor" => <<j.s, Invert(j.val)>> \in xor_cubes
                    /\ j.by # "xor" /\ j.val # tendency => j.s \in cubes
CubesJudged ==
  \A s \in cubes : \E j \in judged : j.s = s /\ j.by # "xor" /\ j.val # tendency
XorsJudged ==
  \A xc \in xor_cubes : \E j \in judged : j.by = "xor" /\ xc = <<j.s, Invert(j.val)>>
Books == JudgedRecorded /\ CubesJudged /\ XorsJudged

\* Nothing is judged and nothing recorded at first.
LEMMA InitBooks == Init => Books
BY DEF Init, Books, JudgedRecorded, CubesJudged, XorsJudged

\* What is judged and what is recorded go together.
LEMMA StepBooks ==
  ASSUME TypeOK, Noted, tendency' = tendency, Books
  PROVE  Books'
<1>0. JudgedRecorded /\ CubesJudged /\ XorsJudged
  BY DEF Books
<1>1. ASSUME NEW s, NEW by \in Branch \ {"xor"}, NEW val \in BOOLEAN,
             NoteValue(s, by, val)
      PROVE  Books'
  <2> DEFINE j == [s |-> s, by |-> by, val |-> val]
  <2>1. judged' = judged \cup {j} /\ j.s = s /\ j.by # "xor" /\ j.val = val
    BY <1>1 DEF NoteValue, Judge
  <2>2. /\ xor_cubes' = xor_cubes
        /\ cubes' = IF val # tendency THEN cubes \cup {s} ELSE cubes
    BY <1>1 DEF NoteValue
  <2> HIDE DEF j
  <2>3. JudgedRecorded'
    BY <1>0, <2>1, <2>2 DEF JudgedRecorded
  <2>4. CubesJudged'
    BY <1>0, <2>1, <2>2 DEF CubesJudged
  <2>5. XorsJudged'
    BY <1>0, <2>1, <2>2 DEF XorsJudged
  <2> QED  BY <2>3, <2>4, <2>5 DEF Books
<1>2. ASSUME NEW s, NEW v \in {0, 1}, NoteXor(s, v)
      PROVE  Books'
  <2> DEFINE j == [s |-> s, by |-> "xor", val |-> v = 1]
  <2>1. judged' = judged \cup {j} /\ j.s = s /\ j.by = "xor"
    BY <1>2 DEF NoteXor, Judge
  <2>2. xor_cubes' = xor_cubes \cup {<<s, v>>} /\ cubes' = cubes
    BY <1>2 DEF NoteXor
  <2>3. Invert(j.val) = v
    BY DEF Invert
  <2> HIDE DEF j
  <2>4. JudgedRecorded'
    BY <1>0, <2>1, <2>2, <2>3 DEF JudgedRecorded
  <2>5. CubesJudged'
    BY <1>0, <2>1, <2>2 DEF CubesJudged
  <2>6. XorsJudged'
    BY <1>0, <2>1, <2>2, <2>3 DEF XorsJudged
  <2> QED  BY <2>4, <2>5, <2>6 DEF Books
<1>3. CASE UNCHANGED <<judged, cubes, xor_cubes>>
  BY <1>0, <1>3 DEF Books, JudgedRecorded, CubesJudged, XorsJudged
<1> QED  BY <1>1, <1>2, <1>3 DEF Noted

\* The books of construct_cubes_FBDT (lrg.cpp:252-305): sizes are counted right, no
\* point is lost, what is judged is what is recorded, and the result in hand is true.
THEOREM BooksCorrect == Spec => [](SizeIsAssigned /\ Coverage /\ Books /\ InfoTrue)
<1>1. Init => InfoTrue
  BY DEF Init, InfoTrue
<1>2. IInv /\ SizeIsAssigned /\ InfoTrue /\ [Next]_vars => InfoTrue'
  BY InfoTrueStays DEF IInv
<1>3. IInv /\ Books /\ [Next]_vars => Books'
  BY StepNotes, StepBooks DEF IInv
<1> QED  BY <1>1, <1>2, <1>3, InitBooks, Invariance, SizeCorrect, CoverageCorrect, PTL DEF Spec

\* The answer of a judgement, and what is learned, are values.
LEMMA ValuesAreBoolean ==
  ASSUME TypeOK, NEW x
  PROVE  /\ Learned(x) \in BOOLEAN
         /\ \A j \in judged : AnswerAt(j, x) \in BOOLEAN
<1>1. \A xc : XorValue(xc, x) \in BOOLEAN
  BY DEF XorValue
<1>2. \A j \in judged : j.val \in BOOLEAN
  BY DEF TypeOK, Judgement
<1> QED  BY <1>1, <1>2 DEF Learned, RecordedValue, AnswerAt, TypeOK

\* A point in no open cube has been given the value that is learned of it.
LEMMA LearnedIsAnswer ==
  ASSUME TypeOK, Coverage, Books, NEW x \in Point,
         ~ \E c \in Open : Covers(c.s, x)
  PROVE  \E j \in judged : Covers(j.s, x) /\ Learned(x) = AnswerAt(j, x)
<1>0. JudgedRecorded /\ CubesJudged /\ XorsJudged
  BY DEF Books
<1>1. Learned(x) \in BOOLEAN /\ \A j \in judged : AnswerAt(j, x) \in BOOLEAN
  BY ValuesAreBoolean
<1> SUFFICES \E j \in judged : Covers(j.s, x) /\ (Learned(x) <=> AnswerAt(j, x))
  BY <1>1
<1> DEFINE held == \E s \in cubes : Covers(s, x)
           shown == \E xc \in xor_cubes :
                      Covers(xc[1], x) /\ ~ (XorValue(xc, x) <=> tendency)
<1>2. /\ tendency \in BOOLEAN
      /\ \A j \in judged : j.val \in BOOLEAN
      /\ \A j \in judged : j.by # "xor" => AnswerAt(j, x) = j.val
  <2>1. \A j \in judged : j.by # "xor" => AnswerAt(j, x) = j.val
    BY DEF AnswerAt
  <2> QED  BY <2>1 DEF TypeOK, Judgement
<1>3. Learned(x) <=> ~ ((held \/ shown) <=> tendency)
  <2>1. \A xc : XorValue(xc, x) \in BOOLEAN
    BY DEF XorValue
  <2> QED  BY <1>2, <2>1 DEF Learned, RecordedValue
<1>4. CASE held
  <2>1. PICK s \in cubes : Covers(s, x)
    BY <1>4
  <2>2. PICK j \in judged : j.s = s /\ j.by # "xor" /\ j.val # tendency
    BY <1>0 DEF CubesJudged
  <2>3. Learned(x) <=> ~tendency
    BY <1>3, <1>4, Zenon
  <2>4. Learned(x) <=> j.val
    BY <1>2, <2>2, <2>3
  <2> QED  BY <1>2, <2>1, <2>2, <2>4
<1>5. CASE shown
  <2>1. PICK xc \in xor_cubes : Covers(xc[1], x) /\ ~ (XorValue(xc, x) <=> tendency)
    BY <1>5
  <2>2. PICK j \in judged : j.by = "xor" /\ xc = <<j.s, Invert(j.val)>>
    BY <1>0 DEF XorsJudged
  <2>3. xc[1] = j.s /\ AnswerAt(j, x) = XorValue(xc, x)
    BY <2>2 DEF AnswerAt, Invert
  <2>4. Learned(x) <=> ~tendency
    BY <1>3, <1>5, Zenon
  <2> QED  BY <2>1, <2>2, <2>3, <2>4
<1>6. CASE ~held /\ ~shown
  <2>1. PICK j \in judged : Covers(j.s, x)
    BY DEF Coverage
  <2>2. Learned(x) <=> tendency
    BY <1>3, <1>6, Zenon
  <2>3. CASE j.by = "xor"
    <3>1. <<j.s, Invert(j.val)>> \in xor_cubes /\ <<j.s, Invert(j.val)>>[1] = j.s
      BY <1>0, <2>3 DEF JudgedRecorded
    <3>2. AnswerAt(j, x) = XorValue(<<j.s, Invert(j.val)>>, x)
      BY <2>3 DEF AnswerAt, Invert
    <3>3. XorValue(<<j.s, Invert(j.val)>>, x) <=> tendency
      BY <1>6, <2>1, <3>1
    <3> QED  BY <2>1, <2>2, <3>2, <3>3
  <2>4. CASE j.by # "xor"
    <3>1. j.val = tendency
      BY <1>0, <1>2, <1>6, <2>1, <2>4 DEF JudgedRecorded
    <3> QED  BY <1>2, <2>1, <2>2, <2>4, <3>1
  <2> QED  BY <2>3, <2>4
<1> QED  BY <1>4, <1>5, <1>6

-----------------------------------------------------------------------------
(* Small cubes are learned exactly.                                        *)

\* An exact judgement is right at every point of its cube.
JudgedExact ==
  \A j \in judged : Exact(j) => \A x \in Region(j.s) : oracle[x] = AnswerAt(j, x)

\* A cube that is settled by a full sampling is settled rightly.
LEMMA StepJudgedExact ==
  ASSUME TypeOK, InfoFits, InfoTrue, JudgedExact, [Next]_vars
  PROVE  JudgedExact'
<1>0. oracle' = oracle /\ oracle \in [Point -> BOOLEAN]
  BY StepNotes DEF TypeOK
<1>1. ASSUME NEW j, judged' = judged \cup {j},
             Exact(j) => \A x \in Region(j.s) : oracle[x] = AnswerAt(j, x)
      PROVE  JudgedExact'
  BY <1>0, <1>1 DEF JudgedExact
<1>2. ASSUME judged' = judged
      PROVE  JudgedExact'
  BY <1>0, <1>2 DEF JudgedExact
<1>3. ASSUME NEW s, NEW by \in {"guess", "cut"}, NEW val, Judge(s, by, val)
      PROVE  JudgedExact'
  <2> DEFINE j == [s |-> s, by |-> by, val |-> val]
  <2>1. judged' = judged \cup {j} /\ ~Exact(j)
    BY <1>3 DEF Judge, Exact
  <2> HIDE DEF j
  <2> QED  BY <1>1, <2>1
<1>4. CASE Guess
  BY <1>3, <1>4 DEF Guess
<1>5. CASE RecordCut
  BY <1>3, <1>5 DEF RecordCut, Settle
<1>6. CASE RecordConverged
  <2> DEFINE j == [s |-> cube.s, by |-> "converged", val |-> info.cubeTendency]
  <2>1. judged' = judged \cup {j}
    BY <1>6 DEF RecordConverged, Settle, Judge
  <2>2. TrueOfSmall(oracle, cube, info) /\ ~info.isXor /\ info.isConverged
    BY <1>6 DEF RecordConverged, InfoTrue
  <2>3. ASSUME Exact(j), NEW x \in Region(cube.s)
        PROVE  oracle[x] = AnswerAt(j, x)
    BY <2>2, <2>3 DEF TrueOfSmall, Exact, AnswerAt
  <2>4. j.s = cube.s
    OBVIOUS
  <2> HIDE DEF j
  <2> QED  BY <1>1, <2>1, <2>3, <2>4
<1>7. CASE RecordXor
  <2> DEFINE j == [s |-> cube.s, by |-> "xor", val |-> info.criticalInput = 1]
  <2>1. judged' = judged \cup {j}
    BY <1>7 DEF RecordXor, Judge
  <2>2. TrueOfSmall(oracle, cube, info) /\ info.isXor /\ info.criticalInput \in {0, 1}
    BY <1>7 DEF RecordXor, InfoTrue, InfoFits
  <2>3. ASSUME Exact(j), NEW x \in Region(cube.s)
        PROVE  oracle[x] = AnswerAt(j, x)
    <3>1. Cardinality(Free(cube.s)) <= 2
      BY <2>3 DEF Exact
    <3>2. oracle[x] <=> XorValue(<<cube.s, info.criticalInput>>, x)
      BY <2>2, <3>1 DEF TrueOfSmall
    <3>3. (IF j.val THEN 1 ELSE 0) = info.criticalInput
      BY <2>2
    <3>4. AnswerAt(j, x) = XorValue(<<cube.s, info.criticalInput>>, x)
      BY <3>3 DEF AnswerAt
    <3>5. oracle[x] \in BOOLEAN /\ XorValue(<<cube.s, info.criticalInput>>, x) \in BOOLEAN
      BY <1>0 DEF Region, XorValue
    <3> QED  BY <3>2, <3>4, <3>5
  <2>4. j.s = cube.s
    OBVIOUS
  <2> HIDE DEF j
  <2> QED  BY <1>1, <2>1, <2>3, <2>4
<1>8. CASE Sample \/ Split \/ Finish \/ UNCHANGED vars
  BY <1>2, <1>8 DEF Sample, Split, Finish, vars
<1> QED  BY <1>4, <1>5, <1>6, <1>7, <1>8 DEF Next, Returned

\* The queue is empty once the loop has ended.
Drained == pc = "done" => queue = <<>>

\* The search is done when the queue is empty only.
LEMMA StepDrained ==
  ASSUME Drained, [Next]_vars
  PROVE  Drained'
BY DEF Drained, Next, Guess, Sample, RecordXor, RecordConverged, RecordCut, Settle,
       Split, Finish, Returned, vars

\* When all judgements are exact the recorded cubes are the function of the black box.
LEMMA ExactAtTheEnd ==
  ASSUME TypeOK, Coverage, Books, JudgedExact, Drained
  PROVE  ExactWhenSmall
<1> SUFFICES ASSUME pc = "done", \A j \in judged : Exact(j), NEW x \in Point
             PROVE  Learned(x) = oracle[x]
  BY DEF ExactWhenSmall
<1>1. Open = {}
  <2>1. queue = <<>>
    BY DEF Drained
  <2>2. Elements(<<>>) = {}
    BY DEF Elements
  <2> QED  BY <2>1, <2>2, OpenIs
<1>2. PICK j \in judged : Covers(j.s, x) /\ Learned(x) = AnswerAt(j, x)
  BY <1>1, LearnedIsAnswer
<1>3. oracle[x] = AnswerAt(j, x)
  BY <1>2 DEF JudgedExact, Region
<1> QED  BY <1>2, <1>3

\* For any number of inputs, whatever the black box computes and whatever is drawn:
\* cubes that are settled when few inputs are left are learned exactly.
THEOREM ExactCorrect == Spec => []ExactWhenSmall
<1>1. Init => JudgedExact /\ Drained
  BY DEF Init, JudgedExact, Drained
<1>2. IInv /\ InfoTrue /\ JudgedExact /\ Drained /\ [Next]_vars => JudgedExact' /\ Drained'
  BY StepJudgedExact, StepDrained DEF IInv
<1>3. IInv /\ Coverage /\ Books /\ JudgedExact /\ Drained => ExactWhenSmall
  BY ExactAtTheEnd DEF IInv
<1> QED  BY <1>1, <1>2, <1>3, Invariance, BooksCorrect, PTL DEF Spec

\* Small cubes are split on an input they still leave free.
THEOREM SplitsFreshCorrect == Spec => SplitsSmallCubesFresh
<1>1. InfoTrue /\ [Next]_vars =>
        [(Split /\ Cardinality(Free(cube.s)) <= 2) =>
           info.criticalInput \in Free(cube.s)]_vars
  BY DEF InfoTrue, TrueOfSmall, Split
<1> QED  BY <1>1, BooksCorrect, PTL DEF Spec, SplitsSmallCubesFresh

-----------------------------------------------------------------------------
(* The end.                                                                *)

\* Each step of the loop leaves less to do.
LEMMA StepEndsNearer ==
  ASSUME TypeOK, Next, ~Returned
  PROVE  \/ CallsLeft' < CallsLeft
         \/ CallsLeft' = CallsLeft /\ StepsLeft' < StepsLeft
<1>1. /\ budget \in Nat /\ dead \in BOOLEAN /\ Len(queue) \in Nat
      /\ queue # <<>> => Len(Tail(queue)) = Len(queue) - 1
  <2>1. queue \in Seq(Cube)
    BY DEF TypeOK
  <2>2. queue # <<>> => Len(Tail(queue)) = Len(queue) - 1
    BY <2>1
  <2> QED  BY <2>1, <2>2 DEF TypeOK
<1>2. CASE Guess
  <2>1. /\ pc = "loop" /\ pc' = "loop" /\ dead /\ dead'
        /\ Len(queue') = Len(queue) - 1
    BY <1>1, <1>2 DEF Guess
  <2> QED  BY <1>1, <2>1 DEF CallsLeft, StepsLeft
<1>3. CASE Sample
  <2>1. /\ pc = "loop" /\ pc' = "decide" /\ Len(queue') = Len(queue) - 1
        /\ dead' = (dead \/ budget = 0)
        /\ budget' = (IF budget = 0 THEN 0 ELSE budget - 1)
    BY <1>1, <1>3 DEF Sample
  <2>2. CASE dead
    <3>1. CallsLeft' = CallsLeft
      BY <2>1, <2>2 DEF CallsLeft
    <3>2. StepsLeft' < StepsLeft
      BY <1>1, <2>1 DEF StepsLeft
    <3> QED  BY <3>1, <3>2
  <2>3. CASE ~dead
    <3>1. CallsLeft = 2 * (budget + 1)
      BY <1>1, <2>1, <2>3 DEF CallsLeft
    <3>2. CASE budget = 0
      <4>1. dead'
        BY <2>1, <3>2
      <4>2. CallsLeft' = 0
        BY <4>1 DEF CallsLeft
      <4> QED  BY <1>1, <3>1, <4>2
    <3>3. CASE budget # 0
      <4>1. budget' = budget - 1 /\ ~dead' /\ pc' = "decide"
        BY <2>1, <2>3, <3>3
      <4>2. CallsLeft' = 2 * ((budget - 1) + 1) + 1
        BY <4>1 DEF CallsLeft
      <4> QED  BY <1>1, <3>1, <4>2
    <3> QED  BY <3>2, <3>3
  <2> QED  BY <2>2, <2>3
<1>4. CASE RecordXor \/ RecordConverged \/ RecordCut
  <2>1. /\ pc = "decide" /\ pc' = "loop" /\ queue' = queue
        /\ dead' = dead /\ budget' = budget
    BY <1>4 DEF RecordXor, RecordConverged, RecordCut, Settle
  <2> QED  BY <1>1, <2>1 DEF CallsLeft, StepsLeft
<1>5. CASE Split
  <2>1. /\ pc = "decide" /\ pc' = "loop" /\ ~dead
        /\ dead' = dead /\ budget' = budget
    BY <1>5 DEF Split, TooDeep
  <2> QED  BY <1>1, <2>1 DEF CallsLeft
<1>6. CASE Finish
  <2>1. /\ pc = "loop" /\ pc' = "done" /\ queue' = queue
        /\ dead' = dead /\ budget' = budget
    BY <1>6 DEF Finish
  <2> QED  BY <1>1, <2>1 DEF CallsLeft, StepsLeft
<1> QED  BY <1>2, <1>3, <1>4, <1>5, <1>6 DEF Next

\* For any number of inputs and any deadline: the loop ends by its deadline, and once
\* it has passed every step shortens the queue, whatever is split into itself before.
THEOREM EndsNearerCorrect == Spec => EndsNearer
<1>1. TypeOK /\ [Next]_vars =>
        [\/ CallsLeft' < CallsLeft
         \/ CallsLeft' = CallsLeft /\ StepsLeft' < StepsLeft]_vars
  BY StepEndsNearer DEF Returned
<1> QED  BY <1>1, TypeCorrect, PTL DEF Spec, EndsNearer

-----------------------------------------------------------------------------
(***************************************************************************)
(* The loop implements the abstract task. A judgement answers the points   *)
(* of its cube, which were pending because the cube was open; a split      *)
(* drops no point, and reopens some when an assigned input is split again. *)
(***************************************************************************)
Pending == {x \in Point : \E c \in Open : Covers(c.s, x)}
AnswersAt(x) == {AnswerAt(j, x) : j \in {jj \in judged : Covers(jj.s, x)}}

\* Judgements add answers, and only to the points of a cube that was open.
LEMMA AnswersGrow ==
  ASSUME TypeOK, Noted, tendency' = tendency, NEW x \in Point
  PROVE  /\ AnswersAt(x) \subseteq AnswersAt(x)'
         /\ x \notin Pending => AnswersAt(x)' = AnswersAt(x) /\ Learned(x)' = Learned(x)
<1>1. ASSUME NEW s, NEW by, NEW val, Judge(s, by, val)
      PROVE  /\ AnswersAt(x) \subseteq AnswersAt(x)'
             /\ ~Covers(s, x) => AnswersAt(x)' = AnswersAt(x)
  <2> DEFINE j == [s |-> s, by |-> by, val |-> val]
  <2>1. judged' = judged \cup {j} /\ j.s = s
    BY <1>1 DEF Judge
  <2>2. \A k : AnswerAt(k, x)' = AnswerAt(k, x) /\ Covers(k.s, x)' = Covers(k.s, x)
    BY DEF AnswerAt, XorValue, Parity, Covers, Free
  <2> HIDE DEF j
  <2> QED  BY <2>1, <2>2 DEF AnswersAt
<1>2. ASSUME NEW c \in Open, NEW by, NEW val, NoteValue(c.s, by, val)
      PROVE  /\ AnswersAt(x) \subseteq AnswersAt(x)'
             /\ x \notin Pending => AnswersAt(x)' = AnswersAt(x) /\ Learned(x)' = Learned(x)
  <2>1. Judge(c.s, by, val)
    BY <1>2 DEF NoteValue
  <2>2. x \notin Pending => ~Covers(c.s, x)
    BY DEF Pending
  <2>3. ~Covers(c.s, x) => Learned(x)' = Learned(x)
    BY <1>2 DEF NoteValue, Learned, RecordedValue
  <2> QED  BY <1>1, <2>1, <2>2, <2>3
<1>3. ASSUME NEW c \in Open, NEW v, NoteXor(c.s, v)
      PROVE  /\ AnswersAt(x) \subseteq AnswersAt(x)'
             /\ x \notin Pending => AnswersAt(x)' = AnswersAt(x) /\ Learned(x)' = Learned(x)
  <2>1. Judge(c.s, "xor", v = 1)
    BY <1>3 DEF NoteXor
  <2>2. x \notin Pending => ~Covers(c.s, x)
    BY DEF Pending
  <2>3. ASSUME ~Covers(c.s, x)
        PROVE  Learned(x)' = Learned(x)
    <3>1. /\ cubes' = cubes /\ xor_cubes' = xor_cubes \cup {<<c.s, v>>}
          /\ <<c.s, v>>[1] = c.s
      BY <1>3 DEF NoteXor
    <3>2. (\E xc \in xor_cubes' : Covers(xc[1], x) /\ (XorValue(xc, x) # tendency))
            <=> (\E xc \in xor_cubes : Covers(xc[1], x) /\ (XorValue(xc, x) # tendency))
      BY <2>3, <3>1
    <3>3. tendency' = tendency
      BY StepNotes
    <3> QED  BY <3>1, <3>2, <3>3 DEF Learned, RecordedValue
  <2> QED  BY <1>1, <2>1, <2>2, <2>3
<1>4. CASE UNCHANGED <<judged, cubes, xor_cubes>>
  BY <1>4 DEF AnswersAt, Learned
<1> QED  BY <1>2, <1>3, <1>4 DEF Noted

\* Points cease to be pending by a judgement only, and a split keeps them pending.
LEMMA PendingShrinks ==
  ASSUME TypeOK, [Next]_vars, ~Split
  PROVE  Pending' \subseteq Pending
<1>1. CASE Guess
  BY <1>1, OpenAfterPop DEF Guess, Pending
<1>2. CASE Sample
  <2>1. Front.s = Head(queue).s
    BY <1>2, FrontCube DEF Sample
  <2> QED  BY <1>2, <2>1, OpenAfterPop DEF Sample, Pending
<1>3. CASE RecordXor \/ RecordConverged \/ RecordCut \/ Finish \/ UNCHANGED vars
  BY <1>3, OpenShrinks DEF Pending
<1> QED  BY <1>1, <1>2, <1>3 DEF Next, Returned

\* A split leaves every point covered that was.
LEMMA PendingStays ==
  ASSUME TypeOK, InfoFits, Split
  PROVE  Pending \subseteq Pending'
<1>1. info.criticalInput \in PI /\ cube \in Cube
  BY DEF Split, InfoFits, TypeOK
<1>2. /\ NegCofactor.s = [cube.s EXCEPT ![info.criticalInput] = "0"]
      /\ PosCofactor.s = [cube.s EXCEPT ![info.criticalInput] = "1"]
  BY <1>1, Cofactors
<1>3. \A x \in Point : Covers(cube.s, x) =>
        Covers(NegCofactor.s, x) \/ Covers(PosCofactor.s, x)
  BY <1>1, <1>2, CofactorsCover
<1> QED  BY <1>1, <1>3, OpenAfterSplit DEF Pending

\* The refinement mapping, and the actions of the task, under these names.
LEMMA TaskIs ==
  /\ Task!Init <=>
       /\ Pending = Point
       /\ [x \in Point |-> AnswersAt(x)] = [x \in Point |-> {}]
       /\ \E default \in BOOLEAN :
            [x \in Point |-> Learned(x)] = [x \in Point |-> default]
  /\ Task!Answer <=>
       /\ Pending' \in SUBSET Pending
       /\ [x \in Point |-> AnswersAt(x)]' \in [Point -> SUBSET BOOLEAN]
       /\ [x \in Point |-> Learned(x)]' \in [Point -> BOOLEAN]
       /\ \A x \in Point :
            /\ [y \in Point |-> AnswersAt(y)][x] \subseteq [y \in Point |-> AnswersAt(y)]'[x]
            /\ x \notin Pending =>
                 /\ [y \in Point |-> AnswersAt(y)]'[x] = [y \in Point |-> AnswersAt(y)][x]
                 /\ [y \in Point |-> Learned(y)]'[x] = [y \in Point |-> Learned(y)][x]
            /\ x \notin Pending' =>
                 [y \in Point |-> Learned(y)]'[x] \in [y \in Point |-> AnswersAt(y)]'[x]
  /\ Task!Reopen <=>
       /\ Pending' \in SUBSET Point
       /\ Pending \subseteq Pending'
       /\ [x \in Point |-> AnswersAt(x)]' = [x \in Point |-> AnswersAt(x)]
       /\ [x \in Point |-> Learned(x)]' = [x \in Point |-> Learned(x)]
BY Zenon DEF Task!Init, Task!Answer, Task!Reopen, Pending, AnswersAt

\* At first every point is pending.
LEMMA TaskInit == Init => Task!Init
<1> SUFFICES ASSUME Init PROVE Task!Init
  OBVIOUS
<1>1. Pending = Point
  <2>1. \A x \in Point : Covers(cube.s, x)
    BY DEF Init, NewCube, AllFree, Covers
  <2>2. queue = <<cube>> /\ Elements(<<cube>>) = {cube}
    BY DEF Init, Elements
  <2>3. cube \in Open
    BY <2>2, OpenIs
  <2> QED  BY <2>1, <2>3 DEF Pending
<1>2. \A x \in Point : AnswersAt(x) = {}
  BY DEF Init, AnswersAt
<1>3. tendency \in BOOLEAN /\ \A x \in Point : Learned(x) = tendency
  BY DEF Init, Learned, RecordedValue
<1> QED  BY <1>1, <1>2, <1>3, TaskIs

\* What the task relies on: a dropped point has been given the value learned of it.
Answered ==
  \A x \in Point : /\ AnswersAt(x) \in SUBSET BOOLEAN
                   /\ Learned(x) \in BOOLEAN
                   /\ x \notin Pending => Learned(x) \in AnswersAt(x)

\* A point that is not pending has an answer.
LEMMA DroppedAnswered ==
  ASSUME TypeOK, Coverage, Books
  PROVE  Answered
<1> SUFFICES ASSUME NEW x \in Point
             PROVE  /\ AnswersAt(x) \in SUBSET BOOLEAN
                    /\ Learned(x) \in BOOLEAN
                    /\ x \notin Pending => Learned(x) \in AnswersAt(x)
  BY DEF Answered
<1>1. Learned(x) \in BOOLEAN /\ \A j \in judged : AnswerAt(j, x) \in BOOLEAN
  BY ValuesAreBoolean
<1>2. ASSUME x \notin Pending
      PROVE  Learned(x) \in AnswersAt(x)
  <2>1. ~ \E c \in Open : Covers(c.s, x)
    BY <1>2 DEF Pending
  <2>2. \E j \in judged : Covers(j.s, x) /\ Learned(x) = AnswerAt(j, x)
    BY <2>1, LearnedIsAnswer
  <2> QED  BY <2>2 DEF AnswersAt
<1> QED  BY <1>1, <1>2 DEF AnswersAt

\* Every step answers points, or opens some of them again, or neither.
LEMMA TaskStep ==
  ASSUME TypeOK, InfoFits, [Next]_vars, Answered'
  PROVE  Task!Answer \/ Task!Reopen
<1>1. Noted /\ tendency' = tendency
  BY StepNotes
<1>2. ASSUME NEW x \in Point
      PROVE  /\ AnswersAt(x) \subseteq AnswersAt(x)'
             /\ x \notin Pending => AnswersAt(x)' = AnswersAt(x) /\ Learned(x)' = Learned(x)
  BY <1>1, AnswersGrow
<1>3. CASE Split
  <2>1. Pending' \in SUBSET Point /\ Pending \subseteq Pending'
    BY <1>3, PendingStays DEF Pending
  <2>2. UNCHANGED <<judged, cubes, xor_cubes, tendency>>
    BY <1>3 DEF Split
  <2>3. \A x \in Point : AnswersAt(x)' = AnswersAt(x) /\ Learned(x)' = Learned(x)
    BY <2>2 DEF AnswersAt, Learned
  <2> QED  BY <2>1, <2>3, TaskIs
<1>4. CASE ~Split
  <2>1. Pending' \in SUBSET Pending
    BY <1>4, PendingShrinks
  <2>2. \A x \in Point : /\ AnswersAt(x)' \in SUBSET BOOLEAN
                         /\ Learned(x)' \in BOOLEAN
                         /\ x \notin Pending' => Learned(x)' \in AnswersAt(x)'
    BY DEF Answered
  <2> QED  BY <1>2, <2>1, <2>2, TaskIs
<1> QED  BY <1>3, <1>4

\* For any number of inputs, any black box and any samples, each step of the loop
\* answers pending points or reopens some: the safety part of the task.
THEOREM ImplementsTaskCorrect == Spec => ImplementsTask
<1>1. Init => Task!Init
  BY TaskInit
<1>2. IInv /\ Coverage /\ Books => Answered
  BY DroppedAnswered DEF IInv
<1>3. IInv /\ Answered' /\ [Next]_vars => [Task!Next]_(Task!vars)
  BY TaskStep DEF IInv, Task!Next
<1> QED  BY <1>1, <1>2, <1>3, Invariance, BooksCorrect, PTL DEF Spec, ImplementsTask, Task!Spec
=============================================================================
