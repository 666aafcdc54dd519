----------------------------- MODULE Lrg_proofs -----------------------------
(***************************************************************************)
(* Results are kept and assembled as they were found, for any number of    *)
(* inputs and outputs, whatever is learned: the types of the results of    *)
(* main(), the verdicts of the simulations, and the final circuit.         *)
(***************************************************************************)
EXTENDS Lrg, Network_proofs, SequenceTheorems

-----------------------------------------------------------------------------
(* One batch.                                                              *)

\* The lines of a batch of B from L lines, and which of them are in D.
BatchOf(L, B, D) == {j \in 1 .. B : IF j <= L THEN L + 1 - j \in D ELSE 1 \in D}
Rest(L, B) == IF L > B THEN L - B ELSE 0
TakenFrom(L, B, D) == {n \in Rest(L, B) + 1 .. L : n \in D}

\* The lines of D that have been taken when L of F lines are left.
Before(F, L, D) == {n \in L + 1 .. F : n \in D}

\* The subsets of an interval are finite.
LEMMA IntervalSubset ==
  ASSUME NEW a \in Int, NEW b \in Int, NEW S, S \subseteq a .. b
  PROVE  IsFiniteSet(S) /\ Cardinality(S) \in Nat
<1>1. IsFiniteSet(a .. b)
  BY FS_Interval
<1>2. IsFiniteSet(S)
  BY <1>1, FS_Subset
<1> QED BY <1>2, FS_CardinalityType

\* Two finite sets without a common element.
LEMMA DisjointUnion ==
  ASSUME NEW S, NEW T, IsFiniteSet(S), IsFiniteSet(T), S \cap T = {}
  PROVE  /\ IsFiniteSet(S \cup T) /\ Cardinality(S) \in Nat /\ Cardinality(T) \in Nat
         /\ Cardinality(S \cup T) = Cardinality(S) + Cardinality(T)
<1>1. /\ IsFiniteSet(S \cup T)
      /\ Cardinality(S \cup T) = Cardinality(S) + Cardinality(T) - Cardinality(S \cap T)
  BY FS_Union
<1>2. Cardinality(S \cap T) = 0
  BY FS_EmptySet
<1>3. Cardinality(S) \in Nat /\ Cardinality(T) \in Nat
  BY FS_CardinalityType
<1> QED BY <1>1, <1>2, <1>3

\* Positions of a batch that are in D: as many as there are lines of it in D, and
\* the copies of the first line when that is in D.
LEMMA BatchCount ==
  ASSUME NEW L \in Nat \ {0}, NEW B \in Nat \ {0}, NEW D
  PROVE  /\ IsFiniteSet(BatchOf(L, B, D))
         /\ Cardinality(BatchOf(L, B, D))
              = Cardinality(TakenFrom(L, B, D))
                + (IF 1 \in D /\ L < B THEN B - L ELSE 0)
<1>1. PICK m \in Nat \ {0} : m <= L /\ m <= B /\ (m = L \/ m = B)
  <2>1. CASE L <= B
    BY <2>1
  <2>2. CASE B < L
    BY <2>2
  <2> QED BY <2>1, <2>2
<1> DEFINE A == {j \in 1 .. m : L + 1 - j \in D}
           N == TakenFrom(L, B, D)
           C == {j \in m + 1 .. B : 1 \in D}
<1>2. N = {n \in L - m + 1 .. L : n \in D}
  BY <1>1 DEF TakenFrom, Rest
<1> HIDE DEF N
<1>3. BatchOf(L, B, D) = A \cup C
  BY <1>1 DEF BatchOf
<1>4. A \cap C = {}
  BY <1>1
<1>5. IsFiniteSet(A) /\ IsFiniteSet(C)
  <2>1. /\ A \subseteq 1 .. m /\ C \subseteq m + 1 .. B
        /\ m \in Int /\ B \in Int /\ 1 \in Int /\ m + 1 \in Int
    OBVIOUS
  <2> HIDE DEF A, C
  <2> QED BY <2>1, IntervalSubset
<1>6. Cardinality(C) = IF 1 \in D /\ L < B THEN B - L ELSE 0
  <2>1. CASE 1 \in D
    <3>1. C = m + 1 .. B
      BY <2>1
    <3>2. Cardinality(m + 1 .. B) = IF m + 1 > B THEN 0 ELSE B - (m + 1) + 1
      BY FS_Interval
    <3> HIDE DEF C
    <3> QED BY <1>1, <2>1, <3>1, <3>2
  <2>2. CASE 1 \notin D
    <3>1. C = {}
      BY <2>2
    <3> HIDE DEF C
    <3> QED BY <2>2, <3>1, FS_EmptySet
  <2> QED BY <2>1, <2>2
<1>7. Cardinality(N) = Cardinality(A)
  <2> DEFINE g == [j \in A |-> L + 1 - j]
  <2>1. g \in [A -> N]
    BY <1>1, <1>2
  <2>2. \A n \in N : \E j \in A : g[j] = n
    <3> SUFFICES ASSUME NEW n \in N PROVE \E j \in A : g[j] = n
      OBVIOUS
    <3>1. n \in L - m + 1 .. L /\ n \in D
      BY <1>2
    <3>2. L + 1 - n \in 1 .. m /\ L + 1 - (L + 1 - n) = n
      BY <1>1, <3>1
    <3>3. L + 1 - n \in A
      BY <3>1, <3>2
    <3> QED BY <3>2, <3>3
  <2>3. \A i, j \in A : g[i] = g[j] => i = j
    OBVIOUS
  <2>4. g \in Bijection(A, N)
    <3> HIDE DEF g, A, N
    <3> QED BY <2>1, <2>2, <2>3 DEF Bijection, Injection, Surjection, IsInjective
  <2> HIDE DEF g, A, N
  <2> QED BY <1>5, <2>4, FS_Bijection DEF ExistsBijection
<1> HIDE DEF A, C, N
<1>8. /\ IsFiniteSet(A \cup C) /\ Cardinality(A \cup C) = Cardinality(A) + Cardinality(C)
  BY <1>4, <1>5, DisjointUnion
<1>9. Cardinality(BatchOf(L, B, D)) = Cardinality(N) + Cardinality(C)
  BY <1>3, <1>7, <1>8
<1> QED BY <1>3, <1>6, <1>8, <1>9 DEF N

\* Errors are counted for the lines taken, and the copies in the last batch.
LEMMA CountStep ==
  ASSUME NEW F \in Nat, NEW L \in 1 .. F, NEW B \in Nat \ {0}, NEW D
  PROVE  /\ Cardinality(Before(F, L, D)) \in Nat
         /\ Cardinality(Before(F, Rest(L, B), D)) \in Nat
         /\ Cardinality(Before(F, L, D)) + Cardinality(BatchOf(L, B, D))
              = Cardinality(Before(F, Rest(L, B), D))
                + (IF 1 \in Before(F, Rest(L, B), D)
                   THEN IF L < B THEN B - L ELSE 0 ELSE 0)
<1> DEFINE batch == TakenFrom(L, B, D)
<1>1. PICK l \in Nat : /\ l = Rest(L, B) /\ l < L /\ (L < B => l = 0)
                       /\ batch = {n \in l + 1 .. L : n \in D}
  <2>1. Rest(L, B) \in Nat /\ Rest(L, B) < L /\ (L < B => Rest(L, B) = 0)
    BY DEF Rest
  <2> QED BY <2>1 DEF TakenFrom
<1>2. PICK old, new : old = Before(F, L, D) /\ new = Before(F, l, D)
  OBVIOUS
<1>3. new = old \cup batch /\ old \cap batch = {}
  BY <1>1, <1>2 DEF Before
<1>4. 1 \in new /\ L < B <=> 1 \in D /\ L < B
  BY <1>1, <1>2 DEF Before
<1>5. IsFiniteSet(old) /\ IsFiniteSet(batch)
  <2>1. /\ old \subseteq L + 1 .. F /\ batch \subseteq l + 1 .. L
        /\ L + 1 \in Int /\ F \in Int /\ l + 1 \in Int /\ L \in Int
    BY <1>1, <1>2 DEF Before
  <2> HIDE DEF batch
  <2> QED BY <2>1, IntervalSubset
<1>6. Cardinality(BatchOf(L, B, D))
        = Cardinality(batch) + (IF 1 \in D /\ L < B THEN B - L ELSE 0)
  <2>1. L \in Nat \ {0}
    OBVIOUS
  <2> QED BY <2>1, BatchCount
<1> HIDE DEF batch
<1>7. /\ Cardinality(old) \in Nat /\ Cardinality(batch) \in Nat
      /\ Cardinality(new) = Cardinality(old) + Cardinality(batch)
  BY <1>3, <1>5, DisjointUnion
<1>8. (IF 1 \in new THEN IF L < B THEN B - L ELSE 0 ELSE 0)
        = (IF 1 \in D /\ L < B THEN B - L ELSE 0)
  BY <1>4
<1>9. (IF 1 \in D /\ L < B THEN B - L ELSE 0) \in Int
  OBVIOUS
<1>10. Cardinality(old) + Cardinality(BatchOf(L, B, D))
         = Cardinality(new) + (IF 1 \in new THEN IF L < B THEN B - L ELSE 0 ELSE 0)
  BY <1>6, <1>7, <1>8, <1>9
<1>11. Cardinality(old) \in Nat /\ Cardinality(new) \in Nat
  BY <1>7
<1> QED BY <1>1, <1>2, <1>10, <1>11

-----------------------------------------------------------------------------
(* The counts of a simulation.                                             *)

\* A count of errors: the wrong lines taken, and the copies of the first line when
\* that is among them.
Count(n, W) == n = Cardinality(W) + (IF 1 \in W THEN Copies ELSE 0)

\* No simulation is running.
Idle ==
  /\ fileString = <<>>
  /\ batches = 0
  /\ incorrect = NoErrors
  /\ unsatisfied = 0

SimulationFits ==
  /\ \A n \in DOMAIN fileString :
       fileString[n].out = {o \in PO : fileString[n].in \in box[o]}
  /\ Copies \in 0 .. BatchBits - 1
  /\ left > 0 => Copies = 0
  /\ \A o \in PO : Count(incorrect[o], WrongLines(po, {o}))
  /\ Count(unsatisfied, WrongLines(po, PO))
  /\ pc \notin {"try", "check", "measure"} => Idle

\* How many lines have been taken.
LEMMA TakenCount ==
  ASSUME left \in 0 .. Len(fileString), Len(fileString) \in Nat
  PROVE  Cardinality(Taken) = Len(fileString) - left
<1>1. left + 1 \in Int /\ Len(fileString) \in Int
  OBVIOUS
<1>2. Cardinality(left + 1 .. Len(fileString))
        = IF left + 1 > Len(fileString) THEN 0 ELSE Len(fileString) - (left + 1) + 1
  BY <1>1, FS_Interval
<1> QED BY <1>2 DEF Taken

\* The wrong positions of a batch.
LEMMA WrongIs ==
  ASSUME left \in 1 .. Len(fileString), NEW net, NEW o
  PROVE  Wrong(net, o) = BatchOf(left, BatchBits,
                           {n \in 1 .. Len(fileString) : Differs(net, o, fileString[n])})
<1> DEFINE D == {n \in 1 .. Len(fileString) : Differs(net, o, fileString[n])}
<1>1. left \in Nat /\ BatchBits \in Nat
  BY SimulationAssumption
<1>2. \A j \in 1 .. BatchBits :
        Batch[j] = IF j <= left THEN fileString[left + 1 - j] ELSE fileString[1]
  BY DEF Batch
<1>3. \A j \in 1 .. BatchBits : j <= left => left + 1 - j \in 1 .. Len(fileString)
  BY <1>1
<1>4. 1 \in 1 .. Len(fileString)
  BY <1>1
<1>5. \A j \in 1 .. BatchBits :
        Differs(net, o, Batch[j]) <=> IF j <= left THEN left + 1 - j \in D ELSE 1 \in D
  BY <1>2, <1>3, <1>4
<1> HIDE DEF D
<1>6. Wrong(net, o) = BatchOf(left, BatchBits, D)
  BY <1>5 DEF Wrong, BatchOf
<1> QED BY <1>6 DEF D

\* The positions where some output is wrong.
LEMMA AllWrongIs ==
  ASSUME left \in 1 .. Len(fileString), NEW net
  PROVE  UNION {Wrong(net, o) : o \in PO}
           = BatchOf(left, BatchBits,
               {n \in 1 .. Len(fileString) : \E o \in PO : Differs(net, o, fileString[n])})
<1> DEFINE D(o) == {n \in 1 .. Len(fileString) : Differs(net, o, fileString[n])}
           E == {n \in 1 .. Len(fileString) : \E o \in PO : Differs(net, o, fileString[n])}
<1>1. \A o \in PO : Wrong(net, o) = BatchOf(left, BatchBits, D(o))
  BY WrongIs
<1>2. \A n : n \in E <=> \E o \in PO : n \in D(o)
  OBVIOUS
<1> HIDE DEF D, E
<1>3. \A j : j \in BatchOf(left, BatchBits, E)
               <=> \E o \in PO : j \in BatchOf(left, BatchBits, D(o))
  BY <1>2 DEF BatchOf
<1>4. UNION {Wrong(net, o) : o \in PO} = BatchOf(left, BatchBits, E)
  BY <1>1, <1>3
<1> QED BY <1>4 DEF E

\* The lines of the file where an output differs, or some output does.
WrongAt(net, o) == {n \in 1 .. Len(fileString) : Differs(net, o, fileString[n])}
SomeWrongAt(net) ==
  {n \in 1 .. Len(fileString) : \E o \in PO : Differs(net, o, fileString[n])}

\* The wrong lines that have been taken.
LEMMA WrongLinesAre ==
  ASSUME left \in Nat, Len(fileString) \in Nat, NEW net, NEW o
  PROVE  /\ WrongLines(net, {o}) = Before(Len(fileString), left, WrongAt(net, o))
         /\ WrongLines(net, PO) = Before(Len(fileString), left, SomeWrongAt(net))
<1>1. Taken \subseteq 1 .. Len(fileString)
  BY DEF Taken
<1> QED BY <1>1 DEF WrongLines, Before, WrongAt, SomeWrongAt, Taken

\* A batch is simulated.
LEMMA BatchFits ==
  ASSUME SimulationTypeOK, SimulationFits, SimulateBatch(po), UNCHANGED <<po, pc>>,
         pc \in {"try", "check", "measure"}
  PROVE  SimulationTypeOK' /\ SimulationFits'
<1> USE DEF SimulationTypeOK
<1>1. PICK F \in Nat, L \in Nat, B \in Nat \ {0} :
        /\ L \in 1 .. F /\ F = Len(fileString) /\ L = left /\ B = BatchBits
        /\ DOMAIN fileString = 1 .. F
  <2>1. Len(fileString) \in Nat /\ DOMAIN fileString = 1 .. Len(fileString)
    OBVIOUS
  <2>2. left \in Nat /\ left \in 1 .. Len(fileString)
    BY <2>1 DEF SimulateBatch
  <2>3. BatchBits \in Nat \ {0}
    BY SimulationAssumption
  <2> HIDE DEF SimulationTypeOK
  <2> QED BY <2>1, <2>2, <2>3
<1>2. /\ fileString' = fileString /\ box' = box /\ left' = Rest(L, B)
      /\ batches' = batches + 1 /\ Len(fileString') = F
  BY <1>1 DEF SimulateBatch, LeftOver, Rest
<1>3. Rest(L, B) \in 0 .. F /\ (L < B => Rest(L, B) = 0) /\ (Rest(L, B) > 0 => L > B)
  BY <1>1 DEF Rest
<1>4. PICK copies \in 0 .. B - 1 : copies = IF L < B THEN B - L ELSE 0
  <2>1. (IF L < B THEN B - L ELSE 0) \in 0 .. B - 1
    BY <1>1
  <2> QED BY <2>1
<1>5. Copies = 0
  BY <1>1 DEF SimulationFits
<1>6. Copies' = copies
  <2>1. Cardinality(Taken) = F - L
    BY <1>1, TakenCount
  <2>2. Taken' = Rest(L, B) + 1 .. F
    BY <1>2 DEF Taken
  <2>3. Cardinality(Taken') = F - Rest(L, B)
    <3>1. Rest(L, B) + 1 \in Int /\ F \in Int
      BY <1>3
    <3>2. Cardinality(Rest(L, B) + 1 .. F)
            = IF Rest(L, B) + 1 > F THEN 0 ELSE F - (Rest(L, B) + 1) + 1
      BY <3>1, FS_Interval
    <3> QED BY <1>3, <2>2, <3>2
  <2>4. PICK p \in Int : p = batches * B
    BY <1>1
  <2>5. (batches + 1) * B = p + B
    <3>1. (batches + 1) * B = batches * B + B
      BY <1>1
    <3> QED BY <2>4, <3>1
  <2>6. p - (F - L) = 0
    BY <1>1, <1>5, <2>1, <2>4 DEF Copies
  <2>7. Copies' = (p + B) - (F - Rest(L, B))
    BY <1>1, <1>2, <2>3, <2>5 DEF Copies
  <2> QED BY <1>4, <2>6, <2>7 DEF Rest
<1>7. \A D : /\ Cardinality(Before(F, L, D)) \in Nat
             /\ Cardinality(Before(F, Rest(L, B), D)) \in Nat
             /\ Cardinality(Before(F, L, D)) + Cardinality(BatchOf(L, B, D))
                  = Cardinality(Before(F, Rest(L, B), D))
                    + (IF 1 \in Before(F, Rest(L, B), D) THEN copies ELSE 0)
  BY <1>1, <1>4, CountStep
<1>8. /\ (Rest(L, B) > 0) => copies = 0
      /\ \A D : 1 \notin Before(F, L, D)
  BY <1>3, <1>4 DEF Before
<1>9. ASSUME NEW o \in PO
      PROVE  Count(incorrect[o], WrongLines(po, {o}))' /\ incorrect'[o] \in Nat
  <2>1. PICK D : D = WrongAt(po, o)
    OBVIOUS
  <2>2. incorrect[o] = Cardinality(Before(F, L, D))
    <3>1. WrongLines(po, {o}) = Before(F, L, D)
      BY <1>1, <2>1, WrongLinesAre
    <3>2. Count(incorrect[o], Before(F, L, D))
      BY <3>1 DEF SimulationFits
    <3>3. Cardinality(Before(F, L, D)) \in Nat
      BY <1>7
    <3> QED BY <1>8, <3>2, <3>3 DEF Count
  <2>3. incorrect'[o] = incorrect[o] + Cardinality(BatchOf(L, B, D))
    <3>1. Wrong(po, o) = BatchOf(L, B, D)
      BY <1>1, <2>1, WrongIs DEF WrongAt
    <3> QED BY <3>1 DEF SimulateBatch
  <2>4. WrongLines(po, {o})' = Before(F, Rest(L, B), D)
    <3>1. WrongAt(po, o)' = D /\ Taken' = Rest(L, B) + 1 .. F
      BY <1>2, <2>1 DEF WrongAt, Differs, Taken
    <3>2. (Rest(L, B) + 1 .. F) \subseteq 1 .. F
      BY <1>3
    <3> QED BY <1>1, <1>2, <2>1, <3>1, <3>2 DEF WrongLines, Before, WrongAt, Differs
  <2>5. Cardinality(BatchOf(L, B, D)) \in Nat
    <3>1. L \in Nat \ {0}
      BY <1>1
    <3> QED BY <3>1, BatchCount, FS_CardinalityType
  <2>6. incorrect'[o] = Cardinality(Before(F, Rest(L, B), D))
                        + (IF 1 \in Before(F, Rest(L, B), D) THEN copies ELSE 0)
    BY <1>7, <2>2, <2>3
  <2>7. incorrect'[o] \in Nat
    BY <1>7, <2>2, <2>3, <2>5
  <2> QED BY <1>6, <2>4, <2>6, <2>7 DEF Count
<1>10. Count(unsatisfied, WrongLines(po, PO))' /\ unsatisfied' \in Nat
  <2>1. PICK D : D = SomeWrongAt(po)
    OBVIOUS
  <2>2. unsatisfied = Cardinality(Before(F, L, D))
    <3>1. WrongLines(po, PO) = Before(F, L, D)
      BY <1>1, <2>1, WrongLinesAre
    <3>2. Count(unsatisfied, Before(F, L, D))
      BY <3>1 DEF SimulationFits
    <3>3. Cardinality(Before(F, L, D)) \in Nat
      BY <1>7
    <3> QED BY <1>8, <3>2, <3>3 DEF Count
  <2>3. unsatisfied' = unsatisfied + Cardinality(BatchOf(L, B, D))
    <3>1. UNION {Wrong(po, o) : o \in PO} = BatchOf(L, B, D)
      BY <1>1, <2>1, AllWrongIs DEF SomeWrongAt
    <3> QED BY <3>1 DEF SimulateBatch
  <2>4. WrongLines(po, PO)' = Before(F, Rest(L, B), D)
    <3>1. SomeWrongAt(po)' = D /\ Taken' = Rest(L, B) + 1 .. F
      BY <1>2, <2>1 DEF SomeWrongAt, Differs, Taken
    <3>2. (Rest(L, B) + 1 .. F) \subseteq 1 .. F
      BY <1>3
    <3> QED BY <1>1, <1>2, <2>1, <3>1, <3>2 DEF WrongLines, Before, SomeWrongAt, Differs
  <2>5. Cardinality(BatchOf(L, B, D)) \in Nat
    <3>1. L \in Nat \ {0}
      BY <1>1
    <3> QED BY <3>1, BatchCount, FS_CardinalityType
  <2>6. unsatisfied' = Cardinality(Before(F, Rest(L, B), D))
                       + (IF 1 \in Before(F, Rest(L, B), D) THEN copies ELSE 0)
    BY <1>7, <2>2, <2>3
  <2>7. unsatisfied' \in Nat
    BY <1>7, <2>2, <2>3, <2>5
  <2> QED BY <1>6, <2>4, <2>6, <2>7 DEF Count
<1>11. SimulationTypeOK'
  <2>1. incorrect' \in [PO -> Nat]
    <3>1. DOMAIN incorrect' = PO /\ incorrect' = [o \in PO |-> incorrect'[o]]
      BY DEF SimulateBatch
    <3> QED BY <1>9, <3>1
  <2> QED BY <1>2, <1>3, <1>10, <2>1
<1>12. SimulationFits'
  <2>1. \A n \in DOMAIN fileString' :
          fileString'[n].out = {o \in PO : fileString'[n].in \in box'[o]}
    BY <1>2 DEF SimulationFits
  <2>2. Copies' \in 0 .. BatchBits - 1 /\ (left' > 0 => Copies' = 0)
    BY <1>1, <1>2, <1>4, <1>6, <1>8
  <2> QED BY <1>9, <1>10, <2>1, <2>2 DEF SimulationFits
<1> QED BY <1>11, <1>12

\* A simulation starts.
LEMMA StartFits ==
  ASSUME SimulationTypeOK, StartSimulation, pc' \in {"try", "check", "measure"}
  PROVE  SimulationTypeOK' /\ SimulationFits'
<1>1. PICK pats \in Seq(Point) :
        /\ fileString' = [n \in DOMAIN pats |-> Line(pats[n])]
        /\ left' = Len(pats)
  BY SimulationAssumption DEF StartSimulation
<1>2. /\ batches' = 0 /\ incorrect' = [o \in PO |-> 0] /\ unsatisfied' = 0 /\ box' = box
  BY DEF StartSimulation, NoErrors
<1>3. PICK F \in Nat : F = Len(pats) /\ DOMAIN pats = 1 .. F
  OBVIOUS
<1>4. \A n \in 1 .. F : /\ Line(pats[n]) \in [in : Point, out : SUBSET PO]
                        /\ Line(pats[n]).out = {o \in PO : Line(pats[n]).in \in box[o]}
  BY <1>3 DEF Line
<1>5. fileString' = [n \in 1 .. F |-> Line(pats[n])]
  BY <1>1, <1>3
<1>6. fileString' \in Seq([in : Point, out : SUBSET PO]) /\ Len(fileString') = F
  <2> DEFINE L == [in : Point, out : SUBSET PO]
             f == [n \in 1 .. F |-> Line(pats[n])]
  <2>1. \A n \in 1 .. F : Line(pats[n]) \in L
    BY <1>4
  <2> HIDE DEF L
  <2>2. f \in [1 .. F -> L]
    BY <2>1
  <2> HIDE DEF f
  <2>3. f \in Seq(L) /\ Len(f) = F
    BY <2>2
  <2> QED BY <1>5, <2>3 DEF f, L
<1>7. SimulationTypeOK'
  <2>1. left' \in 0 .. Len(fileString')
    BY <1>1, <1>3, <1>6
  <2>2. box' \in [PO -> OnSet]
    BY <1>2 DEF SimulationTypeOK
  <2>3. batches' \in Nat /\ incorrect' \in [PO -> Nat] /\ unsatisfied' \in Nat
    BY <1>2
  <2> QED BY <1>6, <2>1, <2>2, <2>3 DEF SimulationTypeOK
<1>8. Taken' = {}
  BY <1>1, <1>3, <1>6 DEF Taken
<1>9. Cardinality({}) = 0
  BY FS_EmptySet
<1>10. Copies' = 0
  BY <1>2, <1>8, <1>9, SimulationAssumption DEF Copies
<1>11. \A o \in PO : Count(incorrect[o], WrongLines(po, {o}))'
  BY <1>2, <1>8, <1>9, <1>10 DEF Count, WrongLines
<1>12. Count(unsatisfied, WrongLines(po, PO))'
  BY <1>2, <1>8, <1>9, <1>10 DEF Count, WrongLines
<1>13. \A n \in DOMAIN fileString' :
         fileString'[n].out = {o \in PO : fileString'[n].in \in box'[o]}
  BY <1>2, <1>4, <1>5
<1>14. 0 \in 0 .. BatchBits - 1
  BY SimulationAssumption
<1> QED BY <1>7, <1>10, <1>11, <1>12, <1>13, <1>14 DEF SimulationFits

\* Between simulations nothing has been read and nothing counted.
LEMMA IdleFits ==
  ASSUME SimulationTypeOK', Idle'
  PROVE  SimulationFits'
<1> USE DEF Idle
<1>0. Len(<<>>) = 0
  OBVIOUS
<1>1. Taken' = {} /\ DOMAIN fileString' = {} /\ left' = 0
  <2>1. left' \in 0 .. Len(fileString') /\ Len(fileString') = 0
    BY <1>0 DEF SimulationTypeOK
  <2>2. left' = 0
    BY <2>1
  <2> QED BY <2>1, <2>2 DEF Taken
<1>2. Cardinality({}) = 0
  BY FS_EmptySet
<1>3. Copies' = 0
  BY <1>1, <1>2, SimulationAssumption DEF Copies
<1>4. \A o \in PO : Count(incorrect[o], WrongLines(po, {o}))'
  BY <1>1, <1>2, <1>3 DEF Count, WrongLines, NoErrors
<1>5. Count(unsatisfied, WrongLines(po, PO))'
  BY <1>1, <1>2, <1>3 DEF Count, WrongLines
<1>6. 0 \in 0 .. BatchBits - 1
  BY SimulationAssumption
<1> QED BY <1>1, <1>3, <1>4, <1>5, <1>6 DEF SimulationFits

\* Before the first simulation and after each one.
LEMMA EndFits ==
  ASSUME SimulationTypeOK, EndSimulation
  PROVE  SimulationTypeOK' /\ SimulationFits' /\ Idle'
<1>1. incorrect' \in [PO -> Nat]
  BY DEF EndSimulation, NoErrors
<1>2. fileString' \in Seq([in : Point, out : SUBSET PO]) /\ Len(fileString') = 0
  BY DEF EndSimulation
<1>3. SimulationTypeOK'
  BY <1>1, <1>2 DEF SimulationTypeOK, EndSimulation
<1>4. Idle'
  BY DEF EndSimulation, Idle
<1> QED BY <1>3, <1>4, IdleFits DEF Idle

-----------------------------------------------------------------------------
(* The files.                                                              *)

\* The files that are still to be compared with the result.
Pending ==
  {f \in {"pre_opt.v", "inter_opt.v"} :
     \/ f = "pre_opt.v" /\ stage \in {"inter", "rounds", "pre_opt"}
     \/ f = "inter_opt.v" /\ ~use_group_method
                         /\ stage \in {"rounds", "pre_opt", "inter_opt"}}

\* The result is there.
HasResult == stage \in {"pre_opt", "inter_opt", "delivered"}

\* The result is said to have no more gates than any circuit written, but for those whose
\* files are still to be compared, all of which are of this run.
DeliveryFits ==
  /\ \A f \in Pending : f \in DOMAIN files /\ files[f].ours /\ files[f].gates \in written
  /\ HasResult => /\ "argv[3]" \in DOMAIN files
                  /\ files["argv[3]"].ours
                  /\ gate_count \in written
                  /\ files["argv[3]"].gates # gate_count => mv_failed
  /\ \A n \in written : \/ HasResult /\ gate_count <= n
                        \/ \E f \in Pending : files[f].gates = n

\* A set of files after one of them is written.
LEMMA FileWritten ==
  ASSUME DeliveryTypeOK, NEW f \in FileNames, NEW n \in GateCounts, WriteVerilog(f, n)
  PROVE  /\ files' \in UNION {[D -> Content] : D \in SUBSET FileNames}
         /\ written' = written \cup {n} /\ written' \in SUBSET GateCounts
         /\ f \in DOMAIN files' /\ files'[f].ours /\ files'[f].gates = n
         /\ \A g \in DOMAIN files : g # f => g \in DOMAIN files' /\ files'[g] = files[g]
<1>1. PICK D \in SUBSET FileNames : files \in [D -> Content]
  BY DEF DeliveryTypeOK
<1>2. [gates |-> n, ours |-> TRUE] \in Content
  BY DEF Content
<1>3. files' = [g \in D \cup {f} |->
                  IF g = f THEN [gates |-> n, ours |-> TRUE] ELSE files[g]]
  BY <1>1 DEF WriteVerilog
<1>4. files' \in [D \cup {f} -> Content] /\ D \cup {f} \in SUBSET FileNames
  BY <1>1, <1>2, <1>3
<1>5. f \in DOMAIN files' /\ files'[f] = [gates |-> n, ours |-> TRUE]
  BY <1>3
<1>6. \A g \in DOMAIN files : g # f => g \in DOMAIN files' /\ files'[g] = files[g]
  BY <1>1, <1>3
<1>7. written' = written \cup {n} /\ written' \in SUBSET GateCounts
  BY DEF WriteVerilog, DeliveryTypeOK
<1> QED BY <1>4, <1>5, <1>6, <1>7

\* A set of files after one of them has become the result.
LEMMA FileMoved ==
  ASSUME DeliveryTypeOK, NEW f \in {"pre_opt.v", "inter_opt.v"}, f \in DOMAIN files,
         files' = Moved(f)
  PROVE  /\ files' \in UNION {[D -> Content] : D \in SUBSET FileNames}
         /\ "argv[3]" \in DOMAIN files' /\ files'["argv[3]"] = files[f]
         /\ \A g \in DOMAIN files :
              g \notin {f, "argv[3]"} => g \in DOMAIN files' /\ files'[g] = files[g]
<1>1. PICK D \in SUBSET FileNames : files \in [D -> Content]
  BY DEF DeliveryTypeOK
<1>2. PICK E : E = (D \cup {"argv[3]"}) \ {f}
  OBVIOUS
<1>3. files' = [g \in E |-> IF g = "argv[3]" THEN files[f] ELSE files[g]]
  BY <1>1, <1>2 DEF Moved
<1>4. files' \in [E -> Content] /\ E \in SUBSET FileNames
  BY <1>1, <1>2, <1>3 DEF FileNames
<1>5. "argv[3]" \in E /\ f # "argv[3]"
  BY <1>2
<1>6. "argv[3]" \in DOMAIN files' /\ files'["argv[3]"] = files[f]
  BY <1>3, <1>5
<1>7. \A g \in DOMAIN files :
        g \notin {f, "argv[3]"} => g \in DOMAIN files' /\ files'[g] = files[g]
  BY <1>1, <1>2, <1>3
<1> QED BY <1>4, <1>6, <1>7

\* The gates of a file that is there.
LEMMA GatesOf ==
  ASSUME DeliveryTypeOK, NEW f \in DOMAIN files
  PROVE  calc_gate(f) = files[f].gates /\ files[f].gates \in Nat
<1>1. PICK D \in SUBSET FileNames : files \in [D -> Content]
  BY DEF DeliveryTypeOK
<1>2. files[f] \in Content
  BY <1>1
<1> QED BY <1>2, DeliveryAssumption DEF Content, calc_gate

\* The first circuit is written.
LEMMA WritePreOptFits ==
  ASSUME DeliveryTypeOK, DeliveryFits, NEW a, NEW t, WritePreOpt(a, t)
  PROVE  DeliveryTypeOK' /\ DeliveryFits'
<1>1. PICK n \in GateCounts : WriteVerilog("pre_opt.v", n)
  BY DEF WritePreOpt
<1>2. "pre_opt.v" \in FileNames
  BY DEF FileNames
<1>3. stage = "built" /\ stage' = "inter" /\ UNCHANGED mv_failed
  BY DEF WritePreOpt
<1>4. Pending = {} /\ ~HasResult /\ Pending' = {"pre_opt.v"} /\ ~HasResult'
  BY <1>3 DEF Pending, HasResult
<1>5. written = {}
  BY <1>4 DEF DeliveryFits
<1>6. DeliveryFits'
  BY <1>1, <1>2, <1>4, <1>5, FileWritten DEF DeliveryFits
<1>7. DeliveryTypeOK'
  <2>1. use_group_method' \in BOOLEAN
    BY DEF WritePreOpt
  <2> QED BY <1>1, <1>2, <1>3, <2>1, FileWritten DEF DeliveryTypeOK, WritePreOpt
<1> QED BY <1>6, <1>7

\* The second one is, if there is one.
LEMMA WriteInterOptFits ==
  ASSUME DeliveryTypeOK, DeliveryFits, WriteInterOpt
  PROVE  DeliveryTypeOK' /\ DeliveryFits'
<1>1. /\ stage = "inter" /\ stage' = "rounds" /\ last_gate_cnt' \in Nat
      /\ UNCHANGED <<use_group_method, gate_count, mv_failed>>
  BY DeliveryAssumption DEF WriteInterOpt
<1>2. Pending = {"pre_opt.v"} /\ ~HasResult /\ ~HasResult'
  BY <1>1 DEF Pending, HasResult
<1>3. CASE use_group_method
  <2>1. UNCHANGED <<files, written>>
    BY <1>3 DEF WriteInterOpt
  <2>2. Pending' = Pending
    BY <1>1, <1>2, <1>3 DEF Pending
  <2> QED BY <1>1, <1>2, <2>1, <2>2 DEF DeliveryFits, DeliveryTypeOK
<1>4. CASE ~use_group_method
  <2>1. PICK n \in GateCounts : WriteVerilog("inter_opt.v", n)
    BY <1>4 DEF WriteInterOpt
  <2>2. "inter_opt.v" \in FileNames /\ "inter_opt.v" # "pre_opt.v"
    BY DEF FileNames
  <2>3. Pending' = {"pre_opt.v", "inter_opt.v"}
    BY <1>1, <1>4 DEF Pending
  <2>4. DeliveryFits'
    BY <1>2, <2>1, <2>2, <2>3, FileWritten DEF DeliveryFits
  <2>5. DeliveryTypeOK'
    BY <1>1, <2>1, <2>2, FileWritten DEF DeliveryTypeOK
  <2> QED BY <2>4, <2>5
<1> QED BY <1>3, <1>4

\* A round writes nothing.
LEMMA OptimiseRoundFits ==
  ASSUME DeliveryTypeOK, DeliveryFits, OptimiseRound
  PROVE  DeliveryTypeOK' /\ DeliveryFits'
<1>1. /\ UNCHANGED <<stage, use_group_method, files, gate_count, mv_failed, written>>
      /\ last_gate_cnt' \in Nat
  BY DeliveryAssumption DEF OptimiseRound
<1>2. Pending' = Pending /\ HasResult' = HasResult
  BY <1>1 DEF Pending, HasResult
<1> QED BY <1>1, <1>2 DEF DeliveryFits, DeliveryTypeOK

\* The optimised circuit is written.
LEMMA WriteResultFits ==
  ASSUME DeliveryTypeOK, DeliveryFits, WriteResult
  PROVE  DeliveryTypeOK' /\ DeliveryFits'
<1>1. PICK n \in GateCounts : WriteVerilog("argv[3]", n) /\ gate_count' = n
  BY DEF WriteResult
<1>2. /\ stage = "rounds" /\ stage' = "pre_opt" /\ last_gate_cnt' = 0
      /\ UNCHANGED <<use_group_method, mv_failed>> /\ n \in Nat
  BY DeliveryAssumption DEF WriteResult
<1>3. "argv[3]" \in FileNames
  BY DEF FileNames
<1>4. Pending' = Pending /\ "argv[3]" \notin Pending /\ ~HasResult /\ HasResult'
  BY <1>2 DEF Pending, HasResult
<1>5. \A f \in Pending : f \in DOMAIN files' /\ files'[f] = files[f]
  BY <1>1, <1>3, <1>4, FileWritten DEF DeliveryFits
<1>6. \A m \in written' : gate_count' <= m \/ \E f \in Pending' : files'[f].gates = m
  BY <1>1, <1>2, <1>3, <1>4, <1>5, FileWritten DEF DeliveryFits
<1>7. DeliveryFits'
  BY <1>1, <1>3, <1>4, <1>5, <1>6, FileWritten DEF DeliveryFits
<1>8. DeliveryTypeOK'
  BY <1>1, <1>2, <1>3, FileWritten DEF DeliveryTypeOK
<1> QED BY <1>7, <1>8

\* The result is the better one of itself and file f, which is dealt with.
LEMMA Chosen ==
  ASSUME DeliveryTypeOK, DeliveryFits, HasResult, HasResult',
         NEW f \in Pending, Pending' = Pending \ {f},
         UNCHANGED written,
         IF calc_gate(f) < gate_count
         THEN MoveToResult(f) /\ gate_count' = calc_gate(f)
         ELSE UNCHANGED <<files, gate_count, mv_failed>>
  PROVE  /\ files' \in UNION {[D -> Content] : D \in SUBSET FileNames}
         /\ gate_count' \in Nat
         /\ mv_failed' \in BOOLEAN
         /\ DeliveryFits'
<1>1. /\ f \in DOMAIN files /\ files[f].ours /\ f \in {"pre_opt.v", "inter_opt.v"}
      /\ files[f].gates \in written
  BY DEF DeliveryFits, Pending
<1>2. calc_gate(f) = files[f].gates /\ files[f].gates \in Nat /\ gate_count \in Nat
  BY <1>1, GatesOf DEF DeliveryTypeOK
<1>3. \A n \in written : n \in Nat
  BY DeliveryAssumption DEF DeliveryTypeOK
<1>4. CASE calc_gate(f) < gate_count
  <2>1. MoveToResult(f) /\ gate_count' = files[f].gates /\ gate_count' < gate_count
    BY <1>2, <1>4
  <2>2. /\ \A g \in Pending' : g \in DOMAIN files' /\ files'[g] = files[g]
        /\ "argv[3]" \in DOMAIN files' /\ files'["argv[3]"].ours
        /\ files'["argv[3]"].gates # gate_count' => mv_failed'
        /\ files' \in UNION {[D -> Content] : D \in SUBSET FileNames}
        /\ mv_failed' \in BOOLEAN
    <3>1. \A g \in Pending' : g \in DOMAIN files /\ g \notin {f, "argv[3]"}
      BY DEF DeliveryFits, Pending
    <3>2. CASE files' = Moved(f) /\ UNCHANGED mv_failed
      <4>1. /\ files' \in UNION {[D -> Content] : D \in SUBSET FileNames}
            /\ "argv[3]" \in DOMAIN files' /\ files'["argv[3]"] = files[f]
            /\ \A g \in DOMAIN files :
                 g \notin {f, "argv[3]"} => g \in DOMAIN files' /\ files'[g] = files[g]
        BY <1>1, <3>2, FileMoved
      <4>2. mv_failed' \in BOOLEAN
        BY <3>2 DEF DeliveryTypeOK
      <4> QED BY <1>1, <2>1, <3>1, <4>1, <4>2
    <3>3. CASE mv_failed' = TRUE /\ UNCHANGED files
      BY <3>1, <3>3 DEF DeliveryFits, DeliveryTypeOK
    <3> QED BY <2>1, <3>2, <3>3 DEF MoveToResult
  <2>3. \A g \in Pending' : files[g].ours /\ files[g].gates \in written
    BY DEF DeliveryFits
  <2>4. ASSUME NEW n \in written
        PROVE  gate_count' <= n \/ \E g \in Pending' : files'[g].gates = n
    <3>1. CASE gate_count <= n
      BY <1>2, <1>3, <2>1, <3>1
    <3>2. CASE ~ (gate_count <= n)
      <4>1. PICK g \in Pending : files[g].gates = n
        BY <3>2 DEF DeliveryFits
      <4>2. CASE g = f
        BY <1>2, <2>1, <4>1, <4>2
      <4>3. CASE g # f
        BY <2>2, <4>1, <4>3
      <4> QED BY <4>2, <4>3
    <3> QED BY <3>1, <3>2
  <2>5. DeliveryFits'
    BY <1>1, <2>1, <2>2, <2>3, <2>4 DEF DeliveryFits
  <2> QED BY <1>2, <2>1, <2>2, <2>5
<1>5. CASE ~ (calc_gate(f) < gate_count)
  <2>1. UNCHANGED <<files, gate_count, mv_failed>> /\ gate_count <= files[f].gates
    BY <1>2, <1>5
  <2>2. ASSUME NEW n \in written
        PROVE  gate_count' <= n \/ \E g \in Pending' : files'[g].gates = n
    <3>1. CASE gate_count <= n
      BY <2>1, <3>1
    <3>2. CASE ~ (gate_count <= n)
      <4>1. PICK g \in Pending : files[g].gates = n
        BY <3>2 DEF DeliveryFits
      <4>2. g # f
        BY <2>1, <3>2, <4>1
      <4> QED BY <2>1, <4>1, <4>2
    <3> QED BY <3>1, <3>2
  <2>3. DeliveryFits'
    BY <2>1, <2>2 DEF DeliveryFits
  <2> QED BY <1>2, <2>1, <2>3 DEF DeliveryTypeOK
<1> QED BY <1>4, <1>5

\* The result is compared with the first circuit.
LEMMA ChoosePreOptFits ==
  ASSUME DeliveryTypeOK, DeliveryFits, ChoosePreOpt
  PROVE  DeliveryTypeOK' /\ DeliveryFits'
<1>1. /\ stage = "pre_opt" /\ stage' = "inter_opt"
      /\ UNCHANGED <<use_group_method, last_gate_cnt, written>>
      /\ IF calc_gate("pre_opt.v") < gate_count
         THEN MoveToResult("pre_opt.v") /\ gate_count' = calc_gate("pre_opt.v")
         ELSE UNCHANGED <<files, gate_count, mv_failed>>
  BY DEF ChoosePreOpt
<1>2. /\ HasResult /\ HasResult' /\ "pre_opt.v" \in Pending
      /\ Pending' = Pending \ {"pre_opt.v"}
  BY <1>1 DEF HasResult, Pending
<1>3. PICK f \in Pending : f = "pre_opt.v"
  BY <1>2
<1>4. IF calc_gate(f) < gate_count
      THEN MoveToResult(f) /\ gate_count' = calc_gate(f)
      ELSE UNCHANGED <<files, gate_count, mv_failed>>
  BY <1>1, <1>3
<1>5. /\ files' \in UNION {[D -> Content] : D \in SUBSET FileNames}
      /\ gate_count' \in Nat /\ mv_failed' \in BOOLEAN /\ DeliveryFits'
  BY <1>1, <1>2, <1>3, <1>4, Chosen
<1> QED BY <1>1, <1>5 DEF DeliveryTypeOK

\* The result is compared with the second circuit, if there is one.
LEMMA ChooseInterOptFits ==
  ASSUME DeliveryTypeOK, DeliveryFits, ChooseInterOpt
  PROVE  DeliveryTypeOK' /\ DeliveryFits'
<1>1. /\ stage = "inter_opt" /\ stage' = "delivered"
      /\ UNCHANGED <<use_group_method, last_gate_cnt, written>>
  BY DEF ChooseInterOpt
<1>2. HasResult /\ HasResult' /\ Pending' = {}
  BY <1>1 DEF HasResult, Pending
<1>3. CASE use_group_method
  <2>1. UNCHANGED <<files, gate_count, mv_failed>>
    BY <1>3 DEF ChooseInterOpt
  <2>2. Pending = {}
    BY <1>1, <1>3 DEF Pending
  <2> QED BY <1>1, <1>2, <2>1, <2>2 DEF DeliveryFits, DeliveryTypeOK
<1>4. CASE ~use_group_method
  <2>1. Pending = {"inter_opt.v"}
    BY <1>1, <1>4 DEF Pending
  <2>2. PICK f \in Pending : f = "inter_opt.v"
    BY <2>1
  <2>3. IF calc_gate(f) < gate_count
        THEN MoveToResult(f) /\ gate_count' = calc_gate(f)
        ELSE UNCHANGED <<files, gate_count, mv_failed>>
    BY <1>4, <2>2 DEF ChooseInterOpt
  <2>4. Pending' = Pending \ {f}
    BY <1>2, <2>1, <2>2
  <2>5. /\ files' \in UNION {[D -> Content] : D \in SUBSET FileNames}
        /\ gate_count' \in Nat /\ mv_failed' \in BOOLEAN /\ DeliveryFits'
    BY <1>1, <1>2, <2>2, <2>3, <2>4, Chosen
  <2> QED BY <1>1, <2>5 DEF DeliveryTypeOK
<1> QED BY <1>3, <1>4

\* What a run starts with.
LEMMA DeliveryInitFits == DeliveryInit => DeliveryTypeOK /\ DeliveryFits
<1> SUFFICES ASSUME DeliveryInit PROVE DeliveryTypeOK /\ DeliveryFits
  OBVIOUS
<1>1. DeliveryTypeOK
  BY DeliveryAssumption DEF DeliveryInit, DeliveryTypeOK
<1>2. Pending = {} /\ ~HasResult /\ written = {}
  BY DEF DeliveryInit, Pending, HasResult
<1> QED BY <1>1, <1>2 DEF DeliveryFits

-----------------------------------------------------------------------------
(* Nodes and lists.                                                        *)

\* What is built is a node.
LEMMA NodesType ==
  ASSUME NEW old \in OnSet
  PROVE  /\ \A b : InvertIf(b, old) \in OnSet
         /\ \A s \in CubeString, b \in BOOLEAN :
              Free(s) # {} => AddXor(old, s, b) \in OnSet
<1>1. \A b : InvertIf(b, old) \in OnSet
  BY DEF InvertIf, OnSet
<1>2. ASSUME NEW s \in CubeString, NEW b \in BOOLEAN, Free(s) # {}
      PROVE  AddXor(old, s, b) \in OnSet
  BY <1>2, AddXorIs DEF InvertIf, OnSet, Region
<1> QED BY <1>1, <1>2

\* Cubes with literals, as templates record them.
Literals(pats) == pats \in Seq(CompactString) /\ \A n \in DOMAIN pats : Literal(pats[n])

\* A template's cubes give a node.
LEMMA CompactType ==
  ASSUME NEW old \in OnSet, NEW ci \in ComcubeInfo, NEW pats, Literals(pats)
  PROVE  /\ AddCompact(old, ci, pats) \in OnSet
         /\ AddCompact({}, ci, pats) \in OnSet
<1>1. pats \in Seq(CompactString) /\ \A n \in DOMAIN pats : Literal(pats[n])
  BY DEF Literals
<1>2. {} \in OnSet
  BY DEF OnSet
<1>3. UNION {Meets(ci, pats[n]) : n \in DOMAIN pats} \subseteq Point
  BY DEF Meets
<1>4. AddCompact(old, ci, pats) = old \cup UNION {Meets(ci, pats[n]) : n \in DOMAIN pats}
  BY <1>1, AddCompactIs
<1>5. AddCompact({}, ci, pats) = {} \cup UNION {Meets(ci, pats[n]) : n \in DOMAIN pats}
  BY <1>1, <1>2, AddCompactIs
<1> QED BY <1>3, <1>4, <1>5 DEF OnSet

\* The last entry is taken off.
LEMMA AllButLastIs ==
  ASSUME NEW S, NEW seq \in Seq(S), Len(seq) # 0
  PROVE  /\ AllButLast(seq) \in Seq(S)
         /\ Len(AllButLast(seq)) = Len(seq) - 1
         /\ \A n \in 1 .. Len(seq) - 1 : AllButLast(seq)[n] = seq[n]
<1>1. PICK k \in Nat : k = Len(seq) - 1 /\ Len(seq) \in Nat
  OBVIOUS
<1>2. \A n \in 1 .. k : seq[n] \in S
  BY <1>1
<1>3. k \in Int /\ 1 \in Int
  OBVIOUS
<1>4. /\ SubSeq(seq, 1, k) \in Seq(S)
      /\ Len(SubSeq(seq, 1, k)) = IF 1 <= k THEN k - 1 + 1 ELSE 0
      /\ \A i \in 1 .. k - 1 + 1 : SubSeq(seq, 1, k)[i] = seq[1 + i - 1]
  BY <1>2, <1>3, SubSeqProperties
<1>5. PICK front : front = SubSeq(seq, 1, k)
  OBVIOUS
<1>6. Len(front) = k
  BY <1>4, <1>5
<1>7. \A n \in 1 .. k : front[n] = seq[n]
  BY <1>4, <1>5
<1>8. AllButLast(seq) = front
  BY <1>1, <1>5 DEF AllButLast
<1> QED BY <1>1, <1>4, <1>5, <1>6, <1>7, <1>8

\* The entry of an output is replaced: what DropTemplate does.
LEMMA ReplaceLast ==
  ASSUME NEW S, NEW seq \in Seq(S), Len(seq) # 0, NEW e \in S
  PROVE  /\ Append(AllButLast(seq), e) \in Seq(S)
         /\ Len(Append(AllButLast(seq), e)) = Len(seq)
         /\ \A n \in 1 .. Len(seq) - 1 : Append(AllButLast(seq), e)[n] = seq[n]
         /\ Append(AllButLast(seq), e)[Len(seq)] = e
<1>1. PICK front \in Seq(S) :
        /\ front = AllButLast(seq) /\ Len(front) = Len(seq) - 1
        /\ \A n \in 1 .. Len(seq) - 1 : front[n] = seq[n]
  BY AllButLastIs
<1>2. /\ Append(front, e) \in Seq(S)
      /\ Len(Append(front, e)) = Len(front) + 1
      /\ \A i \in 1 .. Len(front) : Append(front, e)[i] = front[i]
      /\ Append(front, e)[Len(front) + 1] = e
  BY AppendProperties
<1>3. Len(seq) \in Nat
  OBVIOUS
<1> QED BY <1>1, <1>2, <1>3

\* How many of the first n outputs use a template.
Rank(flags, n) == Cardinality({j \in 1 .. n : flags[j]})

\* Ranks are numbers; they grow at templates only.
LEMMA RankStep ==
  ASSUME NEW flags, NEW n \in Nat
  PROVE  /\ Rank(flags, 0) = 0
         /\ Rank(flags, n) \in Nat
         /\ Rank(flags, n + 1) = IF flags[n + 1] THEN Rank(flags, n) + 1 ELSE Rank(flags, n)
<1> DEFINE A == {j \in 1 .. n : flags[j]}
           B == {j \in 1 .. n + 1 : flags[j]}
<1>1. IsFiniteSet(A) /\ Cardinality(A) \in Nat
  <2>1. A \subseteq 1 .. n /\ n \in Int /\ 1 \in Int
    OBVIOUS
  <2> HIDE DEF A
  <2> QED BY <2>1, IntervalSubset
<1>2. n + 1 \notin A
  OBVIOUS
<1>3. flags[n + 1] => B = A \cup {n + 1}
  OBVIOUS
<1>4. ~flags[n + 1] => B = A
  OBVIOUS
<1>5. Rank(flags, 0) = 0
  <2>1. {j \in 1 .. 0 : flags[j]} = {}
    OBVIOUS
  <2>2. Cardinality({j \in 1 .. 0 : flags[j]}) = 0
    BY <2>1, FS_EmptySet
  <2> QED BY <2>2 DEF Rank
<1>6. Cardinality(A \cup {n + 1}) = Cardinality(A) + 1
  <2> HIDE DEF A
  <2> QED BY <1>1, <1>2, FS_AddElement
<1> HIDE DEF A, B
<1>7. Cardinality(B) = IF flags[n + 1] THEN Cardinality(A) + 1 ELSE Cardinality(A)
  BY <1>3, <1>4, <1>6
<1> QED BY <1>1, <1>5, <1>7 DEF Rank, A, B

\* Ranks do not decrease.
LEMMA RankGrowsWith ==
  ASSUME NEW flags, NEW m \in Nat, NEW n \in Nat, m <= n
  PROVE  Rank(flags, m) <= Rank(flags, n)
<1>1. IsFiniteSet({j \in 1 .. n : flags[j]})
  <2>1. {j \in 1 .. n : flags[j]} \subseteq 1 .. n /\ n \in Int /\ 1 \in Int
    OBVIOUS
  <2> QED BY <2>1, IntervalSubset
<1>2. {j \in 1 .. m : flags[j]} \in SUBSET {j \in 1 .. n : flags[j]}
  OBVIOUS
<1> QED BY <1>1, <1>2, FS_Subset DEF Rank

\* The rank depends on the first entries only.
LEMMA RankSame ==
  ASSUME NEW f, NEW g, NEW n \in Nat, \A j \in 1 .. n : f[j] <=> g[j]
  PROVE  Rank(f, n) = Rank(g, n)
<1>1. {j \in 1 .. n : f[j]} = {j \in 1 .. n : g[j]}
  OBVIOUS
<1> QED BY <1>1 DEF Rank

-----------------------------------------------------------------------------
(* The inductive invariant.                                                *)

\* What build_circuit_with_group makes of the entries of an output.
TemplateOn(i) ==
  AddCompact({}, comcube_info[Rank(cube_or_comcube, i + 1)], cubes[i + 1])
Finished(i) == InvertIf(tendency[i], TemplateOn(i))

\* The entries of math_info that stay.
Kept == IF pc = "try" THEN 1 .. Len(math_info) - 1 ELSE 1 .. Len(math_info)

\* The outputs whose entries stay.
Settled == IF pc \in {"learn", "check"} THEN at ELSE Len(cube_or_comcube)

Loops ==
  /\ pc = "arith" => at \in 1 .. Len(OutputVars) + 1
  /\ pc = "try" => at \in 1 .. Len(OutputVars)
  /\ pc \in {"learn", "groups", "invert"} => at \in 0 .. NumPO
  /\ pc = "check" => at \in PO
  /\ pc \in {"xor", "assign"} => at # 0
  /\ pc \in {"deliver", "measure", "done"} => at > Len(math_info)

\* The expressions that are kept have outputs of their own, which are done.
Expressions ==
  /\ pc = "try" => /\ Len(math_info) # 0
                   /\ math_info[Len(math_info)].pins = OutputVars[at]
  /\ \A k \in Kept, i \in PO : i \in math_info[k].pins => po_done[i]
  /\ \A k, l \in Kept : k # l => math_info[k].pins \cap math_info[l].pins = {}
  /\ pc \in {"arith", "try"} =>
       \A i \in PO : po_done[i] => \E v \in 1 .. at - 1 : i \in OutputVars[v]

\* The entries of the outputs fit each other.
Entries ==
  /\ \A n \in 1 .. Len(cube_or_comcube) :
       cube_or_comcube[n] => Literals(cubes[n]) /\ ~po_done[n - 1]
  /\ Len(comcube_info) = Rank(cube_or_comcube, Len(cube_or_comcube))
  /\ pc = "check" => cube_or_comcube[at + 1]
  /\ \A k \in DOMAIN xor_cubes :
       /\ xor_cubes[k].out + 1 \in 1 .. Len(cube_or_comcube)
       /\ ~cube_or_comcube[xor_cubes[k].out + 1]
       /\ Free(xor_cubes[k].s) # {}

\* The functions of the outputs, while they are assembled.
Built ==
  /\ pc = "try" => \A i \in OutputVars[at] : po[i] = math_info[Len(math_info)].on[i]
  /\ pc = "learn" => \A i \in PO : i >= at => po[i] = {}
  /\ pc = "check" => \A i \in PO : i > at => po[i] = {}
  /\ pc = "check" => po[at] = Finished(at)
  /\ pc = "groups" => info_index = Rank(cube_or_comcube, at) + 1
  /\ pc = "groups" => \A i \in PO : cube_or_comcube[i + 1] =>
                                      po[i] = IF i < at THEN TemplateOn(i) ELSE {}
  /\ pc = "xor" => \A i \in PO : cube_or_comcube[i + 1] => po[i] = TemplateOn(i)
  /\ pc = "invert" => \A i \in PO : cube_or_comcube[i + 1] =>
                                      po[i] = IF i < at THEN Finished(i) ELSE TemplateOn(i)
  /\ pc \in {"assign", "deliver", "measure", "done"} =>
       /\ \A i \in PO : cube_or_comcube[i + 1] => po[i] = Finished(i)
       /\ \A k \in 1 .. Len(math_info) :
            k < at => \A i \in math_info[k].pins : po[i] = math_info[k].on[i]

\* What was validated is still recorded.
IsRecorded(v) ==
  IF po_done[v[1]]
  THEN \E k \in Kept : v[1] \in math_info[k].pins /\ v[2] = math_info[k].on[v[1]]
  ELSE /\ v[1] + 1 \in 1 .. Settled
       /\ cube_or_comcube[v[1] + 1]
       /\ v[2] = Finished(v[1])
Recorded == \A v \in validated : IsRecorded(v)

IInv ==
  /\ TypeOK /\ Loops /\ Expressions /\ Entries /\ Built /\ Recorded
  /\ SimulationFits /\ DeliveryFits

\* The entries pushed, now and after a step.
LEMMA PushedIs ==
  /\ pc \in {"arith", "try"} => Pushed = 0
  /\ pc = "learn" => Pushed = at
  /\ pc = "check" => Pushed = at + 1
  /\ pc \notin {"arith", "try", "learn", "check"} => Pushed = NumPO
  /\ pc' \in {"arith", "try"} => Pushed' = 0
  /\ pc' = "learn" => Pushed' = at'
  /\ pc' = "check" => Pushed' = at' + 1
  /\ pc' \notin {"arith", "try", "learn", "check"} => Pushed' = NumPO
<1>1. (pc = "arith" => Pushed = 0) /\ (pc = "try" => Pushed = 0)
  BY Zenon DEF Pushed
<1>2. (pc = "learn" => Pushed = at) /\ (pc = "check" => Pushed = at + 1)
  BY Zenon DEF Pushed
<1>3. pc \notin {"arith", "try", "learn", "check"} => Pushed = NumPO
  BY Zenon DEF Pushed
<1>4. (pc' = "arith" => Pushed' = 0) /\ (pc' = "try" => Pushed' = 0)
  BY Zenon DEF Pushed
<1>5. (pc' = "learn" => Pushed' = at') /\ (pc' = "check" => Pushed' = at' + 1)
  BY Zenon DEF Pushed
<1>6. pc' \notin {"arith", "try", "learn", "check"} => Pushed' = NumPO
  BY Zenon DEF Pushed
<1> QED BY <1>1, <1>2, <1>3, <1>4, <1>5, <1>6

\* What main() starts from.
LEMMA InitIInv == Init => IInv
<1> SUFFICES ASSUME Init PROVE IInv
  OBVIOUS
<1> USE DEF Init
<1>1. /\ Len(cube_or_comcube) = 0 /\ Len(cubes) = 0 /\ Len(math_info) = 0
      /\ Len(comcube_info) = 0 /\ DOMAIN xor_cubes = {} /\ Len(fileString) = 0
  BY DEF SimulationInit
<1>2. po \in [PO -> OnSet]
  BY DEF NewNetwork, OnSet
<1>3. /\ math_info \in Seq([pins : SUBSET PO, on : [PO -> OnSet]])
      /\ cube_or_comcube \in Seq(BOOLEAN)
      /\ cubes \in Seq(Seq(CubeString \cup CompactString))
      /\ comcube_info \in Seq(ComcubeInfo)
      /\ xor_cubes \in Seq([s : CubeString, out : PO, invert : {0, 1}])
  OBVIOUS
<1>4. SimulationTypeOK
  <2>1. fileString \in Seq([in : Point, out : SUBSET PO]) /\ box \in [PO -> OnSet]
    BY SimulationAssumption DEF SimulationInit
  <2>2. left \in 0 .. Len(fileString)
    BY <1>1 DEF SimulationInit
  <2> QED BY <2>1, <2>2 DEF SimulationTypeOK, SimulationInit, NoErrors
<1>10. DeliveryTypeOK /\ DeliveryFits
  BY DeliveryInitFits
<1>5. TypeOK
  BY <1>1, <1>2, <1>3, <1>4, <1>10, PushedIs DEF TypeOK
<1>6. Loops /\ Expressions
  <2>1. OutputVars \in Seq(SUBSET PO)
    BY PipelineAssumption
  <2> QED BY <1>1, <2>1 DEF Loops, Expressions, Kept
<1>7. Entries
  BY <1>1, RankStep DEF Entries
<1>8. Built /\ Recorded
  BY DEF Built, Recorded
<1>9. SimulationFits
  <2>1. Taken = {} /\ DOMAIN fileString = {} /\ left = 0 /\ Idle
    BY <1>1 DEF Taken, SimulationInit, Idle
  <2>2. Cardinality({}) = 0
    BY FS_EmptySet
  <2>3. Copies = 0
    BY <2>1, <2>2, SimulationAssumption DEF Copies, Idle
  <2>4. \A o \in PO : Count(incorrect[o], WrongLines(po, {o}))
    BY <2>1, <2>2, <2>3 DEF Count, WrongLines, NoErrors, Idle
  <2>5. Count(unsatisfied, WrongLines(po, PO))
    BY <2>1, <2>2, <2>3 DEF Count, WrongLines, Idle
  <2>6. 0 \in 0 .. BatchBits - 1
    BY SimulationAssumption
  <2> QED BY <2>1, <2>3, <2>4, <2>5, <2>6 DEF SimulationFits
<1> QED BY <1>5, <1>6, <1>7, <1>8, <1>9, <1>10 DEF IInv

\* Every step keeps the counts of the simulation.
LEMMA SimulationStep == IInv /\ [Next]_vars => SimulationTypeOK' /\ SimulationFits'
<1> SUFFICES ASSUME IInv, [Next]_vars PROVE SimulationTypeOK' /\ SimulationFits'
  OBVIOUS
<1>1. SimulationTypeOK /\ SimulationFits
  BY DEF IInv, TypeOK
<1>2. CASE Expression
  BY <1>1, <1>2, StartFits DEF Expression
<1>3. CASE LearnByTemplate
  BY <1>1, <1>3, StartFits DEF LearnByTemplate
<1>4. CASE Measure
  BY <1>1, <1>4, StartFits DEF Measure
<1>5. CASE KeepExpression \/ DropExpression \/ KeepTemplate \/ DropTemplate \/ Finish
  <2>1. EndSimulation
    BY <1>5 DEF KeepExpression, DropExpression, KeepTemplate, DropTemplate, Finish
  <2> QED BY <1>1, <2>1, EndFits
<1>6. CASE Simulate
  BY <1>1, <1>6, BatchFits DEF Simulate
<1>7. ASSUME UNCHANGED simulation, pc \notin {"try", "check", "measure"}
      PROVE  SimulationTypeOK' /\ SimulationFits'
  <2>1. SimulationTypeOK'
    BY <1>1, <1>7 DEF SimulationTypeOK, simulation, manager
  <2>2. Idle'
    BY <1>1, <1>7 DEF SimulationFits, Idle, simulation, manager
  <2> QED BY <2>1, <2>2, IdleFits
<1>8. CASE NoExpression \/ StartLearning \/ SkipDone \/ LearnByBruteForce \/ LearnByFBDT
  BY <1>7, <1>8
     DEF NoExpression, StartLearning, SkipDone, LearnByBruteForce, LearnByFBDT
<1>9. CASE ReadPla \/ BuildGroup \/ StartXors \/ BuildOutputXor \/ StartInverting
  BY <1>7, <1>9 DEF ReadPla, BuildGroup, StartXors, BuildOutputXor, StartInverting
<1>10. CASE Invert \/ StartAssigning \/ BuildExpression \/ StartDelivery \/ Deliver
  BY <1>7, <1>10 DEF Invert, StartAssigning, BuildExpression, StartDelivery, Deliver
<1>11. CASE Returned \/ UNCHANGED vars
  <2>1. UNCHANGED vars
    BY <1>11 DEF Returned
  <2> QED BY <1>1, <2>1 DEF vars, simulation, manager, SimulationTypeOK, SimulationFits,
                            Idle, Count, Copies, Taken, WrongLines, Differs
<1> QED BY <1>2, <1>3, <1>4, <1>5, <1>6, <1>8, <1>9, <1>10, <1>11 DEF Next

\* Every step keeps what is known of the files.
LEMMA DeliveryStays == IInv /\ [Next]_vars => DeliveryTypeOK' /\ DeliveryFits'
<1> SUFFICES ASSUME IInv, [Next]_vars PROVE DeliveryTypeOK' /\ DeliveryFits'
  OBVIOUS
<1>1. DeliveryTypeOK /\ DeliveryFits
  BY DEF IInv, TypeOK
<1>2. CASE StartDelivery
  BY <1>1, <1>2, WritePreOptFits DEF StartDelivery
<1>3. CASE Deliver
  BY <1>1, <1>3, WriteInterOptFits, OptimiseRoundFits, WriteResultFits, ChoosePreOptFits,
     ChooseInterOptFits DEF Deliver, DeliveryStep
<1>4. ASSUME UNCHANGED delivery PROVE DeliveryTypeOK' /\ DeliveryFits'
  BY <1>1, <1>4
     DEF delivery, DeliveryTypeOK, DeliveryFits, Pending, HasResult
<1>5. CASE NoExpression \/ Expression \/ KeepExpression \/ DropExpression \/ StartLearning
  BY <1>4, <1>5 DEF NoExpression, Expression, KeepExpression, DropExpression, StartLearning
<1>6. CASE SkipDone \/ LearnByBruteForce \/ LearnByFBDT \/ LearnByTemplate
  BY <1>4, <1>6 DEF SkipDone, LearnByBruteForce, LearnByFBDT, LearnByTemplate
<1>7. CASE KeepTemplate \/ DropTemplate \/ ReadPla \/ BuildGroup \/ StartXors
  BY <1>4, <1>7 DEF KeepTemplate, DropTemplate, ReadPla, BuildGroup, StartXors
<1>8. CASE BuildOutputXor \/ StartInverting \/ Invert \/ StartAssigning \/ BuildExpression
  BY <1>4, <1>8 DEF BuildOutputXor, StartInverting, Invert, StartAssigning, BuildExpression
<1>9. CASE Measure \/ Finish \/ Simulate
  BY <1>4, <1>9 DEF Measure, Finish, Simulate
<1>10. CASE Returned \/ UNCHANGED vars
  BY <1>4, <1>10 DEF Returned, vars
<1> QED BY <1>2, <1>3, <1>5, <1>6, <1>7, <1>8, <1>9, <1>10 DEF Next

\* A simulation's verdict is that of the lines of the file.
LEMMA VerdictFollows ==
  ASSUME SimulationTypeOK, SimulationFits, left = 0, NEW ids \in SUBSET PO
  PROVE  Valid(ids) <=> Agrees(po, ids)
<1>1. PICK F \in Nat : F = Len(fileString) /\ DOMAIN fileString = 1 .. F
  BY DEF SimulationTypeOK
<1>2. Taken = 1 .. F
  BY <1>1 DEF Taken
<1>3. \A o \in PO, n \in 1 .. F : Differs(po, o, fileString[n])
                                   <=> ~ (fileString[n].in \in po[o]
                                          <=> fileString[n].in \in box[o])
  BY <1>1 DEF Differs, SimulationFits
<1>4. ASSUME NEW o \in ids PROVE incorrect[o] = 0 <=> WrongLines(po, {o}) = {}
  <2>1. PICK W : W = WrongLines(po, {o})
    OBVIOUS
  <2>2. W \subseteq 1 .. F /\ F \in Int /\ 1 \in Int
    BY <1>1, <1>2, <2>1 DEF WrongLines
  <2>3. IsFiniteSet(W) /\ Cardinality(W) \in Nat
    BY <2>2, IntervalSubset
  <2>4. Cardinality(W) = 0 <=> W = {}
    BY <2>3, FS_EmptySet
  <2>5. incorrect[o] = Cardinality(W) + (IF 1 \in W THEN Copies ELSE 0)
    BY <2>1 DEF SimulationFits, Count
  <2>6. Copies \in Nat
    BY SimulationAssumption DEF SimulationFits
  <2>7. (IF 1 \in W THEN Copies ELSE 0) \in Nat /\ (W = {} => 1 \notin W)
    BY <2>6
  <2>8. W = {} <=> incorrect[o] = 0
    <3>1. CASE W = {}
      BY <2>4, <2>5, <2>7, <3>1
    <3>2. CASE W # {}
      BY <2>3, <2>4, <2>5, <2>7, <3>2
    <3> QED BY <3>1, <3>2
  <2> QED BY <2>1, <2>8
<1>5. \A o \in ids : incorrect[o] \in Nat
  BY DEF SimulationTypeOK
<1>6. \A o \in ids : 10000 * incorrect[o] <= 1 <=> incorrect[o] = 0
  BY <1>5
<1>7. \A o \in ids : WrongLines(po, {o}) = {}
                       <=> \A n \in 1 .. F : ~Differs(po, o, fileString[n])
  BY <1>1, <1>2 DEF WrongLines
<1>8. Valid(ids) <=> \A o \in ids, n \in 1 .. F : ~Differs(po, o, fileString[n])
  <2>1. Valid(ids) <=> \A o \in ids : incorrect[o] = 0
    BY <1>6 DEF Valid
  <2>2. \A o \in ids : incorrect[o] = 0 <=> \A n \in 1 .. F : ~Differs(po, o, fileString[n])
    BY <1>4, <1>7
  <2> QED BY <2>1, <2>2
<1>9. Agrees(po, ids) <=> \A o \in ids, n \in 1 .. F : ~Differs(po, o, fileString[n])
  BY <1>1, <1>3 DEF Agrees
<1> QED BY <1>8, <1>9

\* A simulation decides about outputs.
LEMMA CandidateType ==
  ASSUME Loops, pc \in {"try", "check"}
  PROVE  Candidate \in SUBSET PO
<1>1. OutputVars \in Seq(SUBSET PO)
  BY PipelineAssumption
<1>2. CASE pc = "try"
  <2>1. Candidate = OutputVars[at]
    BY <1>2, Zenon DEF Candidate
  <2> QED BY <1>1, <1>2, <2>1 DEF Loops
<1>3. CASE pc = "check"
  <2>1. Candidate = {at}
    BY <1>3, Zenon DEF Candidate
  <2> QED BY <1>3, <2>1 DEF Loops
<1> QED BY <1>2, <1>3

\* The counts, once the invariant holds.
LEMMA CountsFollow == SimulationTypeOK /\ SimulationFits => CountsBounded
<1> SUFFICES ASSUME SimulationTypeOK, SimulationFits PROVE CountsBounded
  OBVIOUS
<1>1. PICK F \in Nat : F = Len(fileString)
  BY DEF SimulationTypeOK
<1>2. ASSUME NEW net, NEW ids PROVE Cardinality(WrongLines(net, ids)) \in Nat
  <2>1. left \in Int /\ left + 1 \in Int /\ F \in Int
    BY <1>1 DEF SimulationTypeOK
  <2>2. WrongLines(net, ids) \subseteq left + 1 .. F
    BY <1>1 DEF WrongLines, Taken
  <2> QED BY <2>1, <2>2, IntervalSubset
<1>3. Copies \in Int
  BY DEF SimulationFits
<1>4. ASSUME NEW n, NEW W, Count(n, W), Cardinality(W) \in Nat
      PROVE  n - Cardinality(W) \in {0, Copies}
  <2>1. CASE 1 \in W
    BY <1>3, <1>4, <2>1 DEF Count
  <2>2. CASE 1 \notin W
    BY <1>3, <1>4, <2>2 DEF Count
  <2> QED BY <2>1, <2>2
<1>5. \A o \in PO : incorrect[o] - Cardinality(WrongLines(po, {o})) \in {0, Copies}
  <2> SUFFICES ASSUME NEW o \in PO
               PROVE  incorrect[o] - Cardinality(WrongLines(po, {o})) \in {0, Copies}
    OBVIOUS
  <2>1. Count(incorrect[o], WrongLines(po, {o}))
    BY DEF SimulationFits
  <2> QED BY <1>2, <1>4, <2>1
<1>6. unsatisfied - Cardinality(WrongLines(po, PO)) \in {0, Copies}
  <2>1. Count(unsatisfied, WrongLines(po, PO))
    BY DEF SimulationFits
  <2> QED BY <1>2, <1>4, <2>1
<1> QED BY <1>5, <1>6 DEF SimulationFits, CountsBounded

-----------------------------------------------------------------------------
(* Every step keeps the types.                                             *)

XorRecord == [s : CubeString, out : PO, invert : {0, 1}]

\* Where the entries of a list come from: another list, or the exclusive-ors of output i.
Joined(zs, xs, i, xors) ==
  \A k \in DOMAIN zs :
    \/ k \in DOMAIN xs /\ zs[k] = xs[k]
    \/ \E l \in DOMAIN xors :
         zs[k] = [s |-> xors[l][1], out |-> i, invert |-> xors[l][2]]

\* The exclusive-ors of one output join the list.
LEMMA XorsJoin ==
  ASSUME NEW xs \in Seq(XorRecord), NEW i \in PO, NEW r \in FBDTResults
  PROVE  /\ xs \o XorEntries(i, r.xors) \in Seq(XorRecord)
         /\ Joined(xs \o XorEntries(i, r.xors), xs, i, r.xors)
<1>1. PICK ys : ys = XorEntries(i, r.xors)
  OBVIOUS
<1>2. PICK n \in Nat : n = Len(r.xors) /\ DOMAIN r.xors = 1 .. n
                       /\ r.xors \in Seq(CubeString \X {0, 1})
  <2>1. r.xors \in Seq(CubeString \X {0, 1})
    BY PipelineAssumption
  <2> QED BY <2>1
<1>3. /\ ys = [k \in 1 .. n |-> [s |-> r.xors[k][1], out |-> i, invert |-> r.xors[k][2]]]
      /\ \A k \in 1 .. n : ys[k] \in XorRecord
  BY <1>1, <1>2 DEF XorEntries, XorRecord
<1>4. ys \in Seq(XorRecord) /\ Len(ys) = n
  BY <1>3
<1>5. PICK m \in Nat : m = Len(xs) /\ DOMAIN xs = 1 .. m
  OBVIOUS
<1>6. PICK zs : zs = xs \o ys
  OBVIOUS
<1>7. /\ zs \in Seq(XorRecord) /\ Len(zs) = m + n
      /\ \A k \in 1 .. m + n : zs[k] = IF k <= m THEN xs[k] ELSE ys[k - m]
  BY <1>4, <1>5, <1>6, ConcatProperties
<1>8. DOMAIN zs = 1 .. m + n
  BY <1>7
<1>9. \A k \in DOMAIN zs :
        \/ k \in DOMAIN xs /\ zs[k] = xs[k]
        \/ \E l \in DOMAIN r.xors :
             zs[k] = [s |-> r.xors[l][1], out |-> i, invert |-> r.xors[l][2]]
  <2> SUFFICES ASSUME NEW k \in 1 .. m + n
               PROVE  \/ k \in DOMAIN xs /\ zs[k] = xs[k]
                      \/ \E l \in DOMAIN r.xors :
                           zs[k] = [s |-> r.xors[l][1], out |-> i, invert |-> r.xors[l][2]]
    BY <1>8
  <2>1. CASE k <= m
    BY <1>5, <1>7, <2>1
  <2>2. CASE ~ (k <= m)
    <3>1. k - m \in 1 .. n /\ zs[k] = ys[k - m]
      BY <1>7, <2>2
    <3> QED BY <1>2, <1>3, <3>1
  <2> QED BY <2>1, <2>2
<1> QED BY <1>1, <1>6, <1>7, <1>9 DEF Joined

\* The type of the cubes of an output.
CubesType == Seq(CubeString \cup CompactString)

\* Cubes and entries of the learners.
LEMMA CubesHaveType ==
  /\ \A t \in Templates : /\ t.cubes \in CubesType /\ t.info \in ComcubeInfo
                          /\ Literals(t.cubes)
  /\ \A m \in Minterms : m \in CubesType
  /\ \A r \in FBDTResults : r.cubes \in CubesType
  /\ <<>> \in CubesType
<1>1. \A S : S \subseteq CubeString \cup CompactString => Seq(S) \subseteq CubesType
  BY SeqMonotonic DEF CubesType
<1>2. Seq(CubeString) \subseteq CubesType /\ Seq(CompactString) \subseteq CubesType
  BY <1>1
<1>3. ASSUME NEW t \in Templates
      PROVE  t.cubes \in Seq(CompactString) /\ t.info \in ComcubeInfo /\ Literals(t.cubes)
  <2>1. t.cubes \in Seq(CompactString) /\ t.info \in ComcubeInfo
    BY PipelineAssumption
  <2>2. \A n \in DOMAIN t.cubes : \E k \in DOMAIN t.cubes[n] : t.cubes[n][k] # DontCare
    BY PipelineAssumption
  <2> QED BY <2>1, <2>2 DEF Literals, Literal
<1>4. \A m \in Minterms : m \in Seq(CubeString)
  BY PipelineAssumption
<1>5. \A r \in FBDTResults : r.cubes \in Seq(CubeString)
  BY PipelineAssumption
<1>6. <<>> \in CubesType
  BY DEF CubesType
<1> QED BY <1>2, <1>3, <1>4, <1>5, <1>6

\* The groups of the output that is built are in comcube_info.
LEMMA GroupAt ==
  ASSUME IInv, pc = "groups", at < NumPO, cube_or_comcube[at + 1]
  PROVE  /\ info_index = Rank(cube_or_comcube, at + 1)
         /\ comcube_info[info_index] \in ComcubeInfo
         /\ Literals(cubes[at + 1])
<1>1. NumPO \in Nat /\ at \in Nat /\ at + 1 \in 1 .. NumPO /\ at + 1 \in Nat
  BY SimulationAssumption DEF IInv, Loops
<1>2. Len(cube_or_comcube) = NumPO
  BY PushedIs DEF IInv, TypeOK
<1>3. info_index = Rank(cube_or_comcube, at + 1)
  <2>1. info_index = Rank(cube_or_comcube, at) + 1
    BY DEF IInv, Built
  <2> QED BY <1>1, <2>1, RankStep
<1>4. Rank(cube_or_comcube, at + 1) <= Rank(cube_or_comcube, NumPO)
  BY <1>1, RankGrowsWith
<1>5. Rank(cube_or_comcube, at) \in Nat /\ info_index = Rank(cube_or_comcube, at) + 1
  BY <1>1, RankStep DEF IInv, Built
<1>6. Rank(cube_or_comcube, NumPO) = Len(comcube_info) /\ comcube_info \in Seq(ComcubeInfo)
  BY <1>2 DEF IInv, Entries, TypeOK
<1>7. info_index \in 1 .. Len(comcube_info)
  BY <1>3, <1>4, <1>5, <1>6
<1>8. Literals(cubes[at + 1])
  BY <1>1, <1>2 DEF IInv, Entries
<1> QED BY <1>3, <1>6, <1>7, <1>8

\* Every step keeps the types.
LEMMA TypeStep == IInv /\ [Next]_vars => TypeOK'
<1> SUFFICES ASSUME IInv, [Next]_vars PROVE TypeOK'
  OBVIOUS
<1>1. TypeOK /\ Loops
  BY DEF IInv
<1>2. SimulationTypeOK' /\ DeliveryTypeOK'
  BY SimulationStep, DeliveryStays
<1>3. NumPO \in Nat
  BY SimulationAssumption
<1>4. /\ \A b \in BOOLEAN : /\ Append(cube_or_comcube, b) \in Seq(BOOLEAN)
                            /\ Len(Append(cube_or_comcube, b)) = Len(cube_or_comcube) + 1
      /\ \A c \in CubesType : /\ Append(cubes, c) \in Seq(CubesType)
                              /\ Len(Append(cubes, c)) = Len(cubes) + 1
      /\ \A c \in ComcubeInfo : Append(comcube_info, c) \in Seq(ComcubeInfo)
  BY <1>1, AppendProperties DEF TypeOK, CubesType
<1>5. CASE NoExpression
  BY <1>1, <1>2, <1>5, PushedIs DEF NoExpression, TypeOK, learning
<1>6. CASE Expression
  <2>1. OutputVars[at] \in SUBSET PO
    <3>1. OutputVars \in Seq(SUBSET PO)
      BY PipelineAssumption
    <3> QED BY <1>1, <1>6, <3>1 DEF Expression, Loops
  <2>2. PICK on \in [PO -> OnSet] :
          /\ math_info' = Append(math_info, [pins |-> OutputVars[at], on |-> on])
          /\ po' = AssignOutputs(po, [pins |-> OutputVars[at], on |-> on])
    BY <1>6, PipelineAssumption DEF Expression
  <2>3. math_info' \in Seq([pins : SUBSET PO, on : [PO -> OnSet]])
    BY <1>1, <2>1, <2>2, AppendProperties DEF TypeOK
  <2>4. po' \in [PO -> OnSet]
    BY <1>1, <2>2 DEF AssignOutputs, TypeOK
  <2> QED BY <1>1, <1>2, <1>6, <2>3, <2>4, PushedIs DEF Expression, TypeOK
<1>7. CASE KeepExpression
  <2>1. OutputVars[at] \in SUBSET PO
    <3>1. OutputVars \in Seq(SUBSET PO)
      BY PipelineAssumption
    <3> QED BY <1>1, <1>7, <3>1 DEF KeepExpression, Loops
  <2>2. validated' \in SUBSET (PO \X OnSet)
    BY <1>1, <1>7, <2>1 DEF KeepExpression, TypeOK
  <2>3. po_done' \in [PO -> BOOLEAN]
    BY <1>1, <1>7 DEF KeepExpression, TypeOK
  <2> QED BY <1>1, <1>2, <1>7, <2>2, <2>3, PushedIs DEF KeepExpression, TypeOK
<1>8. CASE DropExpression
  <2>1. math_info' \in Seq([pins : SUBSET PO, on : [PO -> OnSet]])
    BY <1>1, <1>8, AllButLastIs DEF DropExpression, TypeOK, IInv, Expressions
  <2> QED BY <1>1, <1>2, <1>8, <2>1, PushedIs DEF DropExpression, TypeOK
<1>9. CASE StartLearning
  <2>1. po' \in [PO -> OnSet]
    BY <1>9 DEF StartLearning, NewNetwork, OnSet
  <2> QED BY <1>1, <1>2, <1>9, <2>1, PushedIs DEF StartLearning, TypeOK, learning
<1>10. CASE SkipDone \/ LearnByBruteForce \/ LearnByFBDT
  <2>1. /\ cube_or_comcube' = Append(cube_or_comcube, FALSE)
        /\ \E c \in CubesType : cubes' = Append(cubes, c)
        /\ at' = at + 1 /\ pc = "learn" /\ pc' = "learn"
        /\ UNCHANGED <<tendency, po_done, math_info, comcube_info, po, validated,
                       info_index>>
    BY <1>10, CubesHaveType DEF SkipDone, LearnByBruteForce, LearnByFBDT
  <2>2. xor_cubes' \in Seq([s : CubeString, out : PO, invert : {0, 1}])
    <3>1. CASE LearnByFBDT
      <4>1. at \in PO
        BY <1>1, <1>3, <3>1 DEF LearnByFBDT, Loops, PO
      <4>2. PICK r \in FBDTResults : xor_cubes' = xor_cubes \o XorEntries(at, r.xors)
        BY <3>1 DEF LearnByFBDT
      <4>3. xor_cubes \in Seq(XorRecord)
        BY <1>1 DEF TypeOK, XorRecord
      <4> QED BY <4>1, <4>2, <4>3, XorsJoin DEF XorRecord
    <3>2. CASE SkipDone \/ LearnByBruteForce
      BY <1>1, <3>2 DEF SkipDone, LearnByBruteForce, TypeOK
    <3> QED BY <1>10, <3>1, <3>2
  <2>3. FALSE \in BOOLEAN
    OBVIOUS
  <2>4. /\ cube_or_comcube' \in Seq(BOOLEAN)
        /\ Len(cube_or_comcube') = Len(cube_or_comcube) + 1
        /\ cubes' \in Seq(CubesType) /\ Len(cubes') = Len(cubes) + 1
    BY <1>4, <2>1, <2>3
  <2> QED BY <1>1, <1>2, <2>1, <2>2, <2>4, PushedIs DEF TypeOK, CubesType
<1>11. CASE LearnByTemplate
  <2>1. PICK t \in Templates :
          /\ comcube_info' = Append(comcube_info, t.info)
          /\ cubes' = Append(cubes, t.cubes)
          /\ po' = [po EXCEPT ![at] =
                      InvertIf(tendency[at], AddCompact(po[at], t.info, t.cubes))]
    BY <1>11 DEF LearnByTemplate
  <2>2. at \in PO
    BY <1>1, <1>3, <1>11 DEF LearnByTemplate, Loops, PO
  <2>3. InvertIf(tendency[at], AddCompact(po[at], t.info, t.cubes)) \in OnSet
    BY <1>1, <2>2, CubesHaveType, CompactType, NodesType DEF TypeOK
  <2>4. po' \in [PO -> OnSet]
    BY <1>1, <2>1, <2>3 DEF TypeOK
  <2>5. TRUE \in BOOLEAN /\ cube_or_comcube' = Append(cube_or_comcube, TRUE)
    BY <1>11 DEF LearnByTemplate
  <2>6. /\ cube_or_comcube' \in Seq(BOOLEAN)
        /\ Len(cube_or_comcube') = Len(cube_or_comcube) + 1
        /\ cubes' \in Seq(CubesType) /\ Len(cubes') = Len(cubes) + 1
        /\ comcube_info' \in Seq(ComcubeInfo)
    BY <1>4, <2>1, <2>5, CubesHaveType
  <2> QED BY <1>1, <1>2, <1>11, <2>4, <2>6, PushedIs DEF LearnByTemplate, TypeOK, CubesType
<1>12. CASE KeepTemplate
  <2>1. validated' \in SUBSET (PO \X OnSet)
    BY <1>1, <1>12 DEF KeepTemplate, TypeOK, Loops
  <2> QED BY <1>1, <1>2, <1>12, <2>1, PushedIs DEF KeepTemplate, TypeOK
<1>13. CASE DropTemplate
  <2>1. PICK r \in FBDTResults :
          /\ cubes' = Append(AllButLast(cubes), r.cubes)
          /\ xor_cubes' = xor_cubes \o XorEntries(at, r.xors)
    BY <1>13 DEF DropTemplate
  <2>2. at \in PO /\ at + 1 = Pushed /\ at + 1 # 0 /\ at \in Nat
    BY <1>1, <1>13, PushedIs DEF DropTemplate, Loops, PO, TypeOK
  <2>3. FALSE \in BOOLEAN /\ r.cubes \in CubesType
    BY CubesHaveType
  <2>4. /\ cube_or_comcube' = Append(AllButLast(cube_or_comcube), FALSE)
        /\ comcube_info' = AllButLast(comcube_info)
    BY <1>13 DEF DropTemplate
  <2>5. /\ cube_or_comcube \in Seq(BOOLEAN) /\ Len(cube_or_comcube) = at + 1
        /\ cubes \in Seq(CubesType) /\ Len(cubes) = at + 1
    BY <1>1, <2>2 DEF TypeOK, CubesType
  <2>6. /\ cube_or_comcube' \in Seq(BOOLEAN) /\ Len(cube_or_comcube') = at + 1
        /\ cubes' \in Seq(CubesType) /\ Len(cubes') = at + 1
    BY <2>1, <2>2, <2>3, <2>4, <2>5, ReplaceLast
  <2>7. Len(comcube_info) # 0
    <3>1. cube_or_comcube[at + 1] /\ Len(comcube_info) = Rank(cube_or_comcube, at + 1)
      BY <1>13, <2>5 DEF IInv, Entries, DropTemplate
    <3>2. Rank(cube_or_comcube, at + 1) = Rank(cube_or_comcube, at) + 1
      BY <2>2, <3>1, RankStep
    <3>3. Rank(cube_or_comcube, at) \in Nat
      BY <2>2, RankStep
    <3> QED BY <3>1, <3>2, <3>3
  <2>8. comcube_info' \in Seq(ComcubeInfo)
    BY <1>1, <2>4, <2>7, AllButLastIs DEF TypeOK
  <2>9. xor_cubes' \in Seq([s : CubeString, out : PO, invert : {0, 1}])
    BY <1>1, <2>1, <2>2, XorsJoin DEF TypeOK, XorRecord
  <2> QED BY <1>1, <1>2, <1>13, <2>2, <2>6, <2>8, <2>9, PushedIs
          DEF DropTemplate, TypeOK, CubesType
<1>14. CASE ReadPla
  <2>1. \A s : Region(s) \subseteq Point
    BY DEF Region
  <2>2. po' \in [PO -> OnSet]
    BY <1>14, <2>1 DEF ReadPla, OnSet
  <2> QED BY <1>1, <1>2, <1>3, <1>14, <2>2, PushedIs DEF ReadPla, TypeOK, learning
<1>15. CASE BuildGroup
  <2>1. at \in PO /\ at + 1 \in Nat
    BY <1>1, <1>3, <1>15 DEF BuildGroup, Loops, PO
  <2>2. po' \in [PO -> OnSet] /\ info_index' \in Nat
    <3>1. CASE cube_or_comcube[at + 1]
      <4>1. AddCompact(po[at], comcube_info[info_index], cubes[at + 1]) \in OnSet
        BY <1>1, <1>15, <2>1, <3>1, GroupAt, CompactType DEF BuildGroup, TypeOK
      <4>2. /\ po' = [po EXCEPT ![at] = AddCompact(po[at], comcube_info[info_index],
                                                   cubes[at + 1])]
            /\ info_index' = info_index + 1
        BY <1>15, <3>1 DEF BuildGroup
      <4>3. po \in [PO -> OnSet] /\ info_index \in Nat
        BY <1>1 DEF TypeOK
      <4> QED BY <2>1, <4>1, <4>2, <4>3
    <3>2. CASE ~cube_or_comcube[at + 1]
      BY <1>1, <1>15, <3>2 DEF BuildGroup, TypeOK
    <3> QED BY <3>1, <3>2
  <2> QED BY <1>1, <1>2, <1>15, <2>1, <2>2, PushedIs DEF BuildGroup, TypeOK, learning
<1>16. CASE BuildOutputXor
  <2>1. PICK xc : /\ xc = xor_cubes[at]
                  /\ po' = [po EXCEPT ![xc.out] = AddXor(po[xc.out], xc.s, XorInvert(xc))]
    BY <1>16 DEF BuildOutputXor
  <2>2. at \in DOMAIN xor_cubes
    BY <1>1, <1>16 DEF BuildOutputXor, TypeOK, Loops
  <2>3. xc \in [s : CubeString, out : PO, invert : {0, 1}] /\ Free(xc.s) # {}
    <3>1. xor_cubes \in Seq([s : CubeString, out : PO, invert : {0, 1}])
      BY <1>1 DEF TypeOK
    <3>2. xor_cubes[at] \in [s : CubeString, out : PO, invert : {0, 1}]
      <4>1. at \in 1 .. Len(xor_cubes)
        BY <2>2, <3>1
      <4> QED BY <3>1, <4>1, ElementOfSeq
    <3>3. Free(xor_cubes[at].s) # {}
      BY <2>2 DEF IInv, Entries
    <3> QED BY <2>1, <3>2, <3>3
  <2>4. XorInvert(xc) \in BOOLEAN
    BY DEF XorInvert
  <2>5. AddXor(po[xc.out], xc.s, XorInvert(xc)) \in OnSet
    BY <1>1, <2>3, <2>4, NodesType DEF TypeOK
  <2>6. po' \in [PO -> OnSet]
    BY <1>1, <2>1, <2>5 DEF TypeOK
  <2> QED BY <1>1, <1>2, <1>16, <2>6, PushedIs DEF BuildOutputXor, TypeOK, learning
<1>17. CASE Invert
  <2>1. po' \in [PO -> OnSet]
    BY <1>1, <1>3, <1>17, NodesType DEF Invert, TypeOK, PO
  <2> QED BY <1>1, <1>2, <1>17, <2>1, PushedIs DEF Invert, TypeOK, learning
<1>18. CASE StartXors \/ StartInverting \/ StartAssigning
  BY <1>1, <1>2, <1>18, PushedIs
     DEF StartXors, StartInverting, StartAssigning, TypeOK, learning
<1>19. CASE BuildExpression
  <2>1. math_info[at] \in [pins : SUBSET PO, on : [PO -> OnSet]]
    <3>1. math_info \in Seq([pins : SUBSET PO, on : [PO -> OnSet]]) /\ at \in Nat
      BY <1>1 DEF TypeOK
    <3>2. at # 0 /\ at <= Len(math_info)
      BY <1>1, <1>19 DEF BuildExpression, Loops
    <3>3. at \in 1 .. Len(math_info)
      BY <3>1, <3>2
    <3> QED BY <3>1, <3>3, ElementOfSeq
  <2>2. po' \in [PO -> OnSet]
    BY <1>1, <1>19, <2>1 DEF BuildExpression, AssignOutputs, TypeOK
  <2> QED BY <1>1, <1>2, <1>19, <2>2, PushedIs DEF BuildExpression, TypeOK, learning
<1>20. CASE StartDelivery \/ Deliver \/ Measure \/ Finish \/ Simulate
  BY <1>1, <1>2, <1>20, PushedIs
     DEF StartDelivery, Deliver, Measure, Finish, Simulate, TypeOK, learning
<1>21. CASE Returned \/ UNCHANGED vars
  <2>1. UNCHANGED vars
    BY <1>21 DEF Returned
  <2>2. Pushed' = Pushed
    BY <2>1, PushedIs DEF vars
  <2> QED BY <1>1, <1>2, <2>1, <2>2 DEF vars, learning, TypeOK
<1> QED BY <1>5, <1>6, <1>7, <1>8, <1>9, <1>10, <1>11, <1>12, <1>13, <1>14, <1>15, <1>16,
           <1>17, <1>18, <1>19, <1>20, <1>21 DEF Next

-----------------------------------------------------------------------------
(* Every step keeps the rest of the invariant.                             *)

\* The loops end in time.
LEMMA LoopsStep == IInv /\ [Next]_vars => Loops'
<1> SUFFICES ASSUME IInv, [Next]_vars PROVE Loops'
  OBVIOUS
<1>1. Loops /\ at \in Nat /\ NumPO \in Nat /\ Len(OutputVars) \in Nat
  BY SimulationAssumption, PipelineAssumption DEF IInv, TypeOK
<1> USE DEF Loops, PO
<1>2. CASE NoExpression \/ Expression \/ KeepExpression \/ DropExpression \/ StartLearning
  BY <1>1, <1>2 DEF NoExpression, Expression, KeepExpression, DropExpression, StartLearning
<1>3. CASE SkipDone \/ LearnByBruteForce \/ LearnByFBDT \/ LearnByTemplate
  <2>1. pc = "learn" /\ at < NumPO
    BY <1>3 DEF SkipDone, LearnByBruteForce, LearnByFBDT, LearnByTemplate
  <2>2. \/ at' = at + 1 /\ pc' = "learn"
        \/ at' = at /\ pc' = "check"
    BY <1>3 DEF SkipDone, LearnByBruteForce, LearnByFBDT, LearnByTemplate
  <2> QED BY <1>1, <2>1, <2>2
<1>4. CASE KeepTemplate \/ DropTemplate
  <2>1. pc = "check" /\ at' = at + 1 /\ pc' = "learn"
    BY <1>4 DEF KeepTemplate, DropTemplate
  <2> QED BY <1>1, <2>1
<1>8. CASE ReadPla \/ BuildGroup \/ StartXors
  BY <1>1, <1>8 DEF ReadPla, BuildGroup, StartXors
<1>5. CASE BuildOutputXor \/ StartInverting \/ Invert \/ StartAssigning \/ BuildExpression
  BY <1>1, <1>5 DEF BuildOutputXor, StartInverting, Invert, StartAssigning, BuildExpression
<1>6. CASE StartDelivery \/ Deliver \/ Measure \/ Finish \/ Simulate
  BY <1>1, <1>6 DEF StartDelivery, Deliver, Measure, Finish, Simulate, learning
<1>7. CASE Returned \/ UNCHANGED vars
  BY <1>1, <1>7 DEF Returned, vars, learning
<1> QED BY <1>2, <1>3, <1>4, <1>5, <1>6, <1>7, <1>8 DEF Next

\* An expression that is kept has outputs of its own.
LEMMA ExpressionsStep == IInv /\ [Next]_vars => Expressions'
<1> SUFFICES ASSUME IInv, [Next]_vars PROVE Expressions'
  OBVIOUS
<1>1. PICK L \in Nat : L = Len(math_info)
  BY DEF IInv, TypeOK
<1>2. /\ Expressions /\ at \in Nat /\ Loops
      /\ math_info \in Seq([pins : SUBSET PO, on : [PO -> OnSet]])
  BY DEF IInv, TypeOK
<1>3. CASE NoExpression
  BY <1>2, <1>3 DEF NoExpression, Expressions, learning, Kept
<1>4. CASE Expression
  <2>1. PICK m \in [pins : SUBSET PO, on : [PO -> OnSet]] :
          math_info' = Append(math_info, m) /\ m.pins = OutputVars[at]
    <3>1. OutputVars[at] \in SUBSET PO
      <4>1. OutputVars \in Seq(SUBSET PO)
        BY PipelineAssumption
      <4> QED BY <1>2, <1>4, <4>1 DEF Expression, Loops
    <3>2. PICK on \in [PO -> OnSet] :
            math_info' = Append(math_info, [pins |-> OutputVars[at], on |-> on])
      BY <1>4, PipelineAssumption DEF Expression
    <3> QED BY <3>1, <3>2
  <2>2. /\ Len(math_info') = L + 1 /\ math_info'[L + 1] = m
        /\ \A k \in 1 .. L : math_info'[k] = math_info[k]
    BY <1>1, <1>2, <2>1, AppendProperties
  <2>3. Kept = 1 .. L /\ Kept' = 1 .. L
    BY <1>1, <1>4, <2>2 DEF Expression, Kept
  <2>4. /\ pc = "arith" /\ pc' = "try" /\ at' = at /\ po_done' = po_done
        /\ math_info'[L + 1].pins = OutputVars[at] /\ Len(math_info') = L + 1
    BY <1>4, <2>1, <2>2 DEF Expression
  <2>5. \A k \in 1 .. L : math_info'[k].pins = math_info[k].pins
    BY <2>2
  <2>6. Len(math_info') # 0 /\ math_info'[Len(math_info')].pins = OutputVars[at']
    BY <2>4
  <2>7. /\ \A k \in 1 .. L, i \in PO : i \in math_info[k].pins => po_done[i]
        /\ \A k, l \in 1 .. L : k # l => math_info[k].pins \cap math_info[l].pins = {}
        /\ \A i \in PO : po_done[i] => \E v \in 1 .. at - 1 : i \in OutputVars[v]
    BY <1>2, <2>3, <2>4 DEF Expressions
  <2>8. /\ \A k \in 1 .. L, i \in PO : i \in math_info'[k].pins => po_done'[i]
        /\ \A k, l \in 1 .. L : k # l => math_info'[k].pins \cap math_info'[l].pins = {}
    BY <2>4, <2>5, <2>7
  <2>9. \A i \in PO : po_done'[i] => \E v \in 1 .. at' - 1 : i \in OutputVars[v]
    BY <2>4, <2>7
  <2> QED BY <2>3, <2>6, <2>8, <2>9 DEF Expressions
<1>5. CASE KeepExpression
  <2>1. /\ math_info' = math_info /\ at' = at + 1 /\ pc = "try" /\ pc' = "arith"
        /\ po_done' = [i \in PO |-> po_done[i] \/ i \in OutputVars[at]]
    BY <1>5 DEF KeepExpression
  <2>2. L # 0 /\ math_info[L].pins = OutputVars[at] /\ Kept = 1 .. L - 1 /\ Kept' = 1 .. L
    BY <1>1, <1>2, <2>1 DEF Expressions, Kept
  <2>3. \A v \in 1 .. at - 1 : OutputVars[v] \cap OutputVars[at] = {}
    <3>1. OutputVars \in Seq(SUBSET PO) /\ at \in 1 .. Len(OutputVars)
      BY <1>2, <2>1, PipelineAssumption DEF Loops
    <3>2. DOMAIN OutputVars = 1 .. Len(OutputVars)
      BY <3>1
    <3>3. \A v \in 1 .. at - 1 : v \in DOMAIN OutputVars /\ at \in DOMAIN OutputVars /\ v # at
      BY <3>1, <3>2
    <3> QED BY <3>3, PipelineAssumption
  <2>4. \A k \in 1 .. L - 1 : math_info[k].pins \cap OutputVars[at] = {}
    <3>1. \A k \in 1 .. L - 1 : math_info[k].pins \subseteq PO
      <4> SUFFICES ASSUME NEW k \in 1 .. L - 1 PROVE math_info[k].pins \subseteq PO
        OBVIOUS
      <4>1. k \in 1 .. Len(math_info)
        BY <1>1
      <4>2. math_info[k] \in [pins : SUBSET PO, on : [PO -> OnSet]]
        BY <1>2, <4>1, ElementOfSeq
      <4> QED BY <4>2
    <3>2. \A k \in 1 .. L - 1, i \in PO : i \in math_info[k].pins => po_done[i]
      BY <1>2, <2>2 DEF Expressions
    <3>3. \A i \in PO : po_done[i] => \E v \in 1 .. at - 1 : i \in OutputVars[v]
      BY <1>2, <2>1 DEF Expressions
    <3> QED BY <2>3, <3>1, <3>2, <3>3
  <2>5. \A k, l \in 1 .. L : k # l => math_info[k].pins \cap math_info[l].pins = {}
    <3> SUFFICES ASSUME NEW k \in 1 .. L, NEW l \in 1 .. L, k # l
                 PROVE  math_info[k].pins \cap math_info[l].pins = {}
      OBVIOUS
    <3>1. CASE k = L
      BY <2>2, <2>4, <3>1
    <3>2. CASE l = L
      BY <2>2, <2>4, <3>2
    <3>3. CASE k # L /\ l # L
      <4>1. k \in Kept /\ l \in Kept
        BY <2>2, <3>3
      <4> QED BY <1>2, <4>1 DEF Expressions
    <3> QED BY <3>1, <3>2, <3>3
  <2>6. \A k \in 1 .. L, i \in PO : i \in math_info[k].pins => po_done'[i]
    <3> SUFFICES ASSUME NEW k \in 1 .. L, NEW i \in PO, i \in math_info[k].pins
                 PROVE  po_done'[i]
      OBVIOUS
    <3>1. CASE k = L
      BY <2>1, <2>2, <3>1
    <3>2. CASE k # L
      <4>1. k \in Kept
        BY <2>2, <3>2
      <4> QED BY <1>2, <2>1, <4>1 DEF Expressions
    <3> QED BY <3>1, <3>2
  <2>7. \A i \in PO : po_done'[i] => \E v \in 1 .. at' - 1 : i \in OutputVars[v]
    <3> SUFFICES ASSUME NEW i \in PO, po_done'[i]
                 PROVE  \E v \in 1 .. at' - 1 : i \in OutputVars[v]
      OBVIOUS
    <3>1. CASE i \in OutputVars[at]
      <4>1. at \in 1 .. at' - 1
        BY <1>2, <2>1 DEF Loops
      <4> QED BY <3>1, <4>1
    <3>2. CASE i \notin OutputVars[at]
      <4>1. PICK v \in 1 .. at - 1 : i \in OutputVars[v]
        BY <1>2, <2>1, <3>2 DEF Expressions
      <4>2. v \in 1 .. at' - 1
        BY <1>2, <2>1
      <4> QED BY <4>1, <4>2
    <3> QED BY <3>1, <3>2
  <2> QED BY <2>1, <2>2, <2>5, <2>6, <2>7 DEF Expressions
<1>6. CASE DropExpression
  <2>1. L # 0
    BY <1>1, <1>2, <1>6 DEF DropExpression, Expressions
  <2>2. /\ math_info' = AllButLast(math_info) /\ at' = at + 1 /\ pc = "try" /\ pc' = "arith"
        /\ po_done' = po_done
    BY <1>6 DEF DropExpression
  <2>3. /\ Len(math_info') = L - 1
        /\ \A k \in 1 .. L - 1 : math_info'[k] = math_info[k]
    BY <1>1, <1>2, <2>1, <2>2, AllButLastIs
  <2>4. Kept = 1 .. L - 1 /\ Kept' = 1 .. L - 1
    BY <1>1, <2>2, <2>3 DEF Kept
  <2>5. \A i \in PO : po_done[i] => \E v \in 1 .. at' - 1 : i \in OutputVars[v]
    <3>1. \A v \in 1 .. at - 1 : v \in 1 .. at' - 1
      BY <1>2, <2>2
    <3> QED BY <1>2, <2>2, <3>1 DEF Expressions
  <2> QED BY <1>2, <2>2, <2>3, <2>4, <2>5 DEF Expressions
<1>7. ASSUME UNCHANGED <<math_info, po_done>>,
             pc \notin {"try"}, pc' \notin {"arith", "try"}
      PROVE  Expressions'
  BY <1>2, <1>7 DEF Expressions, Kept
<1>8. CASE StartLearning \/ SkipDone \/ LearnByBruteForce \/ LearnByFBDT \/ LearnByTemplate
  BY <1>7, <1>8
     DEF StartLearning, SkipDone, LearnByBruteForce, LearnByFBDT, LearnByTemplate, learning
<1>9. CASE KeepTemplate \/ DropTemplate \/ ReadPla \/ BuildGroup \/ StartXors
  BY <1>7, <1>9 DEF KeepTemplate, DropTemplate, ReadPla, BuildGroup, StartXors, learning
<1>10. CASE BuildOutputXor \/ StartInverting \/ Invert \/ StartAssigning \/ BuildExpression
  BY <1>7, <1>10
     DEF BuildOutputXor, StartInverting, Invert, StartAssigning, BuildExpression, learning
<1>11. CASE StartDelivery \/ Deliver \/ Measure \/ Finish
  BY <1>7, <1>11 DEF StartDelivery, Deliver, Measure, Finish, learning
<1>12. CASE Simulate \/ Returned \/ UNCHANGED vars
  <2>1. UNCHANGED <<math_info, po_done, at, pc>>
    BY <1>12 DEF Simulate, Returned, vars, learning
  <2> QED BY <1>2, <2>1 DEF Expressions, Kept
<1> QED BY <1>3, <1>4, <1>5, <1>6, <1>8, <1>9, <1>10, <1>11, <1>12 DEF Next

\* The lists of entries after a step that appends, or replaces the last entry.
LEMMA EntriesPushed ==
  ASSUME IInv, pc = "learn", NEW b \in BOOLEAN, NEW c \in CubesType,
         cube_or_comcube' = Append(cube_or_comcube, b), cubes' = Append(cubes, c)
  PROVE  /\ Len(cube_or_comcube) = at /\ at \in Nat
         /\ Len(cube_or_comcube') = at + 1
         /\ \A n \in 1 .. at : /\ cube_or_comcube'[n] = cube_or_comcube[n]
                               /\ cubes'[n] = cubes[n]
         /\ cube_or_comcube'[at + 1] = b /\ cubes'[at + 1] = c
         /\ Rank(cube_or_comcube', at + 1)
              = IF b THEN Rank(cube_or_comcube, at) + 1 ELSE Rank(cube_or_comcube, at)
<1>1. /\ Len(cube_or_comcube) = at /\ at \in Nat /\ Len(cubes) = at
      /\ cube_or_comcube \in Seq(BOOLEAN) /\ cubes \in Seq(CubesType)
  BY PushedIs DEF IInv, TypeOK, CubesType
<1>2. /\ Len(cube_or_comcube') = at + 1
      /\ \A n \in 1 .. at : cube_or_comcube'[n] = cube_or_comcube[n]
      /\ cube_or_comcube'[at + 1] = b
  BY <1>1, AppendProperties
<1>3. (\A n \in 1 .. at : cubes'[n] = cubes[n]) /\ cubes'[at + 1] = c
  BY <1>1, AppendProperties
<1>4. Rank(cube_or_comcube', at) = Rank(cube_or_comcube, at)
  BY <1>1, <1>2, RankSame
<1>5. PICK f : f = cube_or_comcube'
  OBVIOUS
<1>6. Rank(f, at + 1) = IF f[at + 1] THEN Rank(f, at) + 1 ELSE Rank(f, at)
  BY <1>1, RankStep
<1> QED BY <1>1, <1>2, <1>3, <1>4, <1>5, <1>6

\* A template is dropped: its entries are replaced.
LEMMA EntriesReplaced ==
  ASSUME IInv, DropTemplate
  PROVE  /\ Len(cube_or_comcube) = at + 1 /\ at \in PO /\ at \in Nat
         /\ Len(cube_or_comcube') = at + 1
         /\ \A n \in 1 .. at : /\ cube_or_comcube'[n] = cube_or_comcube[n]
                               /\ cubes'[n] = cubes[n]
         /\ ~cube_or_comcube'[at + 1]
         /\ Rank(cube_or_comcube', at + 1) = Rank(cube_or_comcube, at)
         /\ Len(comcube_info') = Rank(cube_or_comcube, at)
         /\ \A k \in 1 .. Rank(cube_or_comcube, at) : comcube_info'[k] = comcube_info[k]
<1>1. /\ Len(cube_or_comcube) = at + 1 /\ at \in Nat /\ Len(cubes) = at + 1 /\ at \in PO
      /\ cube_or_comcube \in Seq(BOOLEAN) /\ cubes \in Seq(CubesType)
  BY PushedIs DEF IInv, TypeOK, CubesType, DropTemplate, Loops
<1>2. PICK r \in FBDTResults : cubes' = Append(AllButLast(cubes), r.cubes)
  BY DEF DropTemplate
<1>3. FALSE \in BOOLEAN /\ r.cubes \in CubesType
  BY CubesHaveType
<1>4. PICK f : f = cube_or_comcube' /\ f = Append(AllButLast(cube_or_comcube), FALSE)
  BY DEF DropTemplate
<1>5. /\ Len(f) = at + 1 /\ f[at + 1] = FALSE
      /\ \A n \in 1 .. at : f[n] = cube_or_comcube[n]
  <2>1. /\ Len(cube_or_comcube) # 0 /\ Len(cube_or_comcube) - 1 = at
        /\ cube_or_comcube \in Seq(BOOLEAN)
    BY <1>1
  <2>2. /\ Len(f) = Len(cube_or_comcube) /\ f[Len(cube_or_comcube)] = FALSE
        /\ \A n \in 1 .. Len(cube_or_comcube) - 1 : f[n] = cube_or_comcube[n]
    <3>1. PICK B, s, e : /\ B = BOOLEAN /\ s = cube_or_comcube /\ e = FALSE
                         /\ s \in Seq(B) /\ e \in B
      BY <2>1
    <3>2. /\ Len(Append(AllButLast(s), e)) = Len(s)
          /\ Append(AllButLast(s), e)[Len(s)] = e
          /\ \A n \in 1 .. Len(s) - 1 : Append(AllButLast(s), e)[n] = s[n]
      <4>1. Len(s) # 0 /\ s \in Seq(B) /\ e \in B
        BY <2>1, <3>1
      <4> QED BY <4>1, ReplaceLast
    <3>3. f = Append(AllButLast(s), e)
      BY <1>4, <3>1
    <3> QED BY <3>1, <3>2, <3>3
  <2> QED BY <1>1, <2>1, <2>2
<1>6. \A n \in 1 .. at : cubes'[n] = cubes[n]
  BY <1>1, <1>2, <1>3, ReplaceLast
<1>7. Rank(f, at) = Rank(cube_or_comcube, at)
  BY <1>1, <1>5, RankSame
<1>8. Rank(f, at + 1) = Rank(f, at)
  BY <1>1, <1>5, RankStep
<1>9. /\ Len(comcube_info) = Rank(cube_or_comcube, at + 1)
      /\ cube_or_comcube[at + 1]
  BY <1>1 DEF IInv, Entries, DropTemplate
<1>10. /\ Rank(cube_or_comcube, at + 1) = Rank(cube_or_comcube, at) + 1
       /\ Rank(cube_or_comcube, at) \in Nat
  BY <1>1, <1>9, RankStep
<1>11. comcube_info \in Seq(ComcubeInfo) /\ comcube_info' = AllButLast(comcube_info)
  BY DEF IInv, TypeOK, DropTemplate
<1>12. /\ Len(comcube_info') = Len(comcube_info) - 1
       /\ \A k \in 1 .. Len(comcube_info) - 1 : comcube_info'[k] = comcube_info[k]
  <2>1. Len(comcube_info) # 0
    BY <1>9, <1>10
  <2> QED BY <1>11, <2>1, AllButLastIs
<1>13. Len(comcube_info) - 1 = Rank(cube_or_comcube, at)
  BY <1>9, <1>10
<1> QED BY <1>1, <1>4, <1>5, <1>6, <1>7, <1>8, <1>12, <1>13

\* What an output's entries give depends on the entries up to its own only.
LEMMA TemplateStays ==
  ASSUME NEW n \in Nat, NEW i \in Nat, i + 1 <= n, cube_or_comcube[i + 1],
         \A j \in 1 .. n : /\ cube_or_comcube'[j] = cube_or_comcube[j]
                           /\ cubes'[j] = cubes[j],
         \A k \in 1 .. Rank(cube_or_comcube, n) : comcube_info'[k] = comcube_info[k],
         tendency' = tendency
  PROVE  TemplateOn(i)' = TemplateOn(i) /\ Finished(i)' = Finished(i)
<1>1. PICK f, g : f = cube_or_comcube /\ g = cube_or_comcube'
  OBVIOUS
<1>2. \A j \in 1 .. i + 1 : j \in 1 .. n
  OBVIOUS
<1>3. i + 1 \in Nat /\ i + 1 \in 1 .. n
  OBVIOUS
<1>4. Rank(g, i + 1) = Rank(f, i + 1)
  BY <1>1, <1>2, <1>3, RankSame
<1>5. Rank(f, i + 1) = Rank(f, i) + 1 /\ Rank(f, i) \in Nat
  BY <1>1, RankStep
<1>6. Rank(f, i + 1) <= Rank(f, n) /\ Rank(f, n) \in Nat
  BY <1>3, RankGrowsWith, RankStep
<1>7. Rank(f, i + 1) \in 1 .. Rank(f, n)
  BY <1>5, <1>6
<1>8. comcube_info'[Rank(f, i + 1)] = comcube_info[Rank(f, i + 1)]
  BY <1>1, <1>7
<1>9. cubes'[i + 1] = cubes[i + 1]
  BY <1>3
<1>10. TemplateOn(i)' = AddCompact({}, comcube_info'[Rank(g, i + 1)], cubes'[i + 1])
  BY <1>1 DEF TemplateOn
<1>11. TemplateOn(i) = AddCompact({}, comcube_info[Rank(f, i + 1)], cubes[i + 1])
  BY <1>1 DEF TemplateOn
<1>12. TemplateOn(i)' = TemplateOn(i)
  BY <1>4, <1>8, <1>9, <1>10, <1>11
<1> QED BY <1>12 DEF Finished

\* Every step keeps the entries together.
LEMMA EntriesStep == IInv /\ [Next]_vars => Entries'
<1> SUFFICES ASSUME IInv, [Next]_vars PROVE Entries'
  OBVIOUS
<1>1. Entries /\ NumPO \in Nat
  BY SimulationAssumption DEF IInv
<1>2. ASSUME UNCHANGED <<cube_or_comcube, cubes, comcube_info, xor_cubes, po_done>>,
             pc' = "check" => pc = "check" /\ at' = at
      PROVE  Entries'
  BY <1>1, <1>2 DEF Entries
<1>3. CASE NoExpression \/ Expression \/ DropExpression \/ StartLearning
  BY <1>2, <1>3 DEF NoExpression, Expression, DropExpression, StartLearning, learning
<1>4. CASE KeepExpression
  <2>1. Len(cube_or_comcube) = 0
    BY <1>4, PushedIs DEF KeepExpression, IInv, TypeOK
  <2>2. /\ UNCHANGED <<cube_or_comcube, cubes, comcube_info, xor_cubes>>
        /\ pc' = "arith"
    BY <1>4 DEF KeepExpression
  <2>3. \A n \in 1 .. 0 : FALSE
    OBVIOUS
  <2> QED BY <1>1, <2>1, <2>2, <2>3 DEF Entries
<1>5. CASE SkipDone \/ LearnByBruteForce \/ LearnByFBDT
  <2>1. PICK c \in CubesType : cubes' = Append(cubes, c)
    BY <1>5, CubesHaveType DEF SkipDone, LearnByBruteForce, LearnByFBDT
  <2>2. /\ cube_or_comcube' = Append(cube_or_comcube, FALSE) /\ FALSE \in BOOLEAN
        /\ pc = "learn" /\ pc' = "learn" /\ at < NumPO
        /\ po_done' = po_done /\ comcube_info' = comcube_info
    BY <1>5 DEF SkipDone, LearnByBruteForce, LearnByFBDT
  <2>3. /\ Len(cube_or_comcube) = at /\ at \in Nat
        /\ Len(cube_or_comcube') = at + 1
        /\ \A n \in 1 .. at : /\ cube_or_comcube'[n] = cube_or_comcube[n]
                              /\ cubes'[n] = cubes[n]
        /\ ~cube_or_comcube'[at + 1]
        /\ Rank(cube_or_comcube', at + 1) = Rank(cube_or_comcube, at)
    BY <2>1, <2>2, EntriesPushed
  <2>4. \A n \in 1 .. at + 1 :
          cube_or_comcube'[n] => Literals(cubes'[n]) /\ ~po_done'[n - 1]
    <3>1. \A n \in 1 .. at + 1 : n \in 1 .. at \/ n = at + 1
      BY <2>3
    <3> QED BY <1>1, <2>2, <2>3, <3>1 DEF Entries
  <2>5. Len(comcube_info') = Rank(cube_or_comcube', at + 1)
    BY <1>1, <2>2, <2>3 DEF Entries
  <2>6. \A k \in DOMAIN xor_cubes :
          /\ xor_cubes[k].out + 1 \in 1 .. at + 1
          /\ ~cube_or_comcube'[xor_cubes[k].out + 1]
          /\ Free(xor_cubes[k].s) # {}
    <3>1. \A m \in 1 .. at : m \in 1 .. at + 1
      BY <2>3
    <3> QED BY <1>1, <2>3, <3>1 DEF Entries
  <2>7. \A k \in DOMAIN xor_cubes' :
          /\ xor_cubes'[k].out + 1 \in 1 .. at + 1
          /\ ~cube_or_comcube'[xor_cubes'[k].out + 1]
          /\ Free(xor_cubes'[k].s) # {}
    <3>1. CASE LearnByFBDT
      <4>1. PICK r \in FBDTResults : xor_cubes' = xor_cubes \o XorEntries(at, r.xors)
        BY <3>1 DEF LearnByFBDT
      <4>2. at \in PO /\ xor_cubes \in Seq(XorRecord)
        BY <1>1, <2>2, <2>3 DEF IInv, TypeOK, XorRecord, PO
      <4>3. \A k \in DOMAIN xor_cubes' :
              \/ k \in DOMAIN xor_cubes /\ xor_cubes'[k] = xor_cubes[k]
              \/ \E l \in DOMAIN r.xors :
                   xor_cubes'[k] = [s |-> r.xors[l][1], out |-> at, invert |-> r.xors[l][2]]
        <5>1. Joined(xor_cubes', xor_cubes, at, r.xors)
          BY <4>1, <4>2, XorsJoin
        <5> QED BY <5>1 DEF Joined
      <4>4. \A l \in DOMAIN r.xors : Free(r.xors[l][1]) # {}
        BY PipelineAssumption
      <4>5. at + 1 \in 1 .. at + 1
        BY <2>3
      <4> QED BY <2>3, <2>6, <4>3, <4>4, <4>5
    <3>2. CASE SkipDone \/ LearnByBruteForce
      BY <2>6, <3>2 DEF SkipDone, LearnByBruteForce
    <3> QED BY <1>5, <3>1, <3>2
  <2> QED BY <2>2, <2>3, <2>4, <2>5, <2>7 DEF Entries
<1>6. CASE LearnByTemplate
  <2>1. PICK t \in Templates :
          comcube_info' = Append(comcube_info, t.info) /\ cubes' = Append(cubes, t.cubes)
    BY <1>6 DEF LearnByTemplate
  <2>2. /\ cube_or_comcube' = Append(cube_or_comcube, TRUE) /\ TRUE \in BOOLEAN
        /\ pc = "learn" /\ pc' = "check" /\ at < NumPO /\ ~po_done[at] /\ at' = at
        /\ po_done' = po_done /\ xor_cubes' = xor_cubes
        /\ t.cubes \in CubesType /\ Literals(t.cubes) /\ t.info \in ComcubeInfo
    BY <1>6, CubesHaveType DEF LearnByTemplate
  <2>3. /\ Len(cube_or_comcube) = at /\ at \in Nat
        /\ Len(cube_or_comcube') = at + 1
        /\ \A n \in 1 .. at : /\ cube_or_comcube'[n] = cube_or_comcube[n]
                              /\ cubes'[n] = cubes[n]
        /\ cube_or_comcube'[at + 1] /\ cubes'[at + 1] = t.cubes
        /\ Rank(cube_or_comcube', at + 1) = Rank(cube_or_comcube, at) + 1
    BY <2>1, <2>2, EntriesPushed
  <2>4. \A n \in 1 .. at + 1 :
          cube_or_comcube'[n] => Literals(cubes'[n]) /\ ~po_done'[n - 1]
    <3>1. \A n \in 1 .. at + 1 : n \in 1 .. at \/ n = at + 1
      BY <2>3
    <3>2. (at + 1) - 1 = at
      BY <2>3
    <3> QED BY <1>1, <2>2, <2>3, <3>1, <3>2 DEF Entries
  <2>5. Len(comcube_info') = Len(comcube_info) + 1
    BY <2>1, <2>2, AppendProperties DEF IInv, TypeOK
  <2>6. Len(comcube_info') = Rank(cube_or_comcube', at + 1)
    BY <1>1, <2>3, <2>5 DEF Entries
  <2>7. \A k \in DOMAIN xor_cubes :
          /\ xor_cubes[k].out + 1 \in 1 .. at + 1
          /\ ~cube_or_comcube'[xor_cubes[k].out + 1]
          /\ Free(xor_cubes[k].s) # {}
    <3>1. \A m \in 1 .. at : m \in 1 .. at + 1
      BY <2>3
    <3> QED BY <1>1, <2>3, <3>1 DEF Entries
  <2> QED BY <2>2, <2>3, <2>4, <2>6, <2>7 DEF Entries
<1>7. CASE KeepTemplate
  BY <1>2, <1>7 DEF KeepTemplate
<1>8. CASE DropTemplate
  <2>1. PICK r \in FBDTResults : xor_cubes' = xor_cubes \o XorEntries(at, r.xors)
    BY <1>8 DEF DropTemplate
  <2>2. /\ Len(cube_or_comcube) = at + 1 /\ at \in PO /\ at \in Nat
        /\ Len(cube_or_comcube') = at + 1
        /\ \A n \in 1 .. at : /\ cube_or_comcube'[n] = cube_or_comcube[n]
                              /\ cubes'[n] = cubes[n]
        /\ ~cube_or_comcube'[at + 1]
        /\ Rank(cube_or_comcube', at + 1) = Rank(cube_or_comcube, at)
        /\ Len(comcube_info') = Rank(cube_or_comcube, at)
    BY <1>8, EntriesReplaced
  <2>3. pc = "check" /\ pc' = "learn" /\ po_done' = po_done
    BY <1>8 DEF DropTemplate
  <2>4. \A n \in 1 .. at + 1 : n \in 1 .. at \/ n = at + 1
    BY <2>2
  <2>5. \A n \in 1 .. at + 1 :
          cube_or_comcube'[n] => Literals(cubes'[n]) /\ ~po_done'[n - 1]
    BY <1>1, <2>2, <2>3, <2>4 DEF Entries
  <2>6. \A k \in DOMAIN xor_cubes :
          /\ xor_cubes[k].out + 1 \in 1 .. at + 1
          /\ ~cube_or_comcube'[xor_cubes[k].out + 1]
          /\ Free(xor_cubes[k].s) # {}
    BY <1>1, <2>2, <2>4 DEF Entries
  <2>7. xor_cubes \in Seq(XorRecord)
    BY DEF IInv, TypeOK, XorRecord
  <2>8. \A k \in DOMAIN xor_cubes' :
          \/ k \in DOMAIN xor_cubes /\ xor_cubes'[k] = xor_cubes[k]
          \/ \E l \in DOMAIN r.xors :
               xor_cubes'[k] = [s |-> r.xors[l][1], out |-> at, invert |-> r.xors[l][2]]
    <3>1. Joined(xor_cubes', xor_cubes, at, r.xors)
      BY <2>1, <2>2, <2>7, XorsJoin
    <3> QED BY <3>1 DEF Joined
  <2>9. \A l \in DOMAIN r.xors : Free(r.xors[l][1]) # {}
    BY PipelineAssumption
  <2>10. at + 1 \in 1 .. at + 1
    BY <2>2
  <2>11. \A k \in DOMAIN xor_cubes' :
           /\ xor_cubes'[k].out + 1 \in 1 .. at + 1
           /\ ~cube_or_comcube'[xor_cubes'[k].out + 1]
           /\ Free(xor_cubes'[k].s) # {}
    BY <2>2, <2>6, <2>8, <2>9, <2>10
  <2> QED BY <2>2, <2>3, <2>5, <2>11 DEF Entries
<1>9. CASE ReadPla \/ BuildGroup \/ StartXors \/ BuildOutputXor \/ StartInverting
  BY <1>2, <1>9 DEF ReadPla, BuildGroup, StartXors, BuildOutputXor, StartInverting, learning
<1>10. CASE Invert \/ StartAssigning \/ BuildExpression
  BY <1>2, <1>10 DEF Invert, StartAssigning, BuildExpression, learning
<1>12. CASE StartDelivery \/ Deliver \/ Measure \/ Finish
  BY <1>2, <1>12 DEF StartDelivery, Deliver, Measure, Finish, learning
<1>11. CASE Simulate \/ Returned \/ UNCHANGED vars
  BY <1>2, <1>11 DEF Simulate, Returned, vars, learning
<1> QED BY <1>3, <1>4, <1>5, <1>6, <1>7, <1>8, <1>9, <1>10, <1>11, <1>12 DEF Next

\* The same entries give the same functions.
LEMMA TemplateSame ==
  ASSUME UNCHANGED learning
  PROVE  \A i : TemplateOn(i)' = TemplateOn(i) /\ Finished(i)' = Finished(i)
BY DEF learning, TemplateOn, Finished, Rank

\* A template is built on its own as it will be in the final circuit.
LEMMA BuiltAlone ==
  ASSUME IInv, LearnByTemplate
  PROVE  po'[at] = Finished(at)' /\ \A i \in PO : i > at => po'[i] = {}
<1>1. PICK t \in Templates :
        /\ comcube_info' = Append(comcube_info, t.info) /\ cubes' = Append(cubes, t.cubes)
        /\ po' = [po EXCEPT ![at] = InvertIf(tendency[at], AddCompact(@, t.info, t.cubes))]
  BY DEF LearnByTemplate
<1>2. /\ cube_or_comcube' = Append(cube_or_comcube, TRUE) /\ TRUE \in BOOLEAN
      /\ pc = "learn" /\ at < NumPO /\ at' = at /\ tendency' = tendency
      /\ t.cubes \in CubesType /\ t.info \in ComcubeInfo
  BY CubesHaveType DEF LearnByTemplate
<1>3. /\ Len(cube_or_comcube) = at /\ at \in Nat
      /\ cubes'[at + 1] = t.cubes
      /\ Rank(cube_or_comcube', at + 1) = Rank(cube_or_comcube, at) + 1
  BY <1>1, <1>2, EntriesPushed
<1>4. at \in PO /\ po \in [PO -> OnSet] /\ po[at] = {} /\ \A i \in PO : i > at => po[i] = {}
  <2>1. at \in PO /\ po \in [PO -> OnSet]
    BY <1>2, <1>3, SimulationAssumption DEF PO, IInv, TypeOK
  <2>2. \A i \in PO : i >= at => po[i] = {}
    BY <1>2 DEF IInv, Built
  <2>3. \A i \in PO : i \in Nat
    BY SimulationAssumption DEF PO
  <2>4. at >= at
    BY <1>3
  <2>5. po[at] = {}
    BY <2>1, <2>2, <2>4
  <2>6. \A i \in PO : i > at => i >= at
    BY <1>3, <2>3
  <2>7. \A i \in PO : i > at => po[i] = {}
    BY <2>2, <2>6, Zenon
  <2> QED BY <2>1, <2>5, <2>7
<1>5. comcube_info'[Rank(cube_or_comcube, at) + 1] = t.info
  <2>1. Len(comcube_info) = Rank(cube_or_comcube, at) /\ comcube_info \in Seq(ComcubeInfo)
    BY <1>3 DEF IInv, Entries, TypeOK
  <2>2. comcube_info'[Len(comcube_info) + 1] = t.info
    BY <1>1, <1>2, <2>1, AppendProperties
  <2> QED BY <2>1, <2>2
<1>6. po'[at] = InvertIf(tendency[at], AddCompact({}, t.info, t.cubes))
  BY <1>1, <1>4
<1>7. TemplateOn(at)' = AddCompact({}, t.info, t.cubes)
  BY <1>2, <1>3, <1>5 DEF TemplateOn
<1>8. \A i \in PO : i > at => po'[i] = po[i]
  <2>1. PICK e : po' = [po EXCEPT ![at] = e]
    BY <1>1
  <2>2. \A i \in PO : i # at => po'[i] = po[i]
    BY <1>4, <2>1
  <2> QED BY <1>3, <2>2
<1> QED BY <1>2, <1>4, <1>6, <1>7, <1>8 DEF Finished

\* Every step keeps what the outputs compute while they are assembled.
LEMMA BuiltStep == IInv /\ [Next]_vars => Built'
<1> SUFFICES ASSUME IInv, [Next]_vars PROVE Built'
  OBVIOUS
<1>1. /\ Built /\ Entries /\ Expressions /\ Loops /\ at \in Nat /\ po \in [PO -> OnSet]
      /\ math_info \in Seq([pins : SUBSET PO, on : [PO -> OnSet]])
      /\ NumPO \in Nat /\ PO \subseteq Nat /\ \A i \in PO : i < NumPO /\ i \in Nat
  BY SimulationAssumption DEF IInv, TypeOK, PO
<1>2. CASE NoExpression \/ KeepExpression \/ DropExpression
  <2>1. pc' = "arith"
    BY <1>2 DEF NoExpression, KeepExpression, DropExpression
  <2> QED BY <2>1 DEF Built
<1>3. CASE Expression
  <2>1. OutputVars[at] \in SUBSET PO
    <3>1. OutputVars \in Seq(SUBSET PO)
      BY PipelineAssumption
    <3> QED BY <1>1, <1>3, <3>1 DEF Expression, Loops
  <2>2. PICK on \in [PO -> OnSet] :
          /\ math_info' = Append(math_info, [pins |-> OutputVars[at], on |-> on])
          /\ po' = AssignOutputs(po, [pins |-> OutputVars[at], on |-> on])
    BY <1>3, PipelineAssumption DEF Expression
  <2>3. PICK m \in [pins : SUBSET PO, on : [PO -> OnSet]] :
          m = [pins |-> OutputVars[at], on |-> on]
    BY <2>1
  <2>4. Len(math_info') = Len(math_info) + 1 /\ math_info'[Len(math_info) + 1] = m
    BY <1>1, <2>2, <2>3, AppendProperties
  <2>5. math_info'[Len(math_info')] = m
    BY <2>4
  <2>6. pc' = "try" /\ at' = at
    BY <1>3 DEF Expression
  <2>7. \A i \in OutputVars[at] : po'[i] = on[i]
    BY <2>1, <2>2 DEF AssignOutputs
  <2> QED BY <2>3, <2>5, <2>6, <2>7 DEF Built
<1>4. CASE StartLearning
  <2>1. pc' = "learn" /\ po' = [i \in PO |-> {}]
    BY <1>4 DEF StartLearning, NewNetwork
  <2> QED BY <2>1 DEF Built
<1>5. CASE SkipDone \/ LearnByBruteForce \/ LearnByFBDT
  <2>1. pc = "learn" /\ pc' = "learn" /\ po' = po /\ at' = at + 1
    BY <1>5 DEF SkipDone, LearnByBruteForce, LearnByFBDT
  <2> QED BY <1>1, <2>1 DEF Built
<1>6. CASE LearnByTemplate
  <2>1. pc' = "check" /\ at' = at
    BY <1>6 DEF LearnByTemplate
  <2>2. po'[at] = Finished(at)' /\ \A i \in PO : i > at => po'[i] = {}
    BY <1>6, BuiltAlone
  <2> QED BY <2>1, <2>2 DEF Built
<1>7. CASE KeepTemplate \/ DropTemplate
  <2>1. pc = "check" /\ pc' = "learn" /\ po' = po /\ at' = at + 1
    BY <1>7 DEF KeepTemplate, DropTemplate
  <2> QED BY <1>1, <2>1 DEF Built
<1>8. CASE ReadPla
  <2>1. /\ pc' = "groups" /\ at' = 0 /\ info_index' = 1 /\ UNCHANGED learning
        /\ \A i \in PO : cube_or_comcube[i + 1] => po'[i] = {}
    BY <1>8 DEF ReadPla
  <2>2. PICK f : f = cube_or_comcube' /\ Rank(f, 0) = 0
    BY RankStep
  <2>3. cube_or_comcube' = cube_or_comcube /\ \A i \in PO : ~ (i < 0)
    BY <1>1, <2>1 DEF learning
  <2> QED BY <2>1, <2>2, <2>3 DEF Built
<1>9. ASSUME UNCHANGED learning
      PROVE  /\ UNCHANGED <<tendency, po_done, math_info, cube_or_comcube>>
             /\ \A i : TemplateOn(i)' = TemplateOn(i) /\ Finished(i)' = Finished(i)
  BY <1>9, TemplateSame DEF learning
<1>10. CASE BuildGroup
  <2>1. /\ pc = "groups" /\ pc' = "groups" /\ at < NumPO /\ at' = at + 1
        /\ UNCHANGED learning
    BY <1>10 DEF BuildGroup
  <2>2. at \in PO
    BY <1>1, <2>1 DEF PO
  <2>3. CASE cube_or_comcube[at + 1]
    <3>1. /\ po' = [po EXCEPT ![at] = AddCompact(@, comcube_info[info_index], cubes[at + 1])]
          /\ info_index' = info_index + 1
      BY <1>10, <2>3 DEF BuildGroup
    <3>2. info_index = Rank(cube_or_comcube, at + 1)
      BY <2>1, <2>3, GroupAt
    <3>3. po[at] = {} /\ info_index = Rank(cube_or_comcube, at) + 1
      BY <1>1, <2>1, <2>2, <2>3 DEF Built
    <3>4. po'[at] = TemplateOn(at)
      BY <1>1, <2>2, <3>1, <3>2, <3>3 DEF TemplateOn
    <3>5. \A i \in PO : i # at => po'[i] = po[i]
      BY <1>1, <3>1
    <3>6. /\ \A i \in PO : cube_or_comcube[i + 1] =>
                           po[i] = IF i < at THEN TemplateOn(i) ELSE {}
          /\ \A i \in PO : i < at + 1 <=> i < at \/ i = at
      BY <1>1, <2>1 DEF Built
    <3>7. \A i \in PO : cube_or_comcube[i + 1] =>
                        po'[i] = IF i < at + 1 THEN TemplateOn(i) ELSE {}
      BY <3>4, <3>5, <3>6
    <3> QED BY <1>9, <2>1, <3>1, <3>2, <3>7 DEF Built
  <2>4. CASE ~cube_or_comcube[at + 1]
    <3>1. po' = po /\ info_index' = info_index
      BY <1>10, <2>4 DEF BuildGroup
    <3>2. Rank(cube_or_comcube, at + 1) = Rank(cube_or_comcube, at)
      BY <1>1, <2>4, RankStep
    <3>3. \A i \in PO : cube_or_comcube[i + 1] =>
                        po'[i] = IF i < at + 1 THEN TemplateOn(i) ELSE {}
      BY <1>1, <2>1, <2>4, <3>1 DEF Built
    <3> QED BY <1>1, <1>9, <2>1, <3>1, <3>2, <3>3 DEF Built
  <2> QED BY <2>3, <2>4
<1>11. CASE StartXors
  <2>1. pc = "groups" /\ at = NumPO /\ pc' = "xor" /\ po' = po /\ UNCHANGED learning
    BY <1>11 DEF StartXors
  <2> QED BY <1>1, <1>9, <2>1 DEF Built
<1>12. CASE BuildOutputXor
  <2>1. /\ pc = "xor" /\ pc' = "xor" /\ UNCHANGED learning /\ at \in DOMAIN xor_cubes
    <3>1. pc = "xor" /\ pc' = "xor" /\ UNCHANGED learning /\ at <= Len(xor_cubes)
      BY <1>12 DEF BuildOutputXor
    <3>2. at # 0 /\ xor_cubes \in Seq(XorRecord)
      BY <1>1, <3>1 DEF Loops, IInv, TypeOK, XorRecord
    <3> QED BY <1>1, <3>1, <3>2
  <2>2. PICK o : /\ ~cube_or_comcube[o + 1]
                 /\ \A i \in PO : i # o => po'[i] = po[i]
    <3>1. ~cube_or_comcube[xor_cubes[at].out + 1]
      BY <1>1, <2>1 DEF Entries
    <3> QED BY <1>1, <1>12, <3>1 DEF BuildOutputXor
  <2> QED BY <1>1, <1>9, <2>1, <2>2 DEF Built
<1>13. CASE StartInverting
  <2>1. pc = "xor" /\ pc' = "invert" /\ at' = 0 /\ po' = po /\ UNCHANGED learning
    BY <1>13 DEF StartInverting
  <2>2. \A i \in PO : ~ (i < 0)
    BY <1>1
  <2> QED BY <1>1, <1>9, <2>1, <2>2 DEF Built
<1>14. CASE Invert
  <2>1. /\ pc = "invert" /\ pc' = "invert" /\ at < NumPO /\ at' = at + 1
        /\ UNCHANGED learning /\ po' = [po EXCEPT ![at] = InvertIf(tendency[at], @)]
    BY <1>14 DEF Invert
  <2>2. at \in PO /\ \A i \in PO : i # at => po'[i] = po[i]
    BY <1>1, <2>1 DEF PO
  <2>3. cube_or_comcube[at + 1] => po'[at] = Finished(at)
    BY <1>1, <2>1, <2>2 DEF Built, Finished
  <2>4. \A i \in PO : i < at + 1 <=> i < at \/ i = at
    BY <1>1
  <2>5. \A i \in PO : cube_or_comcube[i + 1] =>
                      po'[i] = IF i < at + 1 THEN Finished(i) ELSE TemplateOn(i)
    BY <1>1, <2>1, <2>2, <2>3, <2>4 DEF Built
  <2> QED BY <1>9, <2>1, <2>5 DEF Built
<1>15. CASE StartAssigning
  <2>1. /\ pc = "invert" /\ pc' = "assign" /\ at = NumPO /\ at' = 1 /\ po' = po
        /\ UNCHANGED learning
    BY <1>15 DEF StartAssigning
  <2>2. \A k \in 1 .. Len(math_info) : ~ (k < 1)
    OBVIOUS
  <2> QED BY <1>1, <1>9, <2>1, <2>2 DEF Built
<1>16. CASE BuildExpression
  <2>1. /\ pc = "assign" /\ pc' = "assign" /\ at' = at + 1 /\ at <= Len(math_info)
        /\ UNCHANGED learning /\ po' = AssignOutputs(po, math_info[at])
    BY <1>16 DEF BuildExpression
  <2>2. Kept = 1 .. Len(math_info) /\ at \in 1 .. Len(math_info)
    BY <1>1, <2>1 DEF Kept, Loops
  <2>3. PICK m \in [pins : SUBSET PO, on : [PO -> OnSet]] : m = math_info[at]
    <3>1. math_info[at] \in [pins : SUBSET PO, on : [PO -> OnSet]]
      BY <1>1, <2>2, ElementOfSeq
    <3> QED BY <3>1
  <2>4. \A i \in PO : po'[i] = IF i \in m.pins THEN m.on[i] ELSE po[i]
    BY <2>1, <2>3 DEF AssignOutputs
  <2>5. \A i \in PO : cube_or_comcube[i + 1] => i \notin m.pins
    <3>1. Len(cube_or_comcube) = NumPO
      BY <2>1, PushedIs DEF IInv, TypeOK
    <3>2. \A i \in PO : i + 1 \in 1 .. NumPO /\ (i + 1) - 1 = i
      BY <1>1
    <3>3. \A i \in PO : cube_or_comcube[i + 1] => ~po_done[i]
      BY <1>1, <3>1, <3>2 DEF Entries
    <3>4. \A i \in PO : i \in m.pins => po_done[i]
      BY <1>1, <2>2, <2>3 DEF Expressions
    <3> QED BY <3>3, <3>4
  <2>6. ASSUME NEW k \in 1 .. Len(math_info), k < at + 1, NEW i \in math_info[k].pins
        PROVE  po'[i] = math_info[k].on[i]
    <3>1. i \in PO
      <4>1. math_info[k] \in [pins : SUBSET PO, on : [PO -> OnSet]]
        BY <1>1, ElementOfSeq
      <4> QED BY <4>1
    <3>2. CASE k = at
      BY <2>3, <2>4, <3>1, <3>2
    <3>3. CASE k # at
      <4>1. k < at
        BY <1>1, <2>6, <3>3
      <4>2. i \notin m.pins
        BY <1>1, <2>2, <2>3, <3>3 DEF Expressions
      <4>3. po[i] = math_info[k].on[i]
        BY <1>1, <2>1, <4>1 DEF Built
      <4> QED BY <2>4, <3>1, <4>2, <4>3
    <3> QED BY <3>2, <3>3
  <2>7. \A i \in PO : cube_or_comcube[i + 1] => po'[i] = Finished(i)
    BY <1>1, <2>1, <2>4, <2>5 DEF Built
  <2> QED BY <1>9, <2>1, <2>6, <2>7 DEF Built
<1>17. CASE StartDelivery \/ Deliver \/ Measure \/ Finish
  <2>1. /\ pc \in {"assign", "deliver", "measure"} /\ pc' \in {"deliver", "measure", "done"}
        /\ UNCHANGED <<learning, po, at>>
    BY <1>17 DEF StartDelivery, Deliver, Measure, Finish
  <2> QED BY <1>1, <1>9, <2>1 DEF Built
<1>18. CASE Simulate \/ Returned \/ UNCHANGED vars
  <2>1. UNCHANGED <<learning, po, at, info_index, pc>>
    BY <1>18 DEF Simulate, Returned, vars
  <2> QED BY <1>1, <1>9, <2>1 DEF Built
<1> QED BY <1>2, <1>3, <1>4, <1>5, <1>6, <1>7, <1>8, <1>10, <1>11, <1>12, <1>13, <1>14,
           <1>15, <1>16, <1>17, <1>18 DEF Next

\* Entries that are kept show what they showed.
LEMMA RecordedStays ==
  ASSUME IInv, UNCHANGED <<po_done, math_info, validated, tendency>>,
         pc # "try", pc' # "try", Settled \in Nat, Settled' \in Nat, Settled <= Settled',
         \A j \in 1 .. Settled : cube_or_comcube'[j] = cube_or_comcube[j],
         \A i \in Nat : i + 1 \in 1 .. Settled /\ cube_or_comcube[i + 1]
                        => Finished(i)' = Finished(i)
  PROVE  \A v \in validated : IsRecorded(v)'
<1> SUFFICES ASSUME NEW v \in validated PROVE IsRecorded(v)'
  OBVIOUS
<1>1. IsRecorded(v) /\ v[1] \in Nat
  BY SimulationAssumption DEF IInv, Recorded, TypeOK, PO
<1>2. Kept = 1 .. Len(math_info) /\ Kept' = 1 .. Len(math_info)
  BY DEF Kept
<1>3. CASE po_done[v[1]]
  <2>1. \E k \in Kept : v[1] \in math_info[k].pins /\ v[2] = math_info[k].on[v[1]]
    BY <1>1, <1>3 DEF IsRecorded
  <2> QED BY <1>2, <1>3, <2>1 DEF IsRecorded
<1>4. CASE ~po_done[v[1]]
  <2>1. PICK i \in Nat : i = v[1]
    BY <1>1
  <2>2. i + 1 \in 1 .. Settled /\ cube_or_comcube[i + 1] /\ v[2] = Finished(i)
    BY <1>1, <1>4, <2>1 DEF IsRecorded
  <2>3. i + 1 \in 1 .. Settled' /\ cube_or_comcube'[i + 1] /\ v[2] = Finished(i)'
    BY <2>2
  <2> QED BY <1>4, <2>1, <2>3 DEF IsRecorded
<1> QED BY <1>3, <1>4

\* What was validated stays recorded.
LEMMA RecordedStep == IInv /\ [Next]_vars => Recorded'
<1> SUFFICES ASSUME IInv, [Next]_vars PROVE Recorded'
  OBVIOUS
<1>1. /\ TypeOK /\ Built /\ Entries /\ Expressions /\ Loops /\ at \in Nat /\ NumPO \in Nat
      /\ math_info \in Seq([pins : SUBSET PO, on : [PO -> OnSet]])
      /\ Len(math_info) \in Nat /\ comcube_info \in Seq(ComcubeInfo)
  BY SimulationAssumption DEF IInv, TypeOK
<1>2. ASSUME NEW v \in validated
      PROVE  /\ IsRecorded(v) /\ v[1] \in PO
             /\ pc \in {"arith", "try"} => po_done[v[1]]
  <2>1. IsRecorded(v) /\ v[1] \in PO /\ v[1] \in Nat
    BY <1>1, <1>2 DEF IInv, Recorded, TypeOK, PO
  <2>2. pc \in {"arith", "try"} => Settled = 0
    BY <1>1, PushedIs DEF Settled, TypeOK
  <2> QED BY <2>1, <2>2 DEF IsRecorded
\* The loop of expressions.
<1>3. ASSUME pc \in {"arith", "try"}, validated' = validated,
             \A i \in PO : po_done[i] => po_done'[i],
             \A k \in Kept : k \in Kept' /\ math_info'[k] = math_info[k]
      PROVE  Recorded'
  <2> SUFFICES ASSUME NEW v \in validated PROVE IsRecorded(v)'
    BY <1>3 DEF Recorded
  <2>1. po_done[v[1]] /\ po_done'[v[1]]
    BY <1>2, <1>3
  <2>2. \E k \in Kept : v[1] \in math_info[k].pins /\ v[2] = math_info[k].on[v[1]]
    BY <1>2, <2>1 DEF IsRecorded
  <2> QED BY <1>3, <2>1, <2>2 DEF IsRecorded
<1>4. CASE NoExpression \/ StartLearning
  BY <1>3, <1>4 DEF NoExpression, StartLearning, learning, Kept
<1>5. CASE Expression
  <2>1. OutputVars[at] \in SUBSET PO
    <3>1. OutputVars \in Seq(SUBSET PO)
      BY PipelineAssumption
    <3> QED BY <1>1, <1>5, <3>1 DEF Expression, Loops
  <2>2. PICK m \in [pins : SUBSET PO, on : [PO -> OnSet]] : math_info' = Append(math_info, m)
    BY <1>5, <2>1, PipelineAssumption DEF Expression
  <2>3. /\ Len(math_info') = Len(math_info) + 1
        /\ \A k \in 1 .. Len(math_info) : math_info'[k] = math_info[k]
    BY <1>1, <2>2, AppendProperties
  <2>4. pc = "arith" /\ pc' = "try" /\ validated' = validated /\ po_done' = po_done
    BY <1>5 DEF Expression
  <2>5. Kept = 1 .. Len(math_info) /\ Kept' = 1 .. Len(math_info)
    BY <1>1, <2>3, <2>4 DEF Kept
  <2> QED BY <1>3, <2>3, <2>4, <2>5
<1>6. CASE KeepExpression
  <2>1. /\ pc = "try" /\ pc' = "arith" /\ math_info' = math_info
        /\ po_done' = [i \in PO |-> po_done[i] \/ i \in OutputVars[at]]
        /\ validated' = validated \cup {<<i, po[i]>> : i \in OutputVars[at]}
    BY <1>6 DEF KeepExpression
  <2>2. PICK L \in Nat \ {0} : L = Len(math_info) /\ math_info[L].pins = OutputVars[at]
    BY <1>1, <2>1 DEF Expressions
  <2>3. Kept = 1 .. L - 1 /\ Kept' = 1 .. L
    BY <2>1, <2>2 DEF Kept
  <2>4. ASSUME NEW v \in validated PROVE IsRecorded(v)'
    <3>1. po_done[v[1]] /\ po_done'[v[1]]
      BY <1>2, <2>1
    <3>2. PICK k \in Kept : v[1] \in math_info[k].pins /\ v[2] = math_info[k].on[v[1]]
      BY <1>2, <3>1 DEF IsRecorded
    <3>3. k \in Kept'
      BY <2>3
    <3> QED BY <2>1, <3>1, <3>2, <3>3 DEF IsRecorded
  <2>5. ASSUME NEW i \in OutputVars[at], NEW v, v = <<i, po[i]>> PROVE IsRecorded(v)'
    <3>1. i \in PO
      <4>1. OutputVars \in Seq(SUBSET PO)
        BY PipelineAssumption
      <4> QED BY <1>1, <2>1, <4>1 DEF Loops
    <3>2. po_done'[i] /\ L \in Kept'
      <4>1. po_done'[i] = (po_done[i] \/ i \in OutputVars[at])
        BY <2>1, <3>1, Zenon
      <4>2. i \in OutputVars[at] /\ L \in Kept'
        BY <2>3
      <4> QED BY <4>1, <4>2
    <3>3. i \in math_info'[L].pins
      BY <2>1, <2>2
    <3>4. po[i] = math_info'[L].on[i]
      BY <1>1, <2>1, <2>2 DEF Built
    <3>5. v[1] = i /\ v[2] = po[i]
      BY <2>5
    <3> QED BY <3>2, <3>3, <3>4, <3>5 DEF IsRecorded
  <2>6. \A v \in validated' : \/ v \in validated
                              \/ \E i \in OutputVars[at] : v = <<i, po[i]>>
    BY <2>1
  <2> QED BY <2>4, <2>5, <2>6 DEF Recorded
<1>7. CASE DropExpression
  <2>1. /\ pc = "try" /\ pc' = "arith" /\ math_info' = AllButLast(math_info)
        /\ po_done' = po_done /\ validated' = validated
    BY <1>7 DEF DropExpression
  <2>2. Len(math_info) # 0
    BY <1>1, <2>1 DEF Expressions
  <2>3. /\ Len(math_info') = Len(math_info) - 1
        /\ \A k \in 1 .. Len(math_info) - 1 : math_info'[k] = math_info[k]
    BY <1>1, <2>1, <2>2, AllButLastIs
  <2>4. Kept = 1 .. Len(math_info) - 1 /\ Kept' = 1 .. Len(math_info) - 1
    BY <2>1, <2>3 DEF Kept
  <2> QED BY <1>3, <2>1, <2>3, <2>4
\* The loop of outputs.
<1>8. ASSUME NEW b \in BOOLEAN, NEW c \in CubesType, pc = "learn",
             cube_or_comcube' = Append(cube_or_comcube, b), cubes' = Append(cubes, c),
             UNCHANGED <<po_done, math_info, validated, tendency>>,
             \/ pc' = "learn" /\ at' = at + 1
             \/ pc' = "check" /\ at' = at,
             \A k \in 1 .. Len(comcube_info) : comcube_info'[k] = comcube_info[k]
      PROVE  Recorded'
  <2>1. /\ Len(cube_or_comcube) = at
        /\ \A n \in 1 .. at : /\ cube_or_comcube'[n] = cube_or_comcube[n]
                              /\ cubes'[n] = cubes[n]
    BY <1>8, EntriesPushed
  <2>2. /\ Settled \in Nat /\ Settled' \in Nat /\ Settled <= Settled'
        /\ Settled = at
    BY <1>1, <1>8 DEF Settled
  <2>3. Len(comcube_info) = Rank(cube_or_comcube, at)
    BY <1>1, <2>1 DEF Entries
  <2>4. ASSUME NEW i \in Nat, i + 1 \in 1 .. Settled, cube_or_comcube[i + 1]
        PROVE  Finished(i)' = Finished(i)
    <3>1. i + 1 <= at /\ tendency' = tendency
      BY <1>8, <2>2, <2>4
    <3>2. \A k \in 1 .. Rank(cube_or_comcube, at) : comcube_info'[k] = comcube_info[k]
      BY <1>8, <2>3
    <3> QED BY <1>1, <2>1, <2>4, <3>1, <3>2, TemplateStays
  <2>5. \A v \in validated : IsRecorded(v)'
    BY <1>8, <2>1, <2>2, <2>4, RecordedStays
  <2> QED BY <1>8, <2>5 DEF Recorded
<1>9. CASE SkipDone \/ LearnByBruteForce \/ LearnByFBDT
  <2>1. PICK c \in CubesType : cubes' = Append(cubes, c)
    BY <1>9, CubesHaveType DEF SkipDone, LearnByBruteForce, LearnByFBDT
  <2>2. /\ FALSE \in BOOLEAN /\ cube_or_comcube' = Append(cube_or_comcube, FALSE)
        /\ pc = "learn" /\ pc' = "learn" /\ at' = at + 1 /\ comcube_info' = comcube_info
        /\ UNCHANGED <<po_done, math_info, validated, tendency>>
    BY <1>9 DEF SkipDone, LearnByBruteForce, LearnByFBDT
  <2> QED BY <1>8, <2>1, <2>2
<1>10. CASE LearnByTemplate
  <2>1. PICK t \in Templates :
          comcube_info' = Append(comcube_info, t.info) /\ cubes' = Append(cubes, t.cubes)
    BY <1>10 DEF LearnByTemplate
  <2>2. t.cubes \in CubesType /\ t.info \in ComcubeInfo
    BY CubesHaveType
  <2>3. \A k \in 1 .. Len(comcube_info) : comcube_info'[k] = comcube_info[k]
    BY <1>1, <2>1, <2>2, AppendProperties
  <2>4. /\ TRUE \in BOOLEAN /\ cube_or_comcube' = Append(cube_or_comcube, TRUE)
        /\ pc = "learn" /\ pc' = "check" /\ at' = at
        /\ UNCHANGED <<po_done, math_info, validated, tendency>>
    BY <1>10 DEF LearnByTemplate
  <2> QED BY <1>8, <2>1, <2>2, <2>3, <2>4
<1>11. CASE KeepTemplate
  <2>1. /\ pc = "check" /\ pc' = "learn" /\ at' = at + 1
        /\ validated' = validated \cup {<<at, po[at]>>}
        /\ UNCHANGED <<tendency, po_done, math_info, cube_or_comcube, cubes, comcube_info>>
    BY <1>11 DEF KeepTemplate
  <2>2. Kept' = Kept /\ Settled = at /\ Settled' = at + 1
    BY <2>1 DEF Kept, Settled
  <2>3. \A i : Finished(i)' = Finished(i)
    BY <2>1 DEF Finished, TemplateOn, Rank
  <2>4. ASSUME NEW v \in validated PROVE IsRecorded(v)'
    <3>1. \A n \in 1 .. at : n \in 1 .. at + 1
      BY <1>1
    <3> QED BY <1>2, <2>1, <2>2, <2>3, <3>1 DEF IsRecorded
  <2>5. ASSUME NEW v, v = <<at, po[at]>> PROVE IsRecorded(v)'
    <3>1. cube_or_comcube[at + 1] /\ po[at] = Finished(at)
      BY <1>1, <2>1 DEF Entries, Built
    <3>2. ~po_done[at]
      <4>1. at + 1 \in 1 .. Len(cube_or_comcube) /\ (at + 1) - 1 = at
        BY <1>1, <2>1, PushedIs DEF TypeOK
      <4> QED BY <1>1, <3>1, <4>1 DEF Entries
    <3>3. v[1] = at /\ v[2] = po[at]
      BY <2>5
    <3>4. at + 1 \in 1 .. at + 1
      BY <1>1
    <3> QED BY <2>1, <2>2, <2>3, <3>1, <3>2, <3>3, <3>4 DEF IsRecorded
  <2>6. \A v \in validated' : v \in validated \/ v = <<at, po[at]>>
    BY <2>1
  <2> QED BY <2>4, <2>5, <2>6 DEF Recorded
<1>12. CASE DropTemplate
  <2>1. /\ Len(cube_or_comcube) = at + 1
        /\ \A n \in 1 .. at : /\ cube_or_comcube'[n] = cube_or_comcube[n]
                              /\ cubes'[n] = cubes[n]
        /\ \A k \in 1 .. Rank(cube_or_comcube, at) : comcube_info'[k] = comcube_info[k]
    BY <1>12, EntriesReplaced
  <2>2. /\ pc = "check" /\ pc' = "learn" /\ at' = at + 1
        /\ UNCHANGED <<po_done, math_info, validated, tendency>>
    BY <1>12 DEF DropTemplate
  <2>3. /\ Settled \in Nat /\ Settled' \in Nat /\ Settled <= Settled'
        /\ Settled = at
    BY <1>1, <2>2 DEF Settled
  <2>4. ASSUME NEW i \in Nat, i + 1 \in 1 .. Settled, cube_or_comcube[i + 1]
        PROVE  Finished(i)' = Finished(i)
    <3>1. i + 1 <= at /\ tendency' = tendency
      BY <2>2, <2>3, <2>4
    <3> QED BY <1>1, <2>1, <2>4, <3>1, TemplateStays
  <2>5. \A v \in validated : IsRecorded(v)'
    BY <2>1, <2>2, <2>3, <2>4, RecordedStays
  <2> QED BY <2>2, <2>5 DEF Recorded
\* The assembly.
<1>13. ASSUME UNCHANGED learning, Kept' = Kept, Settled' = Settled
       PROVE  Recorded'
  <2>1. /\ UNCHANGED <<po_done, math_info, cube_or_comcube, validated>>
        /\ \A i : Finished(i)' = Finished(i)
    BY <1>13, TemplateSame DEF learning
  <2> QED BY <1>2, <1>13, <2>1 DEF Recorded, IsRecorded
<1>14. CASE ReadPla
  <2>1. pc = "learn" /\ at = NumPO /\ pc' = "groups" /\ UNCHANGED learning
    BY <1>14 DEF ReadPla
  <2>2. Len(cube_or_comcube) = at /\ cube_or_comcube' = cube_or_comcube
    BY <1>1, <2>1, PushedIs DEF TypeOK, learning
  <2>3. Kept' = Kept /\ Settled' = Settled
    BY <2>1, <2>2 DEF Kept, Settled, learning
  <2> QED BY <1>13, <2>1, <2>3
<1>15. CASE BuildGroup \/ StartXors \/ BuildOutputXor \/ StartInverting \/ Invert
  <2>1. /\ pc \notin {"try", "learn", "check"} /\ pc' \notin {"try", "learn", "check"}
        /\ UNCHANGED learning
    BY <1>15 DEF BuildGroup, StartXors, BuildOutputXor, StartInverting, Invert
  <2> QED BY <1>13, <2>1 DEF Kept, Settled, learning
<1>16. CASE \/ StartAssigning \/ BuildExpression \/ StartDelivery \/ Deliver \/ Measure
           \/ Finish
  <2>1. /\ pc \notin {"try", "learn", "check"} /\ pc' \notin {"try", "learn", "check"}
        /\ UNCHANGED learning
    BY <1>16
       DEF StartAssigning, BuildExpression, StartDelivery, Deliver, Measure, Finish
  <2> QED BY <1>13, <2>1 DEF Kept, Settled, learning
<1>17. CASE Simulate \/ Returned \/ UNCHANGED vars
  <2>1. UNCHANGED <<learning, at, pc>>
    BY <1>17 DEF Simulate, Returned, vars
  <2> QED BY <1>13, <2>1 DEF Kept, Settled, learning
<1> QED BY <1>4, <1>5, <1>6, <1>7, <1>9, <1>10, <1>11, <1>12, <1>14, <1>15, <1>16, <1>17
        DEF Next

-----------------------------------------------------------------------------
(* The outputs that were learned as cubes.                                 *)

\* What write_pla, and the exclusive-ors before the n-th, make of the entries of an
\* output, and what the output is at the end.
CubePart(i) == UNION {Region(cubes[i + 1][n]) : n \in DOMAIN cubes[i + 1]}
XorNode(xc) ==
  InvertIf(XorInvert(xc), {x \in Region(xc.s) : Parity(x, Free(xc.s)) = 1})
XorPart(i, n) ==
  {x \in Point : \E k \in DOMAIN xor_cubes :
                   k < n /\ xor_cubes[k].out = i /\ x \in XorNode(xor_cubes[k])}
Joint(i, n) == CubePart(i) \cup XorPart(i, n)
Assembled(i) == InvertIf(tendency[i], Joint(i, Len(xor_cubes) + 1))

\* The functions of these outputs, while they are assembled.
Plain ==
  /\ pc = "groups" => \A i \in PO : ~cube_or_comcube[i + 1] => po[i] = CubePart(i)
  /\ pc = "xor" => \A i \in PO : ~cube_or_comcube[i + 1] => po[i] = Joint(i, at)
  /\ pc = "invert" => \A i \in PO : ~cube_or_comcube[i + 1] =>
                        po[i] = IF i < at THEN Assembled(i)
                                ELSE Joint(i, Len(xor_cubes) + 1)
  /\ pc \in {"assign", "deliver", "measure", "done"} =>
       \A i \in PO : ByCubes(i) => po[i] = Assembled(i)

\* The same entries give the same functions.
LEMMA PartsSame ==
  ASSUME UNCHANGED learning
  PROVE  /\ \A i : /\ CubePart(i)' = CubePart(i) /\ Assembled(i)' = Assembled(i)
                   /\ ByCubes(i)' = ByCubes(i)
         /\ \A i, n : Joint(i, n)' = Joint(i, n)
<1>1. \A i, n : Joint(i, n)' = Joint(i, n) /\ CubePart(i)' = CubePart(i)
  BY DEF learning, Joint, CubePart, XorPart, XorNode, XorInvert
<1> QED BY <1>1 DEF learning, Assembled, ByCubes

\* One more exclusive-or is one more node in the functions of its output, and in those
\* of no other.
LEMMA OneMoreXor ==
  ASSUME IInv, at \in DOMAIN xor_cubes, NEW i \in PO
  PROVE  Joint(i, at + 1) = IF xor_cubes[at].out = i
                            THEN Joint(i, at) \cup XorNode(xor_cubes[at])
                            ELSE Joint(i, at)
<1>1. at \in Nat /\ DOMAIN xor_cubes \subseteq Nat
  BY DEF IInv, TypeOK
<1>2. \A k \in DOMAIN xor_cubes : k < at + 1 <=> k < at \/ k = at
  BY <1>1
<1>3. XorNode(xor_cubes[at]) \subseteq Point
  BY DEF XorNode, InvertIf, Region
<1>4. XorPart(i, at + 1) = IF xor_cubes[at].out = i
                           THEN XorPart(i, at) \cup XorNode(xor_cubes[at])
                           ELSE XorPart(i, at)
  <2>1. CASE xor_cubes[at].out = i
    BY <1>2, <1>3, <2>1 DEF XorPart
  <2>2. CASE xor_cubes[at].out # i
    BY <1>2, <2>2 DEF XorPart
  <2> QED BY <2>1, <2>2
<1> QED BY <1>4 DEF Joint

\* Every step keeps what these outputs compute while they are assembled.
LEMMA PlainStep == IInv /\ Plain /\ [Next]_vars => Plain'
<1> SUFFICES ASSUME IInv, Plain, [Next]_vars PROVE Plain'
  OBVIOUS
<1>1. /\ Plain /\ Entries /\ Expressions /\ Loops /\ at \in Nat /\ po \in [PO -> OnSet]
      /\ math_info \in Seq([pins : SUBSET PO, on : [PO -> OnSet]])
      /\ xor_cubes \in Seq(XorRecord)
      /\ NumPO \in Nat /\ PO \subseteq Nat /\ \A i \in PO : i < NumPO /\ i \in Nat
  BY SimulationAssumption DEF IInv, TypeOK, PO, XorRecord
<1>2. CASE pc' \in {"arith", "try", "learn", "check"}
  BY <1>2 DEF Plain
<1>3. CASE NoExpression \/ Expression \/ KeepExpression \/ DropExpression \/ StartLearning
  BY <1>2, <1>3
     DEF NoExpression, Expression, KeepExpression, DropExpression, StartLearning
<1>4. CASE SkipDone \/ LearnByBruteForce \/ LearnByFBDT \/ LearnByTemplate
           \/ KeepTemplate \/ DropTemplate
  BY <1>2, <1>4 DEF SkipDone, LearnByBruteForce, LearnByFBDT, LearnByTemplate,
                    KeepTemplate, DropTemplate
<1>5. ASSUME UNCHANGED learning
      PROVE  /\ UNCHANGED <<tendency, cube_or_comcube, xor_cubes>>
             /\ \A i : /\ CubePart(i)' = CubePart(i) /\ Assembled(i)' = Assembled(i)
                       /\ ByCubes(i)' = ByCubes(i)
             /\ \A i, n : Joint(i, n)' = Joint(i, n)
  BY <1>5, PartsSame DEF learning
<1>6. CASE ReadPla
  <2>1. /\ pc' = "groups" /\ UNCHANGED learning
        /\ po' = [i \in PO |-> IF cube_or_comcube[i + 1] THEN {} ELSE CubePart(i)]
    BY <1>6 DEF ReadPla, CubePart
  <2>2. \A i \in PO : ~cube_or_comcube[i + 1] => po'[i] = CubePart(i)
    BY <2>1
  <2> QED BY <1>5, <2>1, <2>2 DEF Plain
<1>7. CASE BuildGroup
  <2>1. pc = "groups" /\ pc' = "groups" /\ UNCHANGED learning
    BY <1>7 DEF BuildGroup
  <2>2. \A i \in PO : ~cube_or_comcube[i + 1] => po'[i] = po[i]
    <3>1. CASE cube_or_comcube[at + 1]
      <4>1. PICK e : po' = [po EXCEPT ![at] = e]
        BY <1>7, <3>1 DEF BuildGroup
      <4>2. \A i \in PO : i # at => po'[i] = po[i]
        BY <1>1, <4>1
      <4> QED BY <3>1, <4>2
    <3>2. CASE ~cube_or_comcube[at + 1]
      BY <1>7, <3>2 DEF BuildGroup
    <3> QED BY <3>1, <3>2
  <2> QED BY <1>1, <1>5, <2>1, <2>2 DEF Plain
<1>8. CASE StartXors
  <2>1. pc = "groups" /\ pc' = "xor" /\ at' = 1 /\ po' = po /\ UNCHANGED learning
    BY <1>8 DEF StartXors
  <2>2. \A i : Joint(i, 1) = CubePart(i)
    <3>1. \A k \in DOMAIN xor_cubes : ~ (k < 1)
      BY <1>1
    <3> QED BY <3>1 DEF Joint, XorPart
  <2> QED BY <1>1, <1>5, <2>1, <2>2 DEF Plain
<1>9. CASE BuildOutputXor
  <2>1. /\ pc = "xor" /\ pc' = "xor" /\ at' = at + 1 /\ UNCHANGED learning
        /\ at \in DOMAIN xor_cubes
    <3>1. /\ pc = "xor" /\ pc' = "xor" /\ at' = at + 1 /\ UNCHANGED learning
          /\ at <= Len(xor_cubes)
      BY <1>9 DEF BuildOutputXor
    <3>2. at # 0
      BY <1>1, <3>1 DEF Loops
    <3> QED BY <1>1, <3>1, <3>2
  <2>2. PICK xc \in XorRecord : xc = xor_cubes[at] /\ Free(xc.s) # {}
    <3>1. xor_cubes[at] \in XorRecord
      BY <1>1, <2>1, ElementOfSeq
    <3> QED BY <1>1, <2>1, <3>1 DEF Entries
  <2>3. po' = [po EXCEPT ![xc.out] = AddXor(po[xc.out], xc.s, XorInvert(xc))]
    BY <1>9, <2>2 DEF BuildOutputXor
  <2>4. xc.out \in PO /\ xc.s \in CubeString /\ XorInvert(xc) \in BOOLEAN
    BY DEF XorRecord, XorInvert
  <2>5. AddXor(po[xc.out], xc.s, XorInvert(xc)) = po[xc.out] \cup XorNode(xc)
    <3>1. po[xc.out] \in OnSet
      BY <1>1, <2>4
    <3> QED BY <2>2, <2>4, <3>1, AddXorIs DEF XorNode
  <2>6. \A i \in PO : po'[i] = IF i = xc.out THEN po[i] \cup XorNode(xc) ELSE po[i]
    BY <1>1, <2>3, <2>4, <2>5
  <2>7. \A i \in PO : Joint(i, at + 1) = IF xc.out = i THEN Joint(i, at) \cup XorNode(xc)
                                         ELSE Joint(i, at)
    BY <2>1, <2>2, OneMoreXor
  <2>8. \A i \in PO : ~cube_or_comcube[i + 1] => po'[i] = Joint(i, at + 1)
    BY <1>1, <2>1, <2>6, <2>7 DEF Plain
  <2> QED BY <1>5, <2>1, <2>8 DEF Plain
<1>10. CASE StartInverting
  <2>1. /\ pc = "xor" /\ pc' = "invert" /\ at' = 0 /\ po' = po /\ UNCHANGED learning
        /\ at > Len(xor_cubes)
    BY <1>10 DEF StartInverting
  <2>2. \A i : Joint(i, at) = Joint(i, Len(xor_cubes) + 1)
    <3>1. \A k \in DOMAIN xor_cubes : k < at /\ k < Len(xor_cubes) + 1
      BY <1>1, <2>1
    <3> QED BY <3>1 DEF Joint, XorPart
  <2>3. \A i \in PO : ~ (i < 0)
    BY <1>1
  <2>4. \A i \in PO : ~cube_or_comcube[i + 1] => po[i] = Joint(i, at)
    BY <1>1, <2>1 DEF Plain
  <2>5. \A i \in PO : ~cube_or_comcube[i + 1] => po[i] = Joint(i, Len(xor_cubes) + 1)
    BY <2>2, <2>4
  <2> QED BY <1>5, <2>1, <2>3, <2>5 DEF Plain
<1>11. CASE Invert
  <2>1. /\ pc = "invert" /\ pc' = "invert" /\ at < NumPO /\ at' = at + 1
        /\ UNCHANGED learning /\ po' = [po EXCEPT ![at] = InvertIf(tendency[at], @)]
    BY <1>11 DEF Invert
  <2>2. at \in PO /\ po'[at] = InvertIf(tendency[at], po[at])
        /\ \A i \in PO : i # at => po'[i] = po[i]
    BY <1>1, <2>1 DEF PO
  <2>3. \A i \in PO : ~cube_or_comcube[i + 1] =>
                      po[i] = IF i < at THEN Assembled(i) ELSE Joint(i, Len(xor_cubes) + 1)
    BY <1>1, <2>1 DEF Plain
  <2>4. ~cube_or_comcube[at + 1] => po'[at] = Assembled(at)
    BY <1>1, <2>2, <2>3 DEF Assembled
  <2>5. \A i \in PO : i < at + 1 <=> i < at \/ i = at
    BY <1>1
  <2>6. \A i \in PO : ~cube_or_comcube[i + 1] =>
                      po'[i] = IF i < at + 1 THEN Assembled(i)
                               ELSE Joint(i, Len(xor_cubes) + 1)
    BY <2>2, <2>3, <2>4, <2>5
  <2> QED BY <1>5, <2>1, <2>6 DEF Plain
<1>12. CASE StartAssigning
  <2>1. pc = "invert" /\ at = NumPO /\ pc' = "assign" /\ po' = po /\ UNCHANGED learning
    BY <1>12 DEF StartAssigning
  <2>2. \A i \in PO : ByCubes(i) => po[i] = Assembled(i)
    BY <1>1, <2>1 DEF Plain, ByCubes
  <2> QED BY <1>5, <2>1, <2>2 DEF Plain
<1>13. CASE BuildExpression
  <2>1. /\ pc = "assign" /\ pc' = "assign" /\ at <= Len(math_info)
        /\ UNCHANGED learning /\ po' = AssignOutputs(po, math_info[at])
    BY <1>13 DEF BuildExpression
  <2>2. at \in Kept
    BY <1>1, <2>1 DEF Kept, Loops
  <2>3. \A i \in PO : ByCubes(i) => i \notin math_info[at].pins
    BY <1>1, <2>2 DEF Expressions, ByCubes
  <2>4. \A i \in PO : ByCubes(i) => po'[i] = po[i]
    BY <2>1, <2>3 DEF AssignOutputs
  <2> QED BY <1>1, <1>5, <2>1, <2>4 DEF Plain
<1>14. CASE StartDelivery \/ Deliver \/ Measure \/ Finish
  <2>1. /\ pc \in {"assign", "deliver", "measure"} /\ pc' \in {"deliver", "measure", "done"}
        /\ UNCHANGED <<learning, po>>
    BY <1>14 DEF StartDelivery, Deliver, Measure, Finish
  <2> QED BY <1>1, <1>5, <2>1 DEF Plain
<1>15. CASE Simulate \/ Returned \/ UNCHANGED vars
  <2>1. UNCHANGED <<learning, po, at, pc>>
    BY <1>15 DEF Simulate, Returned, vars
  <2> QED BY <1>1, <1>5, <2>1 DEF Plain
<1> QED BY <1>3, <1>4, <1>6, <1>7, <1>8, <1>9, <1>10, <1>11, <1>12, <1>13, <1>14, <1>15
        DEF Next

\* A parity is a bit, and every point is in the cube of all points.
LEMMA ParityBit ==
  ASSUME NEW x, NEW s \in CubeString
  PROVE  Parity(x, Free(s)) \in {0, 1}
<1>1. PICK S : S = {j \in Free(s) : x[j] = "1"}
  OBVIOUS
<1>2. PICK n \in Int : S \subseteq 0 .. n
  <2>1. NumPI - 1 \in Int /\ S \subseteq 0 .. NumPI - 1
    BY <1>1, NumPIAssumption DEF Free, PI
  <2> QED BY <2>1
<1>3. Cardinality(S) \in Nat
  <2>1. 0 \in Int
    OBVIOUS
  <2> QED BY <1>2, <2>1, IntervalSubset, Zenon
<1>4. \A m \in Nat : (m % 2) \in {0, 1}
  OBVIOUS
<1> QED BY <1>1, <1>3, <1>4 DEF Parity

\* The node of an exclusive-or that is not inverted outside its cube: in the cube, it
\* is where the value differs from the tendency.
LEMMA XorNodeIs ==
  ASSUME NEW xc \in XorRecord, NEW x \in Point, tendency[xc.out] \in BOOLEAN,
         XorInvert(xc) => xc.s = AllFree
  PROVE  x \in XorNode(xc)
           <=> /\ Covers(xc.s, x)
               /\ ~ (XorValue(<<xc.s, xc.invert>>, x) <=> tendency[xc.out])
<1>1. xc.s \in CubeString /\ xc.invert \in {0, 1} /\ Parity(x, Free(xc.s)) \in {0, 1}
  BY ParityBit DEF XorRecord
<1>2. XorInvert(xc) => Covers(xc.s, x)
  BY DEF AllFree, Covers, PI
<1>3. x \in XorNode(xc) <=> IF XorInvert(xc)
                           THEN ~ (Covers(xc.s, x) /\ Parity(x, Free(xc.s)) = 1)
                           ELSE Covers(xc.s, x) /\ Parity(x, Free(xc.s)) = 1
  BY DEF XorNode, InvertIf, Region
<1>4. XorValue(<<xc.s, xc.invert>>, x)
        <=> ((Parity(x, Free(xc.s)) + xc.invert) % 2) = 1
  BY DEF XorValue
<1>5. \A p, b \in {0, 1} : ((p + b) % 2) = 1 <=> ~ (p = 1 <=> b = 1)
  OBVIOUS
<1>6. XorValue(<<xc.s, xc.invert>>, x)
        <=> ~ (Parity(x, Free(xc.s)) = 1 <=> xc.invert = 1)
  BY <1>1, <1>4, <1>5
<1> QED BY <1>2, <1>3, <1>6, Zenon DEF XorInvert

\* If no exclusive-or is inverted outside its cube, what was assembled is what was recorded.
LEMMA AssembledIsRecorded ==
  ASSUME IInv, NEW i \in PO, NEW x \in Point, ~InvertsOutside(i)
  PROVE  x \in Assembled(i) <=> x \in RecordedOn(i)
<1> DEFINE value(xc) == XorValue(xc, x)
           held == \E s \in CubesOf(i) : Covers(s, x)
<1>1. /\ tendency[i] \in BOOLEAN /\ xor_cubes \in Seq(XorRecord)
      /\ \A k \in DOMAIN xor_cubes : xor_cubes[k] \in XorRecord
  <2>1. xor_cubes \in Seq(XorRecord) /\ tendency[i] \in BOOLEAN
    BY DEF IInv, TypeOK, XorRecord
  <2> QED BY <2>1, ElementOfSeq
<1>2. x \in CubePart(i) <=> held
  BY DEF CubePart, CubesOf, Region
<1>3. ASSUME NEW k \in DOMAIN xor_cubes, xor_cubes[k].out = i
      PROVE  /\ <<xor_cubes[k].s, xor_cubes[k].invert>> \in XorsOf(i)
             /\ x \in XorNode(xor_cubes[k])
                  <=> /\ Covers(xor_cubes[k].s, x)
                      /\ ~ (value(<<xor_cubes[k].s, xor_cubes[k].invert>>) <=> tendency[i])
  <2>1. <<xor_cubes[k].s, xor_cubes[k].invert>> \in XorsOf(i)
    BY <1>3 DEF XorsOf
  <2>2. XorInvert(xor_cubes[k]) => xor_cubes[k].s = AllFree
    BY <1>3, <2>1 DEF InvertsOutside, XorInvert
  <2> QED BY <1>1, <1>3, <2>1, <2>2, XorNodeIs
<1>4. \A xc \in XorsOf(i) : \E k \in DOMAIN xor_cubes :
        xor_cubes[k].out = i /\ xc = <<xor_cubes[k].s, xor_cubes[k].invert>>
  BY DEF XorsOf
<1>5. x \in XorPart(i, Len(xor_cubes) + 1)
        <=> \E k \in DOMAIN xor_cubes : xor_cubes[k].out = i /\ x \in XorNode(xor_cubes[k])
  <2>1. \A k \in DOMAIN xor_cubes : k < Len(xor_cubes) + 1
    BY <1>1
  <2> QED BY <2>1 DEF XorPart
<1>6. x \in XorPart(i, Len(xor_cubes) + 1)
        <=> \E xc \in XorsOf(i) : Covers(xc[1], x) /\ ~ (value(xc) <=> tendency[i])
  <2> HIDE DEF value
  <2>1. ASSUME NEW k \in DOMAIN xor_cubes, xor_cubes[k].out = i, x \in XorNode(xor_cubes[k])
        PROVE  \E xc \in XorsOf(i) : Covers(xc[1], x) /\ ~ (value(xc) <=> tendency[i])
    <3>1. PICK xc \in XorsOf(i) : xc = <<xor_cubes[k].s, xor_cubes[k].invert>>
      BY <1>3, <2>1
    <3> QED BY <1>3, <2>1, <3>1
  <2>2. ASSUME NEW xc \in XorsOf(i), Covers(xc[1], x), ~ (value(xc) <=> tendency[i])
        PROVE  x \in XorPart(i, Len(xor_cubes) + 1)
    <3>1. PICK k \in DOMAIN xor_cubes :
            xor_cubes[k].out = i /\ xc = <<xor_cubes[k].s, xor_cubes[k].invert>>
      BY <1>4
    <3>2. x \in XorNode(xor_cubes[k])
      BY <1>3, <2>2, <3>1
    <3> QED BY <1>5, <3>1, <3>2
  <2> QED BY <1>5, <2>1, <2>2
<1>7. x \in Assembled(i)
        <=> ~ (held \/ (\E xc \in XorsOf(i) : /\ Covers(xc[1], x)
                                             /\ ~ (value(xc) <=> tendency[i]))
               <=> tendency[i])
  <2>1. x \in Assembled(i) <=> ~ (x \in Joint(i, Len(xor_cubes) + 1) <=> tendency[i])
    BY <1>1 DEF Assembled, InvertIf, Joint, CubePart, XorPart, Region
  <2> QED BY <1>2, <1>6, <2>1 DEF Joint
<1>8. x \in RecordedOn(i)
        <=> ~ (held \/ (\E xc \in XorsOf(i) : /\ Covers(xc[1], x)
                                             /\ ~ (value(xc) <=> tendency[i]))
               <=> tendency[i])
  <2>1. \A xc : XorValue(xc, x) \in BOOLEAN
    BY DEF XorValue
  <2> QED BY <1>1, <2>1 DEF RecordedOn, RecordedValue
<1> QED BY <1>7, <1>8

-----------------------------------------------------------------------------
(* The theorems.                                                           *)

\* The invariant is inductive.
LEMMA Inductive == Spec => []IInv
<1>1. Init => IInv
  BY InitIInv
<1>2. IInv /\ [Next]_vars => IInv'
  BY TypeStep, LoopsStep, ExpressionsStep, EntriesStep, BuiltStep, RecordedStep,
     SimulationStep, DeliveryStays DEF IInv
<1> QED BY <1>1, <1>2, PTL DEF Spec

\* Whatever the learners record, the results of main (lrg.cpp:386-598) have their types,
\* and there is one entry for each output that the loop has reached.
THEOREM TypeCorrect == Spec => []TypeOK
<1>1. IInv => TypeOK
  BY DEF IInv
<1> QED BY <1>1, Inductive, PTL

\* An expression or a template is kept exactly when it agrees with the black box on all
\* patterns drawn, for any size of the batches (simAig.cpp:71-200).
THEOREM VerdictsFit == Spec => []VerdictFits
<1>1. IInv => VerdictFits
  <2> SUFFICES ASSUME IInv, pc \in {"try", "check"}, left = 0
               PROVE  Valid(Candidate) <=> Agrees(po, Candidate)
    BY DEF VerdictFits
  <2>1. Candidate \in SUBSET PO
    BY CandidateType DEF IInv
  <2>2. PICK ids \in SUBSET PO : ids = Candidate
    BY <2>1
  <2>3. Valid(ids) <=> Agrees(po, ids)
    BY VerdictFollows DEF IInv, TypeOK
  <2> QED BY <2>2, <2>3
<1> QED BY <1>1, Inductive, PTL

\* The errors counted are those of the patterns taken and of fewer copies of one than
\* a batch has patterns (simAig.cpp:94-118).
THEOREM CountsAreBounded == Spec => []CountsBounded
<1>1. IInv => CountsBounded
  BY CountsFollow DEF IInv, TypeOK
<1> QED BY <1>1, Inductive, PTL

\* An expression or a template that passed is in the final circuit unchanged, whatever
\* was learned and dropped before and after it (lrg.cpp:438-454, 548-565, 575-598).
THEOREM ValidatedBuilt == Spec => []ValidatedIsBuilt
<1>1. IInv => ValidatedIsBuilt
  <2> SUFFICES ASSUME IInv, pc = "done", NEW v \in validated PROVE po[v[1]] = v[2]
    BY DEF ValidatedIsBuilt
  <2>1. IsRecorded(v) /\ v[1] \in PO /\ Built /\ at \in Nat /\ Len(math_info) \in Nat
        /\ at > Len(math_info)
    BY DEF IInv, Recorded, TypeOK, Loops
  <2>2. CASE po_done[v[1]]
    <3>1. PICK k \in 1 .. Len(math_info) :
            v[1] \in math_info[k].pins /\ v[2] = math_info[k].on[v[1]]
      BY <2>1, <2>2 DEF IsRecorded, Kept
    <3>2. k < at
      BY <2>1
    <3> QED BY <2>1, <3>1, <3>2 DEF Built
  <2>3. CASE ~po_done[v[1]]
    <3>1. cube_or_comcube[v[1] + 1] /\ v[2] = Finished(v[1])
      BY <2>1, <2>3 DEF IsRecorded
    <3> QED BY <2>1, <3>1 DEF Built
  <2> QED BY <2>2, <2>3
<1> QED BY <1>1, Inductive, PTL

\* The final circuit computes what was recorded for every output that was learned as
\* cubes, if no exclusive-or is inverted outside its cube (lrg.cpp:270-295, 575-598;
\* add_cube.cpp:81-121).
THEOREM PlainRecordedBuilt == Spec => []PlainRecordedIsBuilt
<1>1. Init => Plain
  BY DEF Init, Plain
<1>2. IInv /\ Plain => PlainRecordedIsBuilt
  <2> SUFFICES ASSUME IInv, Plain, pc = "done", NEW i \in PO,
                      ByCubes(i), ~InvertsOutside(i)
               PROVE  po[i] = RecordedOn(i)
    BY DEF PlainRecordedIsBuilt
  <2>1. po[i] = Assembled(i)
    BY DEF Plain
  <2>2. \A x \in Point : x \in Assembled(i) <=> x \in RecordedOn(i)
    BY AssembledIsRecorded
  <2>3. RecordedOn(i) \subseteq Point
    BY DEF RecordedOn
  <2>4. po[i] \subseteq Point
    BY DEF IInv, TypeOK, OnSet
  <2> QED BY <2>1, <2>2, <2>3, <2>4
<1> QED BY <1>1, <1>2, Inductive, PlainStep, PTL DEF Spec

\* Whatever the optimisation does to the circuit, and whatever files were left behind, the
\* circuit that is delivered is the smallest one that was written (lrg.cpp:600-648).
THEOREM SmallestIsDelivered == Spec => []SmallestDelivered
<1>1. IInv => SmallestDelivered
  <2> SUFFICES ASSUME IInv, stage = "delivered" PROVE SmallestDelivered
    BY DEF SmallestDelivered
  <2>1. HasResult /\ Pending = {}
    BY DEF HasResult, Pending
  <2> QED BY <2>1 DEF IInv, DeliveryFits, SmallestDelivered
<1> QED BY <1>1, Inductive, PTL
=============================================================================
