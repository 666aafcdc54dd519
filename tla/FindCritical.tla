---------------------------- MODULE FindCritical ----------------------------
(***************************************************************************)
(* One call of Inputs::find_critical_input on a cube (src/src/inputs.cpp): *)
(* sample the oracle on random patterns of the cube and on their           *)
(* neighbours, then decide whether the cube looks like an exclusive-or, is *)
(* settled (almost) constant, or has to be split, and on which input.      *)
(*                                                                         *)
(* The random patterns are a parameter (draws); whoever calls the operators*)
(* quantifies over all of them. The oracle is a function on points: the    *)
(* bit of one primary output.                                              *)
(***************************************************************************)
EXTENDS CubeSpace

CONSTANTS
  Pads,       \* values of the unused bits of a pattern's last 64-bit block
  OnesPad,    \* the value set_all() gives them
  ZerosPad,   \* the value reset_all() and the constructor give them
  NumDraws,   \* random golden patterns per call: 3 * FIND_CRITICAL_PAT_NUM - 2
  ExactDepth  \* cubes with fewer assigned inputs tolerate no minority (16)

ASSUME PadsAssumption == {OnesPad, ZerosPad} \subseteq Pads
ASSUME SamplingAssumption == NumDraws \in Nat /\ ExactDepth \in Int

(***************************************************************************)
(* test_dependency. The keys of the hash _ph are whole blocks, so patterns *)
(* that differ in the padding are different entries.                       *)
(***************************************************************************)
Draw(s) == [pad : Pads, bits : Region(s)]

Zeros(s) == [pad |-> ZerosPad, bits |-> Corner(s, "0")]
Ones(s)  == [pad |-> OnesPad,  bits |-> Corner(s, "1")]

\* The golden patterns of the three calls of test_dependency: the last one of
\* the 10% call is set_all(), the last one of the 90% call is reset_all().
GoldenIndex == 0 .. NumDraws + 1

\* Mutants of Goldens: without reset_all(), and without set_all().
GoldensWithoutZeros(s, draws) ==
  [k \in GoldenIndex |-> CASE k = 0            -> Ones(s)
                           [] k = NumDraws + 1 -> draws[1]
                           [] OTHER            -> draws[k]]
GoldensWithoutOnes(s, draws) ==
  [k \in GoldenIndex |-> CASE k = 0            -> draws[1]
                           [] k = NumDraws + 1 -> Zeros(s)
                           [] OTHER            -> draws[k]]

Goldens(s, draws) ==
  [k \in GoldenIndex |-> CASE k = 0            -> Ones(s)
                           [] k = NumDraws + 1 -> Zeros(s)
                           [] OTHER            -> draws[k]]

FlipEntry(e, i) == [e EXCEPT !.bits = Flip(@, i)]

\* A golden pattern is tested together with a copy for each free input flipped.
Ball(s, e) == {e} \cup {FlipEntry(e, i) : i \in Free(s)}
Tested(c, draws) ==
  IF c.size = NumPI
  THEN {Zeros(c.s)}
  ELSE UNION {Ball(c.s, Goldens(c.s, draws)[k]) : k \in GoldenIndex}

Toggles(oracle, e, i) == oracle[e.bits] # oracle[Flip(e.bits, i)]

\* is_xor: every flip of a free input that was tested changed the output.
LooksXor(oracle, c, draws) ==
  c.size # NumPI =>
    \A k \in GoldenIndex, i \in Free(c.s) :
      Toggles(oracle, Goldens(c.s, draws)[k], i)

\* _changes[i][out], counted by update(); an assigned input is never flipped.
Changes(oracle, c, draws, i) ==
  IF c.size = NumPI \/ i \notin Free(c.s)
  THEN 0
  ELSE Cardinality({k \in GoldenIndex : Toggles(oracle, Goldens(c.s, draws)[k], i)})

(***************************************************************************)
(* find_critical_input. The search for the critical input starts at input  *)
(* 0 and moves on a strictly larger count: it returns the smallest input   *)
(* with the largest count, which is 0 when no flip changed the output.     *)
(***************************************************************************)
\* Mutant of IsCritical: the comparison the wrong way round.
IsLeastCritical(oracle, c, draws, ci) ==
  \A i \in PI :
    LET here == Changes(oracle, c, draws, i)
        best == Changes(oracle, c, draws, ci)
    IN  here >= best /\ (i < ci => here > best)

IsCritical(oracle, c, draws, ci) ==
  \A i \in PI :
    LET here == Changes(oracle, c, draws, i)
        best == Changes(oracle, c, draws, ci)
    IN  here <= best /\ (i < ci => here < best)

Holding(oracle, ph, b) == {e \in ph : oracle[e.bits] = b}
Cofactor(ph, i, v) == {e \in ph : e.bits[i] = v}

Votes(oracle, ph, b) == Cardinality(Holding(oracle, ph, b))
Majority(oracle, ph) == Votes(oracle, ph, TRUE) > Votes(oracle, ph, FALSE)

\* Percentage of minority samples tolerated: 2^(depth-16) between depth 16 and 20.
Tolerance == <<1, 2, 4, 8, 16>>
TolerancePercent(depth) ==
  CASE depth < ExactDepth     -> 0
    [] depth > ExactDepth + 4 -> 20
    [] OTHER                  -> Tolerance[depth - ExactDepth + 1]
Threshold(ph, depth) == (Cardinality(ph) * TolerancePercent(depth)) \div 100

\* Mutants of Converged: a strict comparison, and (the line commented out at
\* inputs.cpp:242) a test of the zeros only.
ConvergedStrictly(oracle, ph, depth) ==
  \E b \in BOOLEAN : Votes(oracle, ph, b) < Threshold(ph, depth)
ConvergedToOne(oracle, ph, depth) ==
  Votes(oracle, ph, FALSE) <= Threshold(ph, depth)

Converged(oracle, ph, depth) ==
  \E b \in BOOLEAN : Votes(oracle, ph, b) <= Threshold(ph, depth)

\* struct CubeInfo, zeroed at the start of the call.
CubeInfo == [isXor : BOOLEAN, isConverged : BOOLEAN, criticalInput : Int,
             cubeTendency : BOOLEAN, negCofacTendency : BOOLEAN,
             posCofacTendency : BOOLEAN]

\* Mutant of XorInfo: no early return, the search for the critical input goes on.
XorInfoFallsThrough(oracle, c, draws, info) ==
  /\ LooksXor(oracle, c, draws)
  /\ \E ci \in PI :
       /\ IsCritical(oracle, c, draws, ci)
       /\ info = [isXor |-> TRUE, isConverged |-> FALSE, criticalInput |-> ci,
                  cubeTendency |-> FALSE, negCofacTendency |-> FALSE,
                  posCofacTendency |-> FALSE]

\* For an exclusive-or, criticalInput holds the value at the all-zeros corner,
\* read with operator[]: an entry that is not there would give an arbitrary bit.
XorInfo(oracle, c, draws, info) ==
  /\ LooksXor(oracle, c, draws)
  /\ \E v \in {0, 1} :
       /\ Zeros(c.s) \in Tested(c, draws) =>
            v = (IF oracle[Corner(c.s, "0")] THEN 1 ELSE 0)
       /\ info = [isXor |-> TRUE, isConverged |-> FALSE, criticalInput |-> v,
                  cubeTendency |-> FALSE, negCofacTendency |-> FALSE,
                  posCofacTendency |-> FALSE]

VoteInfo(oracle, c, draws, info) ==
  /\ ~LooksXor(oracle, c, draws)
  /\ \E ci \in PI :
       /\ IsCritical(oracle, c, draws, ci)
       /\ LET ph == Tested(c, draws)
          IN  info = [isXor |-> FALSE,
                      isConverged |-> Converged(oracle, ph, c.size),
                      criticalInput |-> ci,
                      cubeTendency |-> Majority(oracle, ph),
                      negCofacTendency |-> Majority(oracle, Cofactor(ph, ci, "0")),
                      posCofacTendency |-> Majority(oracle, Cofactor(ph, ci, "1"))]

FindCriticalInput(oracle, c, draws, info) ==
  XorInfo(oracle, c, draws, info) \/ VoteInfo(oracle, c, draws, info)
=============================================================================
