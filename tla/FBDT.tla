-------------------------------- MODULE FBDT --------------------------------
(***************************************************************************)
(* construct_cubes_FBDT (src/src/lrg.cpp): learn one primary output as a   *)
(* set of cubes. A queue of cubes is explored breadth first; each cube is  *)
(* sampled and then recorded as an exclusive-or, settled, or split on its  *)
(* critical input. Once the deadline of the output has passed nothing is   *)
(* split any more, and cubes are settled by their sampled or guessed       *)
(* tendency.                                                               *)
(*                                                                         *)
(* Each iteration of the loop is two steps: Guess or Sample (lines 264 to  *)
(* 280), then the branch taken on the result (lines 282 to 303).           *)
(***************************************************************************)
EXTENDS FindCritical, Sequences

CONSTANTS
  Oracles,     \* the functions the black box may compute for this output
  MaxDepth,    \* MAX_EXPLORATION_DEPTH
  MaxBudget    \* bound: calls of find_critical_input that beat the deadline

ASSUME OraclesAssumption == Oracles \subseteq [Point -> BOOLEAN]
ASSUME BoundsAssumption == MaxDepth \in Nat /\ MaxBudget \in Nat

VARIABLES
  oracle,      \* the function computed by the black box
  tendency,    \* output_tendency: the value of every point in no recorded cube
  queue,       \* cube_queue
  cube,        \* the local variable cube, whose _tend outlives the iterations
  info,        \* the result of find_critical_input
  budget,      \* calls of find_critical_input that still end before the deadline
  dead,        \* the global flag dead
  cubes,       \* cubes_and_comcubes_2abc[output_id], as a set of cube strings
  xor_cubes,   \* xor_cubes of this output: <<cube string, invert>>
  judged,      \* history: the cubes taken off the queue for good
  pc           \* "loop" (line 264), "decide" (line 282) or "done"

vars == <<oracle, tendency, queue, cube, info, budget, dead, cubes, xor_cubes,
          judged, pc>>

\* A judgement: a cube, the branch that settled it, and the value it was given.
Branch == {"guess", "xor", "converged", "cut"}
Judgement == [s : CubeString, by : Branch, val : BOOLEAN]
Judge(s, by, val) == judged' = judged \cup {[s |-> s, by |-> by, val |-> val]}

NoInfo == [isXor |-> FALSE, isConverged |-> FALSE, criticalInput |-> 0,
           cubeTendency |-> FALSE, negCofacTendency |-> FALSE,
           posCofacTendency |-> FALSE]

Init ==
  /\ oracle \in Oracles
  /\ tendency \in BOOLEAN
  /\ \E t \in BOOLEAN : cube = NewCube(t)
  /\ queue = <<cube>>
  /\ info = NoInfo
  /\ budget \in 0 .. MaxBudget
  /\ dead = FALSE
  /\ cubes = {}
  /\ xor_cubes = {}
  /\ judged = {}
  /\ pc = "loop"

\* cube = cube_queue.front()
Front == CopyAssign(cube, Head(queue))

\* Mutant of Guess: the queue is popped at the end of the iteration only.
GuessWithoutPop ==
  /\ pc = "loop"
  /\ queue # <<>>
  /\ dead /\ Front.tend # tendency
  /\ cube' = Front
  /\ cubes' = cubes \cup {Front.s}
  /\ Judge(Front.s, "guess", Front.tend)
  /\ UNCHANGED <<oracle, tendency, queue, info, budget, dead, xor_cubes, pc>>

\* Lines 271-274. After the deadline, the tendency of the cube is believed
\* without sampling when it differs from the default value of the output.
Guess ==
  /\ pc = "loop"
  /\ queue # <<>>
  /\ dead /\ Front.tend # tendency
  /\ cube' = Front
  /\ queue' = Tail(queue)
  /\ cubes' = cubes \cup {Front.s}
  /\ Judge(Front.s, "guess", Front.tend)
  /\ UNCHANGED <<oracle, tendency, info, budget, dead, xor_cubes, pc>>

\* Lines 276-280: sample the cube, then look at the clock.
Sample ==
  /\ pc = "loop"
  /\ queue # <<>>
  /\ ~(dead /\ Front.tend # tendency)
  /\ cube' = Front
  /\ queue' = Tail(queue)
  /\ \E draws \in [1 .. NumDraws -> Draw(Front.s)] :
       FindCriticalInput(oracle, Front, draws, info')
  /\ dead' = (dead \/ budget = 0)
  /\ budget' = (IF budget = 0 THEN 0 ELSE budget - 1)
  /\ pc' = "decide"
  /\ UNCHANGED <<oracle, tendency, cubes, xor_cubes, judged>>

RecordXor ==
  /\ pc = "decide"
  /\ info.isXor
  /\ xor_cubes' = xor_cubes \cup {<<cube.s, info.criticalInput>>}
  /\ Judge(cube.s, "xor", info.criticalInput = 1)
  /\ pc' = "loop"
  /\ UNCHANGED <<oracle, tendency, queue, cube, info, budget, dead, cubes>>

\* Mutant of Settle: the cubes with the default value are written down.
SettleDefault(by) ==
  /\ cubes' = IF info.cubeTendency = tendency THEN cubes \cup {cube.s} ELSE cubes
  /\ Judge(cube.s, by, info.cubeTendency)
  /\ pc' = "loop"
  /\ UNCHANGED <<oracle, tendency, queue, cube, info, budget, dead, xor_cubes>>

\* A cube is written down only when it differs from the default of the output.
Settle(by) ==
  /\ cubes' = IF info.cubeTendency # tendency THEN cubes \cup {cube.s} ELSE cubes
  /\ Judge(cube.s, by, info.cubeTendency)
  /\ pc' = "loop"
  /\ UNCHANGED <<oracle, tendency, queue, cube, info, budget, dead, xor_cubes>>

RecordConverged ==
  /\ pc = "decide"
  /\ ~info.isXor
  /\ info.isConverged
  /\ Settle("converged")

\* Mutant of TooDeep: the deadline is looked at before guesses only.
TooDeepByDepth == cube.size >= MaxDepth

\* Lines 291-294: too deep to split, or no time left.
TooDeep == cube.size >= MaxDepth \/ dead

RecordCut ==
  /\ pc = "decide"
  /\ ~info.isXor
  /\ ~info.isConverged
  /\ TooDeep
  /\ Settle("cut")

\* The two cofactors pushed by lines 297-302; cube is left equal to the second.
NegCofactor == SetTendency(Assign(cube, info.criticalInput, "0"), info.negCofacTendency)

\* Mutant of PosCofactor: the value is not changed.
PosCofactorOfZero ==
  SetTendency(Assign(NegCofactor, info.criticalInput, "0"), info.posCofacTendency)

PosCofactor ==
  SetTendency(Assign(NegCofactor, info.criticalInput, "1"), info.posCofacTendency)

Split ==
  /\ pc = "decide"
  /\ ~info.isXor
  /\ ~info.isConverged
  /\ ~TooDeep
  /\ queue' = Append(Append(queue, NegCofactor), PosCofactor)
  /\ cube' = PosCofactor
  /\ pc' = "loop"
  /\ UNCHANGED <<oracle, tendency, info, budget, dead, cubes, xor_cubes, judged>>

Finish ==
  /\ pc = "loop"
  /\ queue = <<>>
  /\ pc' = "done"
  /\ UNCHANGED <<oracle, tendency, queue, cube, info, budget, dead, cubes,
                 xor_cubes, judged>>

\* The function has returned.
Returned == pc = "done" /\ UNCHANGED vars

Next == \/ Guess \/ Sample \/ RecordXor \/ RecordConverged \/ RecordCut
        \/ Split \/ Finish \/ Returned

Spec == Init /\ [][Next]_vars

\* The loop is sequential code: it keeps running as long as it can step.
FairSpec == Spec /\ WF_vars(Next)

-----------------------------------------------------------------------------
\* The function the recorded cubes describe so far.
Learned(x) == RecordedValue(cubes, xor_cubes, tendency, x)

\* The cubes that are still to be judged: the queue, and the one in hand.
Queued == {queue[k] : k \in 1 .. Len(queue)}
Open == Queued \cup (IF pc = "decide" THEN {cube} ELSE {})

\* The variables of construct_cubes_FBDT have their types: every cube queued has a
\* tendency, and every result is one that find_critical_input may give.
TypeOK ==
  /\ oracle \in [Point -> BOOLEAN]
  /\ tendency \in BOOLEAN
  /\ queue \in Seq(Cube)
  /\ cube \in Cube
  /\ info \in CubeInfo
  /\ budget \in Nat
  /\ dead \in BOOLEAN
  /\ cubes \in SUBSET CubeString
  /\ xor_cubes \in SUBSET (CubeString \X {0, 1})
  /\ judged \in SUBSET Judgement
  /\ pc \in {"loop", "decide", "done"}

\* No point of the input space is lost on the way: whatever order cubes are
\* popped, split and pushed in, each point is in a cube still open or judged.
Coverage ==
  \A x \in Point : \/ \E c \in Open : Covers(c.s, x)
                   \/ \E j \in judged : Covers(j.s, x)

\* The counter of assigned inputs that Assign maintains agrees with the string,
\* so that test_dependency finds the neighbours of golden pattern i at index
\* i * (changeable + 1): what assert(idx <= changeable) (inputs.cpp:130) guards.
SizeIsAssigned == \A c \in Open : c.size = Cardinality(Assigned(c.s))

\* A cube with every input assigned is never queued: a cube with one free input
\* is always settled or an exclusive-or. AddXor would loop forever on it, its
\* add_cone having no fanin to combine (abc/src/selfdefined/add_cube.cpp:76).
NoFullCube ==
  /\ \A c \in Open : Free(c.s) # {}
  /\ \A xc \in xor_cubes : Free(xc[1]) # {}

\* The inversion recorded with an exclusive-or is the output at the corner of
\* its cube where the free inputs are 0: the lookup at inputs.cpp:212 hits an
\* entry of the hash.
XorAnchored ==
  \A xc \in xor_cubes : oracle[Corner(xc[1], "0")] = (xc[2] = 1)

\* What the branches may rely on in the result of find_critical_input: the
\* inversion of an exclusive-or is the output at the zero corner, and a cube that
\* is to be split keeps a free input besides the critical one.
InfoFits ==
  pc = "decide" =>
    /\ info.isXor =>
         /\ info.criticalInput \in {0, 1}
         /\ oracle[Corner(cube.s, "0")] = (info.criticalInput = 1)
    /\ ~info.isXor =>
         /\ info.criticalInput \in PI
         /\ ~info.isConverged => Free(cube.s) \ {info.criticalInput} # {}

\* Judgements whose samples cover the cube: at most three free inputs, without
\* tolerance, for a constant; at most two for an exclusive-or.
Exact(j) ==
  LET free == Cardinality(Free(j.s))
  IN  \/ j.by = "converged" /\ free <= 3 /\ NumPI - free < ExactDepth
      \/ j.by = "xor" /\ free <= 2

\* When every judgement was of that kind, the recorded cubes describe exactly
\* the function of the black box.
ExactWhenSmall ==
  (pc = "done" /\ \A j \in judged : Exact(j)) => \A x \in Point : Learned(x) = oracle[x]

\* A cube with at most two free inputs is split on one of them, never again on
\* an input it has assigned already: both cofactors are smaller than the cube.
SplitsSmallCubesFresh ==
  [][(Split /\ Cardinality(Free(cube.s)) <= 2) =>
       info.criticalInput \in Free(cube.s)]_vars

\* The loop ends, because the deadline puts an end to splitting.
Termination == <>(pc = "done")

\* What is left to do: before the deadline, two steps for each call that beats it, and
\* then two for each cube in the queue.
CallsLeft ==
  IF dead THEN 0 ELSE 2 * (budget + 1) + (IF pc = "decide" THEN 1 ELSE 0)
StepsLeft ==
  2 * Len(queue) + (CASE pc = "decide" -> 2 [] pc = "loop" -> 1 [] pc = "done" -> 0)

\* Why the loop ends, though a cube may be split into itself and its sibling: each step
\* uses up time before the deadline, or leaves the time alone and shortens the queue.
EndsNearer ==
  [][\/ CallsLeft' < CallsLeft
     \/ CallsLeft' = CallsLeft /\ StepsLeft' < StepsLeft]_vars

\* A cube that is believed without sampling is believed to have the tendency
\* its parent set for it before queueing it (lrg.cpp:298 and 301).
GuessFollowsSetTendency == [][Guess => Head(queue).tend = Front.tend]_vars

-----------------------------------------------------------------------------
(***************************************************************************)
(* The loop implements the abstract task of answering the input space.     *)
(***************************************************************************)
AnswerAt(j, x) ==
  IF j.by = "xor" THEN XorValue(<<j.s, IF j.val THEN 1 ELSE 0>>, x) ELSE j.val

Task == INSTANCE InputSpace WITH
  Points  <- Point,
  pending <- {x \in Point : \E c \in Open : Covers(c.s, x)},
  answers <- [x \in Point |-> {AnswerAt(j, x) : j \in {jj \in judged : Covers(jj.s, x)}}],
  learned <- [x \in Point |-> Learned(x)]

\* Every point is dropped with an answer, the recorded cubes give it a value it
\* was judged to have, and later steps do not change it behind its back.
ImplementsTask == Task!Spec
=============================================================================
