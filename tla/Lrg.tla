-------------------------------- MODULE Lrg --------------------------------
(***************************************************************************)
(* The pipeline of lrg, main() in src/src/lrg.cpp: outputs are solved as   *)
(* arithmetic expressions, by brute force, through a template of input     *)
(* groups, or by construct_cubes_FBDT; what was recorded about them is     *)
(* then assembled into one circuit. Expressions and templates are built    *)
(* and simulated on their own first, and taken back when they fail; the    *)
(* final circuit is simulated as well.                                     *)
(*                                                                         *)
(* What a learner finds is free within small sets. The optimisation of the *)
(* circuit and the choice among its files are those of Delivery.           *)
(***************************************************************************)
EXTENDS CompactCubes, Simulation, Delivery

CONSTANTS
  OutputVars,   \* output_vars: a sequence of sets of outputs
  Circuits,     \* the on-sets an arithmetic circuit may give each output
  Templates,    \* what a template may record: its groups, and compact cubes
  Minterms,     \* the cubes brute force may record
  FBDTResults   \* what FBDT may record: cubes, and xors as <<cube, invert>>

\* add_cone does not return when a compact cube has no literal, or the cube of an
\* exclusive-or no free input.
ASSUME PipelineAssumption ==
  /\ OutputVars \in Seq(SUBSET PO)
  /\ \A v, w \in DOMAIN OutputVars : v # w => OutputVars[v] \cap OutputVars[w] = {}
  /\ Circuits \subseteq [PO -> OnSet]
  /\ Templates \subseteq [info : ComcubeInfo, cubes : Seq(CompactString)]
  /\ \A t \in Templates : \A n \in DOMAIN t.cubes :
       \E k \in DOMAIN t.cubes[n] : t.cubes[n][k] # DontCare
  /\ Minterms \subseteq Seq(CubeString)
  /\ FBDTResults \subseteq [cubes : Seq(CubeString), xors : Seq(CubeString \X {0, 1})]
  /\ \A r \in FBDTResults : \A n \in DOMAIN r.xors : Free(r.xors[n][1]) # {}

VARIABLES
  tendency,         \* output_tendency
  po_done,          \* po_done
  math_info,        \* math_info: a sequence of [pins, on]
  cube_or_comcube,  \* cube_or_comcube: whether an output uses a template
  cubes,            \* cubes_and_comcubes_2abc
  comcube_info,     \* comcube_info: a sequence of ComcubeInfo
  xor_cubes,        \* xor_cubes: a sequence of [s, out, invert]
  po,               \* the functions of the outputs of the current network
  validated,        \* history: <<output, on-set>> that passed a simulation
  at,               \* the index of the loop that is running
  info_index,       \* comcube_info_index of build_circuit_with_group
  pc                \* "arith", "try" (line 445), "learn", "check" (line 560), "groups",
                    \* "xor", "invert", "assign", "deliver" (line 600),
                    \* "measure" (line 653) or "done"

learning == <<tendency, po_done, math_info, cube_or_comcube, cubes, comcube_info,
              xor_cubes, validated>>
vars == <<learning, po, at, info_index, pc, simulation, delivery>>

\* abc.init(): every output is constant 0.
NewNetwork == [i \in PO |-> {}]

Init ==
  /\ tendency \in [PO -> BOOLEAN]
  /\ po_done = [i \in PO |-> FALSE]
  /\ math_info = <<>>
  /\ cube_or_comcube = <<>>
  /\ cubes = <<>>
  /\ comcube_info = <<>>
  /\ xor_cubes = <<>>
  /\ po = NewNetwork
  /\ validated = {}
  /\ at = 1
  /\ info_index = 1
  /\ pc = "arith"
  /\ SimulationInit
  /\ DeliveryInit

-----------------------------------------------------------------------------
(* Lines 422-454: output variables as arithmetic expressions.              *)

\* assign_outputs: the old fanins of the outputs are replaced.
AssignOutputs(net, m) == [i \in PO |-> IF i \in m.pins THEN m.on[i] ELSE net[i]]

\* find_all_groups_v2 finds nothing, and takes its entry off math_info again.
NoExpression ==
  /\ pc = "arith"
  /\ at <= Len(OutputVars)
  /\ at' = at + 1
  /\ UNCHANGED <<learning, po, info_index, pc, simulation, delivery>>

\* Lines 438-445: an expression is found and built, and its simulation starts.
Expression ==
  /\ pc = "arith"
  /\ at <= Len(OutputVars)
  /\ \E on \in Circuits :
       LET m == [pins |-> OutputVars[at], on |-> on]
       IN  /\ math_info' = Append(math_info, m)
           /\ po' = AssignOutputs(po, m)
  /\ pc' = "try"
  /\ StartSimulation
  /\ UNCHANGED <<tendency, po_done, cube_or_comcube, cubes, comcube_info, xor_cubes,
                 validated, at, info_index, delivery>>

AllButLast(seq) == SubSeq(seq, 1, Len(seq) - 1)

\* Lines 446-449: its outputs are done.
KeepExpression ==
  /\ pc = "try"
  /\ EndSimulation
  /\ Valid(OutputVars[at])
  /\ po_done' = [i \in PO |-> po_done[i] \/ i \in OutputVars[at]]
  /\ validated' = validated \cup {<<i, po[i]>> : i \in OutputVars[at]}
  /\ at' = at + 1
  /\ pc' = "arith"
  /\ UNCHANGED <<tendency, math_info, cube_or_comcube, cubes, comcube_info, xor_cubes,
                 po, info_index, delivery>>

\* Line 452: its entry is taken off math_info again. The circuit stays.
DropExpression ==
  /\ pc = "try"
  /\ EndSimulation
  /\ ~Valid(OutputVars[at])
  /\ math_info' = AllButLast(math_info)
  /\ at' = at + 1
  /\ pc' = "arith"
  /\ UNCHANGED <<tendency, po_done, cube_or_comcube, cubes, comcube_info, xor_cubes,
                 validated, po, info_index, delivery>>

\* Lines 456-514.
StartLearning ==
  /\ pc = "arith"
  /\ at > Len(OutputVars)
  /\ po' = NewNetwork
  /\ at' = 0
  /\ pc' = "learn"
  /\ UNCHANGED <<learning, info_index, simulation, delivery>>

-----------------------------------------------------------------------------
(* Lines 515-572: the other outputs, one after the other.                  *)

XorEntries(i, xors) ==
  [k \in DOMAIN xors |-> [s |-> xors[k][1], out |-> i, invert |-> xors[k][2]]]

\* Mutant of SkipDone: the line "if (po_done[i]) continue" comes first.
SkipDoneEarly ==
  /\ pc = "learn"
  /\ at < NumPO
  /\ po_done[at]
  /\ at' = at + 1
  /\ UNCHANGED <<learning, po, info_index, pc, simulation, delivery>>

SkipDone ==
  /\ pc = "learn"
  /\ at < NumPO
  /\ po_done[at]
  /\ cube_or_comcube' = Append(cube_or_comcube, FALSE)
  /\ cubes' = Append(cubes, <<>>)
  /\ at' = at + 1
  /\ UNCHANGED <<tendency, po_done, math_info, comcube_info, xor_cubes, po,
                 validated, info_index, pc, simulation, delivery>>

LearnByBruteForce ==
  /\ pc = "learn"
  /\ at < NumPO
  /\ ~po_done[at]
  /\ cube_or_comcube' = Append(cube_or_comcube, FALSE)
  /\ \E m \in Minterms : cubes' = Append(cubes, m)
  /\ at' = at + 1
  /\ UNCHANGED <<tendency, po_done, math_info, comcube_info, xor_cubes, po,
                 validated, info_index, pc, simulation, delivery>>

\* No groups: construct_cubes_template returns false.
LearnByFBDT ==
  /\ pc = "learn"
  /\ at < NumPO
  /\ ~po_done[at]
  /\ cube_or_comcube' = Append(cube_or_comcube, FALSE)
  /\ \E r \in FBDTResults : /\ cubes' = Append(cubes, r.cubes)
                            /\ xor_cubes' = xor_cubes \o XorEntries(at, r.xors)
  /\ at' = at + 1
  /\ UNCHANGED <<tendency, po_done, math_info, comcube_info, po, validated,
                 info_index, pc, simulation, delivery>>

\* Lines 548-560: the template succeeds, is built on its own, and its simulation
\* starts.
LearnByTemplate ==
  /\ pc = "learn"
  /\ at < NumPO
  /\ ~po_done[at]
  /\ \E t \in Templates :
       /\ comcube_info' = Append(comcube_info, t.info)
       /\ cubes' = Append(cubes, t.cubes)
       /\ po' = [po EXCEPT ![at] =
                   InvertIf(tendency[at], AddCompact(@, t.info, t.cubes))]
  /\ cube_or_comcube' = Append(cube_or_comcube, TRUE)
  /\ pc' = "check"
  /\ StartSimulation
  /\ UNCHANGED <<tendency, po_done, math_info, xor_cubes, validated, at, info_index,
                 delivery>>

\* Line 560: the template passes.
KeepTemplate ==
  /\ pc = "check"
  /\ EndSimulation
  /\ Valid({at})
  /\ validated' = validated \cup {<<at, po[at]>>}
  /\ at' = at + 1
  /\ pc' = "learn"
  /\ UNCHANGED <<tendency, po_done, math_info, cube_or_comcube, cubes, comcube_info,
                 xor_cubes, po, info_index, delivery>>

\* Mutant of DropTemplate: its groups stay in comcube_info.
DropTemplateKeepsInfo ==
  /\ pc = "check"
  /\ EndSimulation
  /\ ~Valid({at})
  /\ cube_or_comcube' = Append(AllButLast(cube_or_comcube), FALSE)
  /\ \E r \in FBDTResults : /\ cubes' = Append(AllButLast(cubes), r.cubes)
                            /\ xor_cubes' = xor_cubes \o XorEntries(at, r.xors)
  /\ at' = at + 1
  /\ pc' = "learn"
  /\ UNCHANGED <<tendency, po_done, math_info, comcube_info, po, validated, info_index,
                 delivery>>

\* Lines 562-565: it does not, and FBDT takes over.
DropTemplate ==
  /\ pc = "check"
  /\ EndSimulation
  /\ ~Valid({at})
  /\ cube_or_comcube' = Append(AllButLast(cube_or_comcube), FALSE)
  /\ \E r \in FBDTResults : /\ cubes' = Append(AllButLast(cubes), r.cubes)
                            /\ xor_cubes' = xor_cubes \o XorEntries(at, r.xors)
  /\ comcube_info' = AllButLast(comcube_info)
  /\ at' = at + 1
  /\ pc' = "learn"
  /\ UNCHANGED <<tendency, po_done, math_info, po, validated, info_index, delivery>>

-----------------------------------------------------------------------------
(* Lines 575-598: the circuit is assembled.                                *)

\* write_pla and abc.read: the cubes of the outputs without a template.
ReadPla ==
  /\ pc = "learn"
  /\ at = NumPO
  /\ po' = [i \in PO |-> IF cube_or_comcube[i + 1]
                         THEN {}
                         ELSE UNION {Region(cubes[i + 1][n]) : n \in DOMAIN cubes[i + 1]}]
  /\ at' = 0
  /\ info_index' = 1
  /\ pc' = "groups"
  /\ UNCHANGED <<learning, simulation, delivery>>

\* One iteration of build_circuit_with_group.
BuildGroup ==
  /\ pc = "groups"
  /\ at < NumPO
  /\ IF cube_or_comcube[at + 1]
     THEN /\ po' = [po EXCEPT ![at] =
                      AddCompact(@, comcube_info[info_index], cubes[at + 1])]
          /\ info_index' = info_index + 1
     ELSE UNCHANGED <<po, info_index>>
  /\ at' = at + 1
  /\ UNCHANGED <<learning, pc, simulation, delivery>>

StartXors ==
  /\ pc = "groups"
  /\ at = NumPO
  /\ at' = 1
  /\ pc' = "xor"
  /\ UNCHANGED <<learning, po, info_index, simulation, delivery>>

\* cube.second ^ output_tendency[cube.second >> 1]
XorInvert(xc) == ~ (xc.invert = 1 <=> tendency[xc.out])

BuildOutputXor ==
  /\ pc = "xor"
  /\ at <= Len(xor_cubes)
  /\ LET xc == xor_cubes[at]
     IN  po' = [po EXCEPT ![xc.out] = AddXor(@, xc.s, XorInvert(xc))]
  /\ at' = at + 1
  /\ UNCHANGED <<learning, info_index, pc, simulation, delivery>>

StartInverting ==
  /\ pc = "xor"
  /\ at > Len(xor_cubes)
  /\ at' = 0
  /\ pc' = "invert"
  /\ UNCHANGED <<learning, po, info_index, simulation, delivery>>

Invert ==
  /\ pc = "invert"
  /\ at < NumPO
  /\ po' = [po EXCEPT ![at] = InvertIf(tendency[at], @)]
  /\ at' = at + 1
  /\ UNCHANGED <<learning, info_index, pc, simulation, delivery>>

StartAssigning ==
  /\ pc = "invert"
  /\ at = NumPO
  /\ at' = 1
  /\ pc' = "assign"
  /\ UNCHANGED <<learning, po, info_index, simulation, delivery>>

\* One iteration of build_circuit_with_group_v2.
BuildExpression ==
  /\ pc = "assign"
  /\ at <= Len(math_info)
  /\ po' = AssignOutputs(po, math_info[at])
  /\ at' = at + 1
  /\ UNCHANGED <<learning, info_index, pc, simulation, delivery>>

\* Line 598, and what follows it: the circuit is complete.
StartDelivery ==
  /\ pc = "assign"
  /\ at > Len(math_info)
  /\ WritePreOpt(math_info # <<>>, \E i \in PO : cube_or_comcube[i + 1])
  /\ pc' = "deliver"
  /\ UNCHANGED <<learning, po, at, info_index, simulation>>

Deliver ==
  /\ pc = "deliver"
  /\ DeliveryStep
  /\ UNCHANGED <<learning, po, at, info_index, pc, simulation>>

\* Line 653: the circuit is measured.
Measure ==
  /\ pc = "deliver"
  /\ stage = "delivered"
  /\ pc' = "measure"
  /\ StartSimulation
  /\ UNCHANGED <<learning, po, at, info_index, delivery>>

Finish ==
  /\ pc = "measure"
  /\ EndSimulation
  /\ pc' = "done"
  /\ UNCHANGED <<learning, po, at, info_index, delivery>>

-----------------------------------------------------------------------------
\* One batch of the simulation that is running.
Simulate ==
  /\ pc \in {"try", "check", "measure"}
  /\ SimulateBatch(po)
  /\ UNCHANGED <<learning, po, at, info_index, pc, delivery>>

Returned == pc = "done" /\ UNCHANGED vars

Next ==
  \/ NoExpression \/ Expression \/ KeepExpression \/ DropExpression \/ StartLearning
  \/ SkipDone \/ LearnByBruteForce \/ LearnByFBDT
  \/ LearnByTemplate \/ KeepTemplate \/ DropTemplate
  \/ ReadPla \/ BuildGroup \/ StartXors \/ BuildOutputXor \/ StartInverting \/ Invert
  \/ StartAssigning \/ BuildExpression \/ StartDelivery \/ Deliver \/ Measure \/ Finish
  \/ Simulate \/ Returned

Spec == Init /\ [][Next]_vars

-----------------------------------------------------------------------------
\* The outputs the loop of lines 515-572 has pushed an entry for.
Pushed == CASE pc \in {"arith", "try"} -> 0
            [] pc = "learn" -> at
            [] pc = "check" -> at + 1
            [] OTHER        -> NumPO

\* The results of main have their types and their lengths: one entry per output that
\* the loop of lrg.cpp:515-572 has reached.
TypeOK ==
  /\ tendency \in [PO -> BOOLEAN]
  /\ po_done \in [PO -> BOOLEAN]
  /\ math_info \in Seq([pins : SUBSET PO, on : [PO -> OnSet]])
  /\ cube_or_comcube \in Seq(BOOLEAN) /\ Len(cube_or_comcube) = Pushed
  /\ cubes \in Seq(Seq(CubeString \cup CompactString)) /\ Len(cubes) = Pushed
  /\ comcube_info \in Seq(ComcubeInfo)
  /\ xor_cubes \in Seq([s : CubeString, out : PO, invert : {0, 1}])
  /\ po \in [PO -> OnSet]
  /\ validated \in SUBSET (PO \X OnSet)
  /\ at \in Nat
  /\ info_index \in Nat
  /\ pc \in {"arith", "try", "learn", "check", "groups", "xor", "invert", "assign",
             "deliver", "measure", "done"}
  /\ SimulationTypeOK
  /\ DeliveryTypeOK

\* A circuit that passed its simulation on the way is in the final circuit
\* unchanged: the templates find their own groups in comcube_info again, whatever
\* templates were dropped in between, and the inversions of lines 595-596 do not
\* reach the arithmetic expressions.
ValidatedIsBuilt == pc = "done" => \A v \in validated : po[v[1]] = v[2]

\* What the simulation that is running decides about: an expression, or a template.
Candidate == CASE pc = "try"   -> OutputVars[at]
               [] pc = "check" -> {at}
               [] OTHER        -> {}

\* A circuit is kept when it agrees with the black box on all patterns drawn, and
\* only then, however they fill the batches: what fills up the last batch is wrong
\* only if a pattern is. (Without patterns, when the black box did not answer, it is
\* kept.)
VerdictFits ==
  pc \in {"try", "check"} /\ left = 0 => (Valid(Candidate) <=> Agrees(po, Candidate))

\* The counts of errors, which the accuracy that is printed is made of (simAig.cpp:
\* 30-36), are those of the patterns taken and of fewer than 64 copies of one.
CountsBounded ==
  pc \in {"try", "check", "measure"} =>
    /\ Copies \in 0 .. BatchBits - 1
    /\ \A o \in PO :
         incorrect[o] - Cardinality(WrongLines(po, {o})) \in {0, Copies}
    /\ unsatisfied - Cardinality(WrongLines(po, PO)) \in {0, Copies}

\* What FBDT or brute force recorded for output i.
XorsOf(i) ==
  {<<xor_cubes[k].s, xor_cubes[k].invert>> :
     k \in {kk \in DOMAIN xor_cubes : xor_cubes[kk].out = i}}
CubesOf(i) == {cubes[i + 1][n] : n \in DOMAIN cubes[i + 1]}
RecordedOn(i) ==
  {x \in Point : RecordedValue(CubesOf(i), XorsOf(i), tendency[i], x)}
ByCubes(i) == ~po_done[i] /\ ~cube_or_comcube[i + 1]

\* The circuit computes what was recorded, for every output that was learned as
\* cubes, whichever of them overlap ("criticalInput is fake. It indicates invert or
\* not", lrg.cpp:283: the bit inverts the exclusive-or in its cube).
RecordedIsBuilt ==
  pc = "done" => \A i \in PO : ByCubes(i) => po[i] = RecordedOn(i)

\* The same, but for outputs with an exclusive-or that is inverted and lies in a proper
\* part of the input space.
InvertsOutside(i) ==
  \E xc \in XorsOf(i) : ~ (xc[2] = 1 <=> tendency[i]) /\ xc[1] # AllFree
PlainRecordedIsBuilt ==
  pc = "done" =>
    \A i \in PO : ByCubes(i) /\ ~InvertsOutside(i) => po[i] = RecordedOn(i)
=============================================================================
