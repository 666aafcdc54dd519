----------------------------- MODULE Simulation -----------------------------
(***************************************************************************)
(* Simulation of the network on patterns the black box was asked about     *)
(* (src/src/simulator.h, abc_wrapper.cpp:364-411, abc/src/selfdefined/     *)
(* simAig.cpp and simMgr.h). The patterns are written to a file together   *)
(* with the answers, read back, and simulated a batch of 64 at a time; the *)
(* last batch is filled up with copies of a pattern.                       *)
(*                                                                         *)
(* Pairs are copied from the file the black box wrote as they are. When    *)
(* the box fails, nobody notices: the file is one of an earlier call, or   *)
(* there is none, and its pairs are simulated.                             *)
(***************************************************************************)
EXTENDS Network

CONSTANTS
  NumPO,      \* number of primary outputs
  BatchBits,  \* patterns simulated at a time (64)
  Boxes,      \* the black boxes: an on-set for each output
  Draws       \* the sequences of patterns the black box may have been asked about

PO == 0 .. NumPO - 1

ASSUME SimulationAssumption ==
  /\ NumPO \in Nat
  /\ BatchBits \in Nat \ {0}
  /\ Boxes \subseteq [PO -> OnSet]
  /\ Draws \subseteq Seq(Point)

VARIABLES
  box,          \* the functions of the black box
  fileString,   \* the lines of sim_pat.txt, all of them
  left,         \* how many of them are still to be taken, from the back
  batches,      \* the loop counter i of my_Abc_SimSomeOutputs
  incorrect,    \* for each output, the positions of the batches it is wrong at
  unsatisfied   \* positions of the batches with a wrong output

manager == <<fileString, left, batches, incorrect, unsatisfied>>
simulation == <<box, manager>>

NoErrors == [o \in PO |-> 0]

SimulationInit ==
  /\ box \in Boxes
  /\ fileString = <<>>
  /\ left = 0
  /\ batches = 0
  /\ incorrect = NoErrors
  /\ unsatisfied = 0

\* A line of the file: a pattern, and the outputs that are 1.
Line(x) == [in |-> x, out |-> {o \in PO : x \in box[o]}]

\* get_io_rel, parseOutputPatternToSim, initMgr and readPatternFile
StartSimulation ==
  /\ \E pats \in Draws \cup {<<>>} :
       /\ fileString' = [n \in DOMAIN pats |-> Line(pats[n])]
       /\ left' = Len(pats)
  /\ batches' = 0
  /\ incorrect' = NoErrors
  /\ unsatisfied' = 0
  /\ UNCHANGED box

\* Mutant of Batch: the rest of the batch is all zeros, patterns and answers.
BatchOfZeros ==
  [j \in 1 .. BatchBits |->
     IF j <= left THEN fileString[left + 1 - j]
                  ELSE [in |-> Corner(AllFree, "0"), out |-> {}]]

\* readPattern: lines are taken from the back. Once there are no more, the last
\* one taken is repeated, which is the first of the file.
Batch ==
  [j \in 1 .. BatchBits |->
     IF j <= left THEN fileString[left + 1 - j] ELSE fileString[1]]

Differs(net, o, line) == ~ (line.in \in net[o] <=> o \in line.out)
Wrong(net, o) == {j \in 1 .. BatchBits : Differs(net, o, Batch[j])}

\* Mutant of LeftOver: each batch pops one line only.
LeftOverOne == left - 1

LeftOver == IF left > BatchBits THEN left - BatchBits ELSE 0

\* One iteration: readPattern, simulateNode, comparePatternwithSimulation.
SimulateBatch(net) ==
  /\ left > 0
  /\ incorrect' = [o \in PO |-> incorrect[o] + Cardinality(Wrong(net, o))]
  /\ unsatisfied' = unsatisfied + Cardinality(UNION {Wrong(net, o) : o \in PO})
  /\ batches' = batches + 1
  /\ left' = LeftOver
  /\ UNCHANGED <<box, fileString>>

\* check_some_outputs_acc: an error rate, which is a count, is above 1e-4.
Valid(ids) == \A o \in ids : 10000 * incorrect[o] <= 1

\* The manager and what it read go out of scope.
EndSimulation ==
  /\ left = 0
  /\ fileString' = <<>>
  /\ left' = 0
  /\ batches' = 0
  /\ incorrect' = NoErrors
  /\ unsatisfied' = 0
  /\ UNCHANGED box

-----------------------------------------------------------------------------
SimulationTypeOK ==
  /\ box \in [PO -> OnSet]
  /\ fileString \in Seq([in : Point, out : SUBSET PO])
  /\ left \in 0 .. Len(fileString)
  /\ batches \in Nat
  /\ incorrect \in [PO -> Nat]
  /\ unsatisfied \in Nat

\* The network agrees with the black box on every pattern of the file.
Agrees(net, ids) ==
  \A n \in DOMAIN fileString, o \in ids :
    fileString[n].in \in net[o] <=> fileString[n].in \in box[o]

\* The lines that have been taken, and those of them with a wrong output in ids.
Taken == left + 1 .. Len(fileString)
WrongLines(net, ids) == {n \in Taken : \E o \in ids : Differs(net, o, fileString[n])}

\* Copies that fill up the last batch.
Copies == batches * BatchBits - Cardinality(Taken)
=============================================================================
