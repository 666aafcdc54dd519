# Verification of lrg (logic regression)

`lrg` (src/src) learns a circuit from a black box. It asks an external program
(`iogen`) for the outputs of input patterns it chooses, describes each primary
output by cubes, comparisons or arithmetic expressions, and has ABC (vendored in
src/abc, extended by src/abc/src/selfdefined) build and optimise a netlist. It is
a sequential program of about 3000 lines. What makes it hard to get right is not
concurrency but long sequences: cubes that are queued, split, re-split and settled
under a deadline; decisions from random samples; one global result record per
output that several learners fill, take back and fill again; and a circuit that is
assembled from these in a fixed order.

All paths below are relative to the repository.

## Inventory

| Component | State | Operations | Interaction |
|---|---|---|---|
| Pattern, Cube (pattern.h, pattern.cpp) | bit blocks; `_s`, `_size`, `_tend` | random, set, flip, compare; assign, setTendency, operator= | values passed everywhere; keys of `PatHash` |
| Inputs (inputs.cpp) | `_changes`, `_in_dep`, `_1_count`, `_ph` | test_dependency, update, find_critical_input, get_* | calls IO_Helper; used by FBDT, template, main |
| construct_cubes_FBDT (lrg.cpp:252) | `cube_queue`, `cube`, `info`, global `dead` | one loop | Inputs; writes cubes_and_comcubes_2abc, xor_cubes |
| construct_cubes_template (lrg.cpp:307), Group | groups, com_cube queue | find_all_groups, find_enabler, find_relation, gen_pat | writes comcube_info, cube_or_comcube |
| Group_v2 (group.cpp:190) | `_k`, `_ratio`, `_relation` | find_k, find_relation | writes math_info |
| Time sharing (lrg.cpp:377, 502) | `denom`, `deadline` | denominator loop, calc_time_for_output | read by FBDT |
| main (lrg.cpp:399) | `po_done`, tendencies, all result records, three files | expressions, sampling, per-output loop, assembly, optimisation, choice among the files | everything |
| Network construction (add_cube.cpp, abc_wrapper.cpp) | the current ABC network | InitCircuit, AddCubes, AddXor, InvertOutput, adders, comparators | called by main and Group |
| IO_Helper (io_helper.cpp) | files | get_io_rel, parse_output, write_pla | runs the black box with system() |
| Simulator, simAig.cpp | files, counters | simulate_some_outputs, comparePattern | verdict on expressions and templates |
| Parser, Variable | vars_with_same_len, output_vars | find_vars | input of grouping |

The hard behaviours, each at its line, are the "hazards" of PROJECT.json. The
correctness properties they call for:

- FBDT: no point of the input space is lost; the size counter is right; what it
  records fits the samples; it ends; it is exact where its samples suffice.
- Inputs: the zero corner is sampled (XOR lookup); a result can be acted upon.
- Time sharing: the denominator fits the outputs ahead; nobody starves.
- main: what was validated or recorded is what is built, whatever was dropped on
  the way.
- Brute force: the two records of dependency sampling agree; every assignment is tried
  once; the result is exact when no dependency was missed.
- Template: the second variable of a group is in no other one; what is asked of the black
  box is what the network will compute, but for groups written over; a cube that is fully
  sampled is not split into itself; the loop ends and its result is exact when the groups
  determine the output.
- gen_pat: the pattern drawn satisfies the comparator built; a pattern is found.
- Expressions: the circuit computes the constant plus the signed multiples found.
- Simulation: the verdict is that of the patterns drawn, whatever fills up the last
  batch; the counts of errors are off by less than a batch.
- Delivery: the circuit delivered is of this run, and the smallest that was written unless
  a move failed.
- Names: the bits of a variable are ordered by their numbers, most significant first.
- IO_Helper: every output of an answer is read at its own bit.

## Modules

**CubeSpace** -- points, cube strings and class `Cube`. A `Pattern` over the primary
inputs is a function from inputs to bits; the unused bits of its last 64-bit block,
which take part in hashing, are kept as a padding value (see FindCritical).
`CopyAssign` is `Cube::operator=`: it keeps the old `_tend`. `RecordedValue` is the
function that recorded cubes and exclusive-ors describe: they are combined by "or", so a
point has the complement of the tendency as soon as one record says so.

**FindCritical** -- one call of `Inputs::find_critical_input`. The black box is a
function `oracle` on points. `Goldens` are the golden patterns (random draws, the
forced all-ones of the 10% call, the forced all-zeros of the 90% call), `Ball` a
golden pattern with its neighbours, `Tested` the keys of `_ph`. `IsCritical`
mirrors the search that starts from input 0. `FindCriticalInput` relates cube,
draws and result; it has no state of its own, because `Inputs::reset()` precedes
each call.

**FBDT** -- `construct_cubes_FBDT`. Variables carry the names of the code. An
iteration is two steps, `Guess`/`Sample` and then the branch taken: `RecordXor`,
`RecordConverged`, `RecordCut`, `Split`. The constructor's uninitialised `_tend` is
a free choice. Wall-clock time appears as `budget`, the number of calls that still
end before the deadline, chosen freely at the start. `judged` is a history variable:
which cubes were settled, by which branch, with which value.

**InputSpace** -- what learning an output promises, without cubes and queues: a
point is dropped from the work only with an answer, and its learned value changes only
while it is worked on. FBDT implements it (`Task`): pending
points are those in an open cube, answers are the judgements covering a point, the
learned function is `RecordedValue`. `Reopen` is there because an assigned input
can be split again, so that points that were never dropped twice come back.

**TimeBudget** -- lrg.cpp:502-506, 377-383 and the main loop as far as time is
concerned. Time is an integer number of ticks; grants are rounded down (DISCOUNT
0.9 is the factor 9/10). `start`, `total` and `overrun` are history variables.
How long an output takes is free, up to `MaxOverrun` after its deadline, since
the template, simulations and one last call of find_critical_input do not look at
the clock.

**Network** -- how nodes are added to the network: `add_cone`, which combines its fanins
two by two in rounds and keeps an odd one over, and `my_Abc_AddXor` on top of it. A node
is its on-set. `Ascending` is a loop over inputs. `CubeSpace` is below it; Relations,
CompactCubes and Simulation are above it.

**CompactCubes** -- cubes over the comparators of groups and the inputs in no group
(an entry of comcube_info), and what `my_Abc_AddCubes` makes of them with add_cone. Used
by Lrg and Template.

**Simulation** -- one simulation of the network (simulator.h, simAig.cpp, simMgr.h):
`StartSimulation` asks the black box and reads the file, `SimulateBatch` is one iteration
over 64 patterns (`BatchBits`), `EndSimulation` lets the manager go. Patterns are taken
from the back of the file, and the last batch is filled up with the first line. The box
may fail: then there is no file, or the file of an earlier call is read, which the draws
include, or nothing is compared at all. It has no specification of its own; Lrg runs it.

**Delivery** -- lrg.cpp:600-648: the circuit is written to pre_opt.v, collapsed and
written to inter_opt.v unless a template or an expression is in it, optimised in rounds
and written to the name on the command line; then the file with the fewest gates is moved
there. ABC keeps the functions of the outputs; how many gates it leaves is free in each
step, and the number of AND nodes that the rounds compare is unrelated to the number of
gates in the files. `Leftovers` are the files that earlier runs left in the directory.
mv may fail though the file is there, and main goes on as if it had not (`MoveToResult`);
that ABC fails to write a file is left out. `written` and `mv_failed` are history
variables. Lrg runs it, as it does Simulation.

**Lrg** -- main: arithmetic expressions (lrg.cpp:422-454), the loop over outputs
(515-572), the assembly (575-598), the optimisation (600-648, Delivery) and the final
measurement (653). What a learner finds is chosen from small sets; what main does with it
is modelled line by line: entries pushed and popped, expressions and templates built on
their own and simulated against the black box, fallback to FBDT when an output is wrong,
PLA cubes, `build_circuit_with_group` with its own index into comcube_info, `AddXor`,
inversion by tendency, arithmetic outputs assigned last. `validated` is a history
variable. FBDT may record a cube twice with different results (when it splits at an input
it has assigned): `RecordedOn` combines them as the network does, so the records are
compared with the circuit at every point.

What Lrg assumes of the learners (`PipelineAssumption`) is what other modules show of
them: an exclusive-or has a free input (`NoFullCube` of FBDT, proved), and a compact cube
has a literal (`LiteralsWhenDetermined` of Template, where the groups determine the
output). add_cone does not return otherwise.

**Relations** -- the relations of enum.h, `Pattern::operator<`, and the comparators
of add_cube.cpp as on-sets, with their recursion from the most significant input.
Used by GenPat, Template and Arithmetic.

**Parser** -- Parser::find_vars and class Variable: trimming of names, grouping by what is
left, the order of the bits of a variable. A name is the sequence of its parts, a part its
length and its rank among the parts of that length, which is what Variable::compare looks
at. Used by Arithmetic.

**GenPat** -- one call of `Group::gen_pat`: one step per evaluation of a loop
condition, then the assignment to the inputs of the two variables. A pattern is a
block of `BlockBits` bits of which the first `Size` count; `ComparedBits` is the number
of bits that `operator==` looks at.

**Template** -- `construct_cubes_template`. The three loops of `find_all_groups` are
steps over the indices `at`; `Findable` are the relations that find_enabler and
find_relation may report for a pair of variables, from those samples the black box
can give (`Verdict` is the comparison of the three base values; that all samples of a
kind agree is the choice of one value for each). Patterns drawn in a relation are the
on-set of its comparator, which GenPat justifies for variables that leave bits of
their block unused. What the parser promises of the classes of variables is assumed
(`Variables`, in `TemplateAssumption`): those of a class are equally long, none is empty,
and no input is in two of them. The number of inputs is not bounded: main calls
it for outputs with more than 18 dependencies. Then the loop over compact cubes.
`answers` maps a compact pattern
to what the black box may answer for it, over all the input patterns transform_pattern
may draw. A call of find_critical_input is abstracted to its possible outcomes:
converged on a value that both corners and their neighbours may show, or from
`exact_depth` on (16 in the code, inputs.cpp:234-241), where a minority is tolerated, on
any value that a pattern of the cube may show (`Tolerant`); or both values
seen, with a critical bit whose flip may change the output, or the first bit when
nothing around the corners changes. The two depths are parameters of a behaviour (`built`),
so that an instance can reach them. The tendency of compact cubes is left out, as this
loop never reads it. Queues longer than `MaxQueue` end the behaviour in `pc = "flooded"`;
that is as many cubes as there are compact patterns, or `QueueBound` where the groups do
not determine the output and nothing is claimed of how the loop ends.

**BruteForce** -- dependency sampling (lrg.cpp:456-471 with `update`), the dependency
sets, ranking and tendencies, and brute force (lrg.cpp:523-542). `sort` is any order
with falling counts, chosen anew for the call of get_sig_in. Outputs solved by an
expression are left out (Lrg has them), and those with more dependencies than
`Depth` are only passed over. The model is concerned with which patterns were asked
and recorded, so the call of get_sig_in at lrg.cpp:523, whose result only FBDT
receives and ignores, is not a step. What the black box answers is read through
`ParseOutput`, block by block (`BlockBits` outputs each), as parse_output does it.

**Arithmetic** -- from names to a circuit, for one output variable: the variables that
Parser finds, the longest input variables and the output variable that main picks, then
Group_v2 (the constant k, and for each input variable ratio, check on samples and sign),
and build_arithmetic_circuit. A vector is a sequence of on-sets, most significant first;
adders work on `Weighted` bits, which pads the shorter operand as the code does.

**MCFBDT, MCTimeBudget, MCLrg, MCTemplate, MCGenPat, MCBruteForce, MCArithmetic** --
instances for TLC.

**FBDT_proofs, TimeBudget_proofs, Network_proofs, GenPat_proofs, Template_proofs,
Lrg_proofs, BruteForce_proofs, Arithmetic_proofs** -- proofs, each about the module it is
named after. FBDT_proofs also has the lemmas about FindCritical and CubeSpace,
Network_proofs those about CompactCubes and Relations and those that make recursive
functions accessible, and Arithmetic_proofs those about Parser.

In the modules, a definition introduced as "Mutant of X" is X with a plausible
mistake. No specification uses them; replacing X by one of them shows that a
property notices the mistake.

## Runs

| Run | What it shows | Bounds, and why they are enough |
|---|---|---|
| fbdt_safety | `TypeOK`, `Coverage`, `SizeIsAssigned`, `NoFullCube`, `XorAnchored`, `InfoFits`, `ExactWhenSmall`, `SplitsSmallCubesFresh` | all 256 functions of 3 inputs, both tendencies, deadline at any of the first 8 calls or never in effect; 1 random golden pattern beside the two forced ones, with two padding values. Three inputs give cubes with 3, 2 and 1 free inputs, the sizes at which the sampling argument changes. |
| fbdt_task | `Termination`, `EndsNearer`, `ImplementsTask` | 4 inputs, 8 functions picked for the branches they reach, among them two for which input 0 is split again and again until the deadline; `ExactDepth` -4, so that tolerances of 16% and 20% are in effect, MAX_EXPLORATION_DEPTH 2. |
| fbdt_stale_tendency | `GuessFollowsSetTendency` is violated | 3 inputs |
| budget | `TypeOK`, `DenominatorCountsAhead`, `DeadlineBeforeHorizon`, `NoStarvation` | 4 outputs with 5, 19 or 63 dependencies (brute force; below and above MAX_DEP), any of them solved before, 20 ticks, lateness up to 3 |
| budget_overrun | `DeadlineWithinTimeLimit` is violated | 3 outputs with up to 130 dependencies |
| assembly | `TypeOK`, `ValidatedIsBuilt`, `PlainRecordedIsBuilt`, `VerdictFits`, `CountsBounded`, `SmallestDelivered` | 3 outputs, so that a template can be dropped between two others; 3 inputs; two expressions, two templates, five FBDT results, in one of which a cube and an exclusive-or cover the same points; two black boxes, which make each of them right or wrong; batches of 3 and draws of 1 to 4 patterns or none, so that a batch is partly filled, full, and followed by another one; 1 or 2 gates in any file, so that every comparison of files can come out either way, a directory that is empty or holds all three files of an earlier run, and any move failing |
| assembly_inverted_xor | `RecordedIsBuilt` is violated | as assembly |
| brute_force | `TypeOK`, `EveryAssignmentOnce`, `ExactWhenDependenciesFound`, `RankingAgrees` | 3 inputs, 2 outputs from 7 functions of 0 to 3 inputs, and with blocks of 2 bits a third one beyond the first block; 3 calls of test_dependency (one for each ratio) with 2 golden patterns each, which is few enough to miss dependencies, and depth 2, so that one output may be brute-forced and the other not |
| arithmetic | `TypeOK`, `WideEnough`, `CircuitIsSum`, `ExactOnSums`, `MostSignificantFirst` | 5 inputs and 4 outputs, five namings of inputs and three of outputs: numbers out of order, of different lengths or missing, a delimiter twice or none, three bits in one variable or no variable at all; two input variables of 2 bits and an output of 3 bits: all 512 sums modulo 8, so that all signs, zero ratios, and wrap-arounds happen; sums of 4 bits; six functions that are not sums; any set of samples |
| genpat | `TypeOK`, `CircuitSeesDrawn`, `Returns` | pairs of variables of 1 and 2 bits in blocks of 3; all relations, satisfied or not; all contents of the blocks |
| genpat_whole_block | `Returns` is violated | variables of 2 bits in blocks of 2, LARGER_THAN as find_relation asks for it |
| template | `TypeOK`, `SecondsGroupedOnce`, `AskedIsBuilt`, `ExactWhenDetermined`, `LiteralsWhenDetermined`, `ReturnsWhenDetermined`, `SplitsFresh` | 4 variables of 1 bit, which gives no group, one (three compact inputs), two apart (two compact inputs) or several that share a variable and write over each other; 5 functions: constant, one relation and an input, two relations apart, two with a common variable, a relation in one context only; the depths of the code (25 and 16) and 2 and 1, at which cubes are cut and a minority is tolerated; queues of 2 where the groups do not determine the output (`QueueBound`). `ExactWhenDetermined`, `LiteralsWhenDetermined` and `ReturnsWhenDetermined` are stated for at most three compact inputs, where the corners and their neighbours are the whole cube; the first also for depths that are not below their number, since the samples of a deeper cube are believed without agreeing. |

### Disagreements between code and intent

1. `Cube::operator=` (pattern.h:114) does not copy `_tend`. After the deadline,
   lrg.cpp:271 believes the tendency left in the local variable by the last split
   (or an uninitialised value), not the one set for the cube at lines 298 and 301.
2. `calc_time_for_output` (lrg.cpp:381) clamps the dependency count in the
   denominator and not in the numerator. With 64 dependencies or more an output is
   granted a multiple of its share, and the deadline passes the time limit.
3. `my_Abc_AddXor` (add_cube.cpp:192) inverts the conjunction of cube and
   exclusive-or. An inverted exclusive-or in a proper subcube sets the output to 1
   (before the inversion by tendency) on every point outside the cube.

4. `Pattern::operator==` (pattern.cpp:61) compares no bit of the last block for
   patterns whose size is a multiple of 64 (and, with the shift of an int as x86 does
   it, 32 modulo 64): they are all equal. `gen_pat` then waits for ever for a pattern
   that is larger than another one (group.cpp:72), which find_relation asks for.

Some weaknesses are stated as the limits of properties. Properties of
Template (but `TypeOK`, `SecondsGroupedOnce`, `AskedIsBuilt` and `SplitsFresh`) hold where
the groups do not share a variable (`Disjoint`) and determine the output; nothing in the
code makes sure of it, and main relies on the simulation that
follows to drop a template that is wrong. And where the groups do not determine the
output, full compact cubes may disagree for ever, which the deadline does not end,
since this loop never looks at it (`pc = "flooded"`). `parse_output` (io_helper.cpp:83-99)
does not start its bit at 1 again in the second block of outputs, so outputs from number
64 on are read as 0; `ExactWhenDependenciesFound` is stated for outputs of the first
block, beyond which it fails. A move of a file that fails is not noticed: the number of
gates printed is then that of a circuit that was not delivered. A candidate that is
simulated on no pattern at all, because the black box failed,
is kept: `VerdictFits` holds of it because the empty file refutes nothing.

### Fairness

The program is one sequential thread. FBDT's `FairSpec` is weak fairness of the whole
next-state relation: the loop goes on as long as it can step. That the deadline
passes after finitely many calls is the meaning of `budget`; real time does pass,
and every call of find_critical_input takes some. Termination does depend on it:
with the default critical input 0 a cube may be split into itself without end
otherwise. Template's `FairSpec` is the same, without a deadline: the code has none there.
GenPat adds strong fairness of `Accept` to it: random numbers do not avoid for ever the
patterns a loop waits for, if there are any. No other module states liveness.

## Proofs

All statements are for every value of the constants that satisfies the named
assumptions. Every invariant and every action property of the runs that pass is proved;
what is only model-checked is listed at the end.

### Recursion and cones (Network_proofs)

Induction over an operator is out of the prover's reach, but a set of numbers that is
closed under successor is all of them, and a function equal to its own recursive equation
exists (`Iterate`); the first lemmas state this for sets, and the others instantiate the
set. `AddConeAnd`, `AddConeOr` and `AddConeXor` say what the cones of add_cone compute,
for any number of fanins. The argument is that a round keeps the value of the whole and,
while there are two fanins or more, leaves fewer of them. `AddXorIs` and `AddCompactIs`
put together from them what my_Abc_AddXor and my_Abc_AddCubes do; the first is also the
third disagreement above in general form. The comparators are shown to compare numbers
(`FanoutIs`): the first input, from the most significant one, at which two variables
differ decides, in the recursion of the circuit as in the comparison.

### FBDT (FBDT_proofs)

The lemmas about sampling: assignment preserves the agreement of counter and string
(`AssignKeepsSize`), cofactors cover their cube (`CofactorsCover`), samples of a cube lie
in the cube (`SamplesOfCube`), an exclusive-or result carries the value at the zero corner
(`XorResult`), a cube with one free input that is not an exclusive-or is sampled constant
(`OneFreeInputConstant`), hence a result that asks for a split leaves a free input
besides the critical one (`VoteResult`).

`IInv` is `TypeOK`, `NoFullCube`, `InfoFits` and `XorAnchored`, which are inductive only
together. That a split queues no full cube needs `InfoFits` from the step before:
a free input is left besides the critical one. `InfoFits` after sampling needs that
the cube sampled is not full (`NoFullCube`). That the cofactors are cubes again
(`TypeOK`) needs the critical input to be an input, which is `InfoFits` once more,
and so does `XorAnchored`. On top of `IInv`, `SizeIsAssigned` and `Coverage` are
inductive: the first because assigning an assigned input again leaves the
counter alone, the second because the two cofactors cover their cube and every cube
taken off the queue is judged or split.

`ExactWhenSmall` needs three more invariants. `InfoTrue`: the result in hand says nothing
false of a small cube, because in a cube of at most three free inputs the forced corners
and their neighbours are all points (so samples that agree are the function), and of an
exclusive-or of two free inputs all four corners are tested. `JudgedExact`: hence every
exact judgement is right on its cube. `Books`: what is judged to differ from the default
is recorded, and what is recorded was judged so. With `Coverage` and an empty queue every
point is in a judged cube, and its learned value is the judgement's. The same facts
about small cubes give `SplitsSmallCubesFresh`.

`EndsNearer` is the variant of the loop: each step lowers the pair of what is left before
the deadline (`CallsLeft`) and what is left in the queue (`StepsLeft`), in lexicographic
order. A split makes the queue longer and may even queue its own cube again, but only
before the deadline, and each of them needs a call before. With weak fairness this is
why `Termination` holds; that last step is left to TLC.

`ImplementsTask` is the refinement of InputSpace. `PendingShrinks` and `PendingStays`
relate the steps of the loop to the points in open cubes, `AnswersGrow` those to the
judgements. A split is `Reopen`, for it drops no point and changes nothing that was learned;
every other step is `Answer`. That a dropped point has one of its answers (`Answered`)
follows from `Coverage` and `Books`. The stale tendency does no harm here:
InputSpace leaves open which value a point is given.

### Time sharing (TimeBudget_proofs)

The four invariants of the run, under the assumption `OneBlock`: no output depends on 64
inputs or more. Without it the second disagreement above refutes them. `IInv` adds the
bookkeeping that ties the denominator to the set of timed outputs ahead of the loop index.
The arithmetic heart is `GrantLeavesShare`: granting 9/10 of t/d leaves at
least the share b for each of the other d-1 outputs.

### gen_pat (GenPat_proofs)

`TypeOK` and `CircuitSeesDrawn` for variables of any size up to a block. The two sides
meet at the highest bit in which two patterns differ: it decides `operator<`, and it is
the most significant input at which the comparator's recursion stops. That `operator==`
looks at fewer bits than it should from 32 bits on only makes the loops reject more.

### Template (Template_proofs)

`TypeOK`, `SecondsGroupedOnce`, `AskedIsBuilt`, `LiteralsWhenDetermined`,
`ExactWhenDetermined` and `SplitsFresh`, for any number of inputs, any classes of equally
long variables without common inputs, and any depths. `IInv` is `TypeOK` with
- `GroupsFit`: each group relates two variables of one class, isGrouped is the set of
  their inputs, no second variable occurs again, and the first variable of the pair being
  tried is the second one of no group. The last part is what the test of isGrouped before
  the inner loop establishes, and the inner loop keeps, since it only adds the variable at
  k > j as second one. That isGrouped is tested by one input of a variable is enough, as
  groups take variables as a whole (`FirstInputTells`);
- `Kept`: the entry of comcube_info and the answers are those of the groups found;
- `Sound`: a recorded cube has no compact pattern with the value of the tendency, unless
  one of the two depths was reached, from which samples are believed that do not agree;
- `Complete`: a compact pattern with the other value is in a recorded or a queued cube,
  with the same exception.

`AskedIsBuilt` goes through all groups in their order (`Written`): every input pattern can
be drawn for the bits it shows, whichever variables the groups share, and conversely a
group's node still sees what it was given when no later group writes over its inputs
(`ImagesDrawn`, `ImagesShow`, `BitsDrawn`). With it, `Determined` makes
the black box a function of compact bits (`AnswersAre`), and for at most three of those
the corners of a cube and their neighbours are all of it (`AllNear`), so that a cube on
which the samples agree has one value. The tolerance reaches a cube with a free bit only
if `exact_depth` is below the number of compact inputs, which `ExactWhenDetermined`
excludes (`NeverBelieved`); in the code it is 16, and the number three. A cube without
literals is never recorded, for any depths, because
a group was found and the black box is not constant (`FoundDiffers`), so that it does not
converge, and the root has no assigned bit to be tolerated at. The attempt to prove
`ExactWhenDetermined` and `LiteralsWhenDetermined` for any
number of compact inputs fails, and rightly so: above three compact inputs
the samples around the corners may agree while the cube is not constant. They are stated
with this bound.

`SplitsFresh` rests on the same fact for a single cube: with two free bits or fewer the
four corners and neighbours are all of it (`NearZeros`), and if nothing changes around both
corners the cube has one value (`QuietIsConstant`), so it was not split.

### main (Lrg_proofs)

`TypeOK`, `ValidatedIsBuilt`, `PlainRecordedIsBuilt`, `VerdictFits`, `CountsBounded` and
`SmallestDelivered`. The invariant `IInv` is the conjunction of
- `Loops`: the loop indices are in range;
- `Expressions`: the expressions kept have outputs of their own, which are done;
- `Entries`: every output with a template has its literals, is not done, and the number
  of entries of comcube_info is the number of flagged outputs;
- `Built`: how far the outputs are assembled. That `info_index` is one more than the
  number (`Rank`) of flagged outputs before the current one is what ties a template to
  its groups;
- `Recorded`: what was validated can still be built from the records: an expression that
  is kept, or a template whose entry has the rank of its output. This is what a dropped
  template must not disturb;
- `SimulationFits`: the counts are those of the lines taken, plus the copies of the first
  line if it is wrong, and all zero outside simulations;
- `DeliveryFits`: the result is said to have no more gates than any circuit written, but
  for those whose files are still to be compared, and these are files of this run; what is
  said is wrong only after a failed move.

`VerdictFits` follows from `SimulationFits` because copies are wrong only if the line they
are copied from is, and `SmallestDelivered` from `DeliveryFits` when no file is left to
compare. `PlainRecordedIsBuilt` needs `Plain` beside `IInv`, which says of an output
without a template how far it is assembled: its cubes, then one exclusive-or after the
other, then the inversion, which later expressions leave alone. What that function has to do with
the records is a matter of points: if no exclusive-or inverts
outside its cube, a point is 1 before the inversion exactly when some record says the
complement of the tendency (`AssembledIsRecorded`).

### Brute force (BruteForce_proofs)

`TypeOK`, `RankingAgrees`, `EveryAssignmentOnce` and `ExactWhenDependenciesFound`. `IInv`
adds to `TypeOK` that an input is in the set of those that changed an output exactly when
its count is positive (`Counted`), that the dependency sets are made from those sets
(`Depends`), and that the patterns asked are one for each assignment (`Asking`). As
falling counts put the positive ones first, the n inputs from the top are those in a
dependency set of n members, however ties are sorted. `ExactWhenDependenciesFound`
is inductive on top of `IInv`: the minterms recorded cover a point when the answer for the
one pattern that agrees with it on the dependencies differs from the tendency, and a black
box has the same value at points that agree on its support (`SupportDecides`), though
`Support` is defined by flips of one input.

### Expressions and names (Arithmetic_proofs)

`TypeOK`, `WideEnough`, `CircuitIsSum`, `ExactOnSums` and `MostSignificantFirst`. A vector
of nodes has a value at each point (`NodeValue`); the lemmas give what adders, subtractors,
the shifts of multiply and the widening do to it, modulo the size of the vector where a
carry or borrow is dropped. Each is an induction along the bits, from the value of a full
adder. `IInv` has the phases of the loops, that no input is in two variables (`Distinct`,
from the parser), that the vector built so far is the sum of the groups before the loop
index (`BuiltSoFar`), and that the groups found so far add what the variables before the
index add, if the black box is a sum (`FoundSoFar`, `FoundAll`). A ratio is found modulo
2^size, and its sign is read off the top bit: subtracting 2^size minus the ratio is adding
the ratio. A dependency with ratio zero makes no group and adds nothing.
`MostSignificantFirst` rests on numbers without leading zeros: a longer one is larger,
by `Tens`, and equally long ones are compared by value.

### Only model-checked

`Termination` (FBDT), `Returns` (GenPat) and `ReturnsWhenDetermined`
(Template): these are liveness under fairness, which is out of the prover's reach, as
ENABLED is. The four runs with a violation are counterexamples of TLC, of which the third
has its general form in `AddXorIs`.

## Not modelled

- ABC itself, which is nearly all of the lines of the repository: src/abc is a vendored
  logic synthesis system of 900000 lines, of which lrg uses commands that keep the
  functions of the network. Only src/abc/src/selfdefined was written for lrg. In it, the
  nodes of the AIG and structural hashing are abstracted to on-sets, the overload of
  my_Abc_AddCubes that takes no groups is called by nobody, and the printing of networks
  is debugging output.
- Logging and the accuracy test program, a straight line of calls that prints statistics.
- A black box that writes a part of a line before it fails, and learners that are given
  the answers of an earlier call: the code does not notice, and nothing can be said of
  what is learned then.
- Probabilities: random patterns are free choices, so the models say what can
  happen, not how likely it is.
- `Cube::_done`, never read.
- Patterns of several blocks in GenPat, whose lower blocks are compared in full; sizes
  of 31 modulo 64, where 1 << 31 is negative before it is widened.
- Arithmetic outputs of 31 bits and more, where 1 << size leaves the int.
- The votes of find_critical_input among the samples of a compact cube: one that is cut
  off, or converges by tolerance, may be given any value the samples may show.
- A network or file command of ABC that fails.

## Plan

All components with logic of their own are modelled, and the invariants and action
properties that the runs check are proved. What is left to prove:

1. The variant of Template's loop, as `EndsNearer` is that of FBDT's: where the groups
   determine the output, each cube is split into smaller ones, so that only disagreeing
   full cubes could keep it going.
2. `RecordedIsBuilt` of Lrg under the hypothesis that no exclusive-or is inverted, for all
   outputs at once, and the disagreement of add_cube.cpp:192 as a statement about po.
