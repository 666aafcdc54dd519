----------------------------- MODULE BruteForce -----------------------------
(***************************************************************************)
(* Outputs that depend on few inputs (src/src/lrg.cpp and inputs.cpp): the *)
(* black box is sampled to find which inputs each output depends on (lrg   *)
(* lines 456-471), then every assignment of these inputs is tried once and *)
(* the output is recorded as minterms (525-541).                           *)
(*                                                                         *)
(* Answers of the black box are read through parse_output (io_helper.cpp). *)
(*                                                                         *)
(* Two records of the sampling have to agree: the set of inputs that ever  *)
(* changed the output, and the counts by which inputs are ranked.          *)
(***************************************************************************)
EXTENDS CubeSpace, Sequences

CONSTANTS
  NumPO,       \* number of primary outputs
  BlockBits,   \* SIZE_T, the bits of a block of a pattern (64)
  Oracles,     \* the black boxes: a function on points for each output
  SampleIter,  \* sample_iter: calls of test_dependency for each ratio
  NumSamples,  \* rand_sample_num: golden patterns per call
  Depth        \* BRUTE_FORCE_DEPTH

PO == 0 .. NumPO - 1

ASSUME BruteForceAssumption ==
  /\ NumPO \in Nat /\ BlockBits \in Nat
  /\ Oracles \subseteq [PO -> [Point -> BOOLEAN]]
  /\ SampleIter \in Nat /\ NumSamples \in Nat \ {0} /\ Depth \in Nat

VARIABLES
  oracle,     \* the function of each output
  round,      \* the loop index i of line 461
  in_dep,     \* _in_dep: for each input, the outputs it was seen to change
  changes,    \* _changes: how often a flip of the input changed the output
  ones,       \* _1_count
  tested,     \* _pattern_tested
  out_dep,    \* for each output, the inputs it is taken to depend on
  tendency,   \* output_tendency
  out,        \* the loop index i of line 515
  in_pat,     \* the patterns brute force asks for
  cubes,      \* cubes_and_comcubes_2abc, as sets
  pc          \* "sample", "choose" (line 523), "ask" (line 533) or "done"

vars == <<oracle, round, in_dep, changes, ones, tested, out_dep, tendency, out,
          in_pat, cubes, pc>>

Init ==
  /\ oracle \in Oracles
  /\ round = 0
  /\ in_dep = [j \in PI |-> {}]
  /\ changes = [j \in PI |-> [o \in PO |-> 0]]
  /\ ones = [o \in PO |-> 0]
  /\ tested = 0
  /\ out_dep = [o \in PO |-> {}]
  /\ tendency = [o \in PO |-> FALSE]
  /\ out = 0
  /\ in_pat = {}
  /\ cubes = [o \in PO |-> {}]
  /\ pc = "sample"

-----------------------------------------------------------------------------
(* Sampling of dependencies.                                               *)

\* The golden patterns of a call: in a 10% call the last one is set_all(), in a
\* 90% call it is reset_all().
GoldenPatterns(r) ==
  {g \in [1 .. NumSamples -> Point] :
     /\ r < SampleIter => g[NumSamples] = Corner(AllFree, "1")
     /\ r \in SampleIter .. 2 * SampleIter - 1 => g[NumSamples] = Corner(AllFree, "0")}

\* parse_output: add is doubled for every output, and not set back to 1 where a new
\* block begins. From the second block on it has overflown to 0, and outputs that
\* are 1 add nothing.
ParseOutput(answer) == [o \in PO |-> o < BlockBits /\ answer[o]]

\* The entry of the hash for a pattern.
Entry(x) == ParseOutput([o \in PO |-> oracle[o][x]])

Toggling(g, j, o) == {k \in 1 .. NumSamples : Entry(g[k])[o] # Entry(Flip(g[k], j))[o]}

\* Mutant of CountChanges: the count is overwritten by each update.
LastChange(g, j, o) == IF NumSamples \in Toggling(g, j, o) THEN 1 ELSE 0

CountChanges(g, j, o) == changes[j][o] + Cardinality(Toggling(g, j, o))

\* Mutant of Updates: the golden patterns are counted, not their neighbours.
UpdatesOfGoldens == NumSamples

\* The calls of update() in a call of test_dependency.
Updates == NumSamples * NumPI

\* update() for every golden pattern and every input.
Sample ==
  /\ pc = "sample"
  /\ round < 3 * SampleIter
  /\ \E g \in GoldenPatterns(round) :
       /\ in_dep' = [j \in PI |-> in_dep[j] \cup {o \in PO : Toggling(g, j, o) # {}}]
       /\ changes' = [j \in PI |-> [o \in PO |-> CountChanges(g, j, o)]]
       /\ ones' = [o \in PO |-> ones[o] +
                     Cardinality({kj \in (1 .. NumSamples) \X PI :
                                    Entry(Flip(g[kj[1]], kj[2]))[o]})]
  /\ tested' = tested + Updates
  /\ round' = round + 1
  /\ UNCHANGED <<oracle, out_dep, tendency, out, in_pat, cubes, pc>>

\* get_output_dependency and get_output_tendency.
StartLearning ==
  /\ pc = "sample"
  /\ round = 3 * SampleIter
  /\ out_dep' = [o \in PO |-> {j \in PI : o \in in_dep[j]}]
  /\ tendency' = [o \in PO |-> ones[o] > tested \div 2]
  /\ pc' = "choose"
  /\ UNCHANGED <<oracle, round, in_dep, changes, ones, tested, out, in_pat, cubes>>

-----------------------------------------------------------------------------
(* The loop over the outputs.                                              *)

\* The orders get_sig_in may return: inputs by falling count; sort() leaves the
\* order of equal counts open.
Orders == {s \in [0 .. NumPI - 1 -> PI] : \A i, j \in 0 .. NumPI - 1 : i # j => s[i] # s[j]}
Ranked(o, s) ==
  \A i, j \in 0 .. NumPI - 1 : i < j => changes[s[i]][o] >= changes[s[j]][o]

\* The first inputs of an order.
Top(s, d) == {s[i] : i \in 0 .. d - 1}

\* Bit j of n.
BitOf(n, j) == IF (n \div 2 ^ j) % 2 = 1 THEN "1" ELSE "0"

\* Mutant of BruteForcePatterns: one assignment short.
BruteForcePatternsButOne(s, d) ==
  {p \in [1 .. 2 ^ d - 1 -> Point] :
     \A n \in DOMAIN p, j \in 0 .. d - 1 : p[n][s[j]] = BitOf(n, j)}

\* sample_brute_force: pattern n has the bits of n at the first d inputs, and
\* random bits elsewhere.
BruteForcePatterns(s, d) ==
  {p \in [0 .. 2 ^ d - 1 -> Point] :
     \A n \in DOMAIN p, j \in 0 .. d - 1 : p[n][s[j]] = BitOf(n, j)}

Agree(x, y, D) == \A j \in D : x[j] = y[j]

\* sampled_set: a pattern that repeats an assignment of D is left out.
FirstOfKind(p, D) == {p[n] : n \in {m \in DOMAIN p :
                                      \A l \in DOMAIN p : l < m => ~Agree(p[l], p[m], D)}}

\* Lines 523-533.
Choose ==
  /\ pc = "choose"
  /\ out < NumPO
  /\ LET d == Cardinality(out_dep[out])
     IN  /\ d <= Depth
         /\ \E s \in Orders :
              /\ Ranked(out, s)
              /\ out_dep' = [out_dep EXCEPT ![out] = Top(s, d)]
              /\ \E p \in BruteForcePatterns(s, d) :
                   in_pat' = FirstOfKind(p, Top(s, d))
  /\ pc' = "ask"
  /\ UNCHANGED <<oracle, round, in_dep, changes, ones, tested, tendency, out, cubes>>

\* minterm2pla
Minterm(x, D) == [i \in PI |-> IF i \in D THEN x[i] ELSE DontCare]

\* Mutant of Record: the ones are recorded, whatever the tendency.
RecordOnes(o) ==
  {Minterm(x, out_dep[o]) : x \in {y \in in_pat : Entry(y)[o]}}

Record(o) ==
  {Minterm(x, out_dep[o]) : x \in {y \in in_pat : Entry(y)[o] # tendency[o]}}

\* Lines 534-541: the patterns are asked for, recorded, and cleared.
Ask ==
  /\ pc = "ask"
  /\ cubes' = [cubes EXCEPT ![out] = Record(out)]
  /\ in_pat' = {}
  /\ out' = out + 1
  /\ pc' = "choose"
  /\ UNCHANGED <<oracle, round, in_dep, changes, ones, tested, out_dep, tendency>>

\* Outputs that depend on more inputs are left to the template and to FBDT.
LeaveToFBDT ==
  /\ pc = "choose"
  /\ out < NumPO
  /\ Cardinality(out_dep[out]) > Depth
  /\ out' = out + 1
  /\ UNCHANGED <<oracle, round, in_dep, changes, ones, tested, out_dep, tendency,
                 in_pat, cubes, pc>>

Finish ==
  /\ pc = "choose"
  /\ out = NumPO
  /\ pc' = "done"
  /\ UNCHANGED <<oracle, round, in_dep, changes, ones, tested, out_dep, tendency,
                 out, in_pat, cubes>>

Returned == pc = "done" /\ UNCHANGED vars

Next == \/ Sample \/ StartLearning \/ Choose \/ Ask \/ LeaveToFBDT \/ Finish \/ Returned

Spec == Init /\ [][Next]_vars

-----------------------------------------------------------------------------
\* The variables have their types, and no more ones are counted than patterns tested
\* (inputs.cpp:139-149); get_output_tendency compares the two.
TypeOK ==
  /\ oracle \in [PO -> [Point -> BOOLEAN]]
  /\ round \in 0 .. 3 * SampleIter
  /\ in_dep \in [PI -> SUBSET PO]
  /\ changes \in [PI -> [PO -> Nat]]
  /\ ones \in [PO -> 0 .. tested]
  /\ tested \in Nat
  /\ out_dep \in [PO -> SUBSET PI]
  /\ tendency \in [PO -> BOOLEAN]
  /\ out \in 0 .. NumPO
  /\ in_pat \in SUBSET Point
  /\ cubes \in [PO -> SUBSET CubeString]
  /\ pc \in {"sample", "choose", "ask", "done"}

\* The inputs that change output o at some point.
Support(o) == {j \in PI : \E x \in Point : oracle[o][x] # oracle[o][Flip(x, j)]}

\* Line 528 replaces the set of inputs an output depends on by as many inputs from
\* the top of the ranking: this must be the same set.
RankingAgrees == [][pc = "choose" => out_dep' = out_dep]_vars

\* Every assignment of the inputs an output depends on is asked for exactly once.
EveryAssignmentOnce ==
  pc = "ask" => \A y \in Point :
    Cardinality({x \in in_pat : Agree(x, y, out_dep[out])}) = 1

\* When sampling has seen every input that matters change the output, brute force
\* records exactly the function of the black box, for the outputs of the first
\* block. (All others are read as 0, and recorded as constant 0 in the end.)
ExactWhenDependenciesFound ==
  \A o \in 0 .. out - 1 :
    /\ o < BlockBits
    /\ Cardinality(out_dep[o]) <= Depth
    /\ Support(o) \subseteq out_dep[o]
    =>
      \A x \in Point : RecordedValue(cubes[o], {}, tendency[o], x) = oracle[o][x]
=============================================================================
