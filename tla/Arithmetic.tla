----------------------------- MODULE Arithmetic -----------------------------
(***************************************************************************)
(* One output variable as an arithmetic expression of input variables:     *)
(* the names are parsed (parser.cpp), the longest input variables and an   *)
(* output variable are picked (main, lrg.cpp:422-433), then come           *)
(* find_all_groups_v2 with Group_v2 (lrg.cpp:213-240, group.cpp:190-250)   *)
(* and build_arithmetic_circuit (lrg.cpp:87-99) with the adders of         *)
(* abc/src/selfdefined/add_cube.cpp.                                       *)
(*                                                                         *)
(* A variable is a sequence of bits, most significant first. A node of the *)
(* circuit is its on-set. Widths are those of the code as long as they are *)
(* below 31, where 1 << size is exact.                                     *)
(***************************************************************************)
EXTENDS Relations, Parser

CONSTANTS
  NumPO,        \* number of primary outputs
  PI_del,       \* the part "PI" of names
  PO_del,       \* the part "PO" of names
  MinLiterals,  \* MIN_VARIABLE_LITERAL_NUM (8)
  Boxes         \* names of inputs and outputs, and an on-set for each output

PO == 0 .. NumPO - 1

ASSUME ArithmeticAssumption ==
  /\ NumPO \in Nat
  /\ MinLiterals \in Nat \ {0}
  /\ Boxes \subseteq [PI_name : [PI -> Name], PO_name : [PO -> Name], on : [PO -> OnSet]]

Vector == Seq(OnSet)

VARIABLES
  box,      \* the names and the functions of the black box
  in_vars,  \* vars_with_same_len[idx]
  out_var,  \* output_vars[i]
  oracle,   \* the value of the output variable at every point
  k,        \* Group_v2::_k
  at,       \* the loop index of find_all_groups_v2, and of the build
  groups,   \* math_info.back().first: sequence of [var, relation, ratio]
  v_obj,    \* the vector of nodes built so far
  pc        \* "parse", "find", "build" or "done"

parsed == <<box, in_vars, out_var, oracle, k>>
vars == <<parsed, at, groups, v_obj, pc>>

Init ==
  /\ box \in Boxes
  /\ in_vars = <<>>
  /\ out_var = <<>>
  /\ oracle = <<>>
  /\ k = 0
  /\ at = 1
  /\ groups = <<>>
  /\ v_obj = <<>>
  /\ pc = "parse"

-----------------------------------------------------------------------------
(* Parser and main.                                                        *)

\* The number a vector of nodes stands for at a point.
NodeValue(v, x) ==
  LET up[n \in 0 .. Len(v)] ==
        IF n = 0 THEN 0 ELSE 2 * up[n - 1] + (IF x \in v[n] THEN 1 ELSE 0)
  IN  up[Len(v)]

\* Input variables with fewer bits are in no class of vars_with_same_len.
Grouped(ins) == {v \in DOMAIN ins : Len(ins[v]) >= MinLiterals}
Longest(ins) == {v \in Grouped(ins) : \A w \in Grouped(ins) : Len(ins[w]) <= Len(ins[v])}

\* output_vars: those with at least max_grp_size bits.
OutputVars(ins, outs) ==
  {w \in DOMAIN outs : \A v \in Grouped(ins) : Len(outs[w]) >= Len(ins[v])}

\* The order of the variables in a class is that of a hash table.
InOrder(V) == {s \in [1 .. Cardinality(V) -> V] : \A m, n \in DOMAIN s : m # n => s[m] # s[n]}

\* find_vars; the longest class and an output variable; find_k.
FindVars ==
  /\ pc = "parse"
  /\ \E ins \in Variables(box.PI_name, PI_del), outs \in Variables(box.PO_name, PO_del) :
       IF Grouped(ins) = {} \/ OutputVars(ins, outs) = {}
       THEN /\ pc' = "done"
            /\ UNCHANGED <<in_vars, out_var, oracle, k>>
       ELSE \E s \in InOrder(Longest(ins)), w \in OutputVars(ins, outs) :
              /\ in_vars' = [n \in DOMAIN s |-> ins[s[n]]]
              /\ out_var' = outs[w]
              /\ oracle' = [x \in Point |-> NodeValue([n \in DOMAIN out_var' |->
                                                          box.on[out_var'[n]]], x)]
              /\ k' = oracle'[Corner(AllFree, "0")]
              /\ pc' = "find"
  /\ UNCHANGED <<box, at, groups, v_obj>>

OutWidth == Len(out_var)
Value == 0 .. 2 ^ OutWidth - 1

-----------------------------------------------------------------------------
(* Group_v2.                                                               *)

\* The value of a variable at a point.
VarValue(var, x) ==
  LET up[n \in 0 .. Len(var)] ==
        IF n = 0 THEN 0 ELSE 2 * up[n - 1] + (IF x[var[n]] = "1" THEN 1 ELSE 0)
  IN  up[Len(var)]

\* The patterns gen_pat draws: bits of the variable only.
Alone(var) == {x \in Point : \A i \in PI : x[i] = "1" => \E n \in DOMAIN var : var[n] = i}
Unit(var) == [i \in PI |-> IF i = var[Len(var)] THEN "1" ELSE "0"]

Mod == 2 ^ OutWidth

\* Pattern::operator- and to_size_t.
Minus(a, b) == (a - b) % Mod

\* Mutant of SignedRatio: the sign bit is not tested.
UnsignedRatio(var, r) == [var |-> var, relation |-> "ADD", ratio |-> r]

SignedRatio(var, r) ==
  IF r >= 2 ^ (OutWidth - 1)
  THEN [var |-> var, relation |-> "SUBTRACT", ratio |-> Mod - r]
  ELSE [var |-> var, relation |-> "ADD", ratio |-> r]

\* find_relation: the ratio is read off the unit pattern, and has to explain all
\* of the sampled patterns.
Ratio(var) == Minus(oracle[Unit(var)], k)
Explains(var, samples) ==
  \A x \in samples : Minus(oracle[x], k) = (VarValue(var, x) * Ratio(var)) % Mod

\* An iteration of the loop at lrg.cpp:219.
Find ==
  /\ pc = "find"
  /\ at <= Len(in_vars)
  /\ \E samples \in (SUBSET Alone(in_vars[at])) \ {{}} :
       groups' = IF Explains(in_vars[at], samples) /\ Ratio(in_vars[at]) # 0
                 THEN Append(groups, SignedRatio(in_vars[at], Ratio(in_vars[at])))
                 ELSE groups
  /\ at' = at + 1
  /\ UNCHANGED <<parsed, v_obj, pc>>

\* find_all_groups_v2 returns false, and the output is left to other methods.
GiveUp ==
  /\ pc = "find"
  /\ at > Len(in_vars)
  /\ groups = <<>>
  /\ pc' = "done"
  /\ UNCHANGED <<parsed, at, groups, v_obj>>

-----------------------------------------------------------------------------
(* The circuit. Constants and adders on on-sets.                           *)

Const(b) == IF b THEN Point ELSE {}

\* The bit of weight 2^i of a vector, const0 beyond its end.
Weighted(v, i) == IF i < Len(v) THEN v[Len(v) - i] ELSE {}

\* Mutant of Longer: the loops run over the shorter operand.
Shorter(a, b) == IF Len(a) < Len(b) THEN Len(a) ELSE Len(b)

\* The common length both operands are padded to with const0.
Longer(a, b) == IF Len(a) < Len(b) THEN Len(b) ELSE Len(a)

\* my_Abc_AddFullAdder: one bit longer than the longer operand.
AddFullAdder(a, b) ==
  LET n == Longer(a, b)
      carry[i \in 0 .. n] ==
        IF i = 0 THEN {}
        ELSE LET p == Weighted(a, i - 1)
                 q == Weighted(b, i - 1)
             IN  (p \cap q) \cup (Xor(p, q) \cap carry[i - 1])
      bit(i) == IF i = n THEN carry[n]
                ELSE Xor(Xor(Weighted(a, i), Weighted(b, i)), carry[i])
  IN  [j \in 1 .. n + 1 |-> bit(n + 1 - j)]

\* my_Abc_AddFullSubtractor
AddFullSubtractor(a, b) ==
  LET n == Longer(a, b)
      carry[i \in 0 .. n] ==
        IF i = 0 THEN {}
        ELSE LET p == Weighted(a, i - 1)
                 q == Weighted(b, i - 1)
             IN  (q \ p) \cup (carry[i - 1] \ Xor(p, q))
      bit(i) == IF i = n THEN carry[n]
                ELSE Xor(Xor(Weighted(a, i), Weighted(b, i)), carry[i])
  IN  [j \in 1 .. n + 1 |-> bit(n + 1 - j)]

AddArithmeticCircuit(a, b, relation) ==
  IF relation = "ADD" THEN AddFullAdder(a, b) ELSE AddFullSubtractor(a, b)

\* Mutant of Shifted: the vector is shifted for the ones of the ratio only.
ShiftedForOnes(v, m, j) ==
  v \o [i \in 1 .. Cardinality({l \in 0 .. j - 1 : (m \div 2 ^ l) % 2 = 1}) |-> {}]

\* v_obj after j rounds of push_back( get_const(0) ).
Shifted(v, m, j) == v \o [i \in 1 .. j |-> {}]

\* Abc_Wrapper::multiply: the shifted vectors for the ones of m are added up.
Multiply(v, m) ==
  LET sum[j \in 0 .. OutWidth] ==
        IF j = 0 THEN <<>>
        ELSE IF (m \div 2 ^ (j - 1)) % 2 = 1
        THEN AddFullAdder(sum[j - 1], Shifted(v, m, j - 1))
        ELSE sum[j - 1]
  IN  sum[OutWidth]

Inputs(var) == [n \in DOMAIN var |-> On(var[n])]

\* The vector of constants for k.
Constants == [j \in 1 .. OutWidth |-> Const((k \div 2 ^ (OutWidth - j)) % 2 = 1)]

StartBuild ==
  /\ pc = "find"
  /\ at > Len(in_vars)
  /\ groups # <<>>
  /\ v_obj' = Constants
  /\ at' = 1
  /\ pc' = "build"
  /\ UNCHANGED <<parsed, groups>>

\* An iteration of build_arithmetic_circuit.
Build ==
  /\ pc = "build"
  /\ at <= Len(groups)
  /\ LET g == groups[at]
     IN  v_obj' = AddArithmeticCircuit(v_obj, Multiply(Inputs(g.var), g.ratio), g.relation)
  /\ at' = at + 1
  /\ UNCHANGED <<parsed, groups, pc>>

\* Mutant of AssignedBits: the bits are matched from the most significant end.
AssignedFromTop(v) == SubSeq(v, 1, OutWidth)

\* assign_outputs: both vectors are reversed, and matched from the least
\* significant end; the bits beyond the output variable are dropped.
AssignedBits(v) == SubSeq(v, Len(v) - OutWidth + 1, Len(v))

AssignOutputs ==
  /\ pc = "build"
  /\ at > Len(groups)
  /\ v_obj' = AssignedBits(v_obj)
  /\ pc' = "done"
  /\ UNCHANGED <<parsed, at, groups>>

Returned == pc = "done" /\ UNCHANGED vars

Next == FindVars \/ Find \/ GiveUp \/ StartBuild \/ Build \/ AssignOutputs \/ Returned

Spec == Init /\ [][Next]_vars

-----------------------------------------------------------------------------
\* The variables have their types: the ratio of a group is positive and at most half
\* of the range, its sign being in the relation (Group_v2, group.cpp:230-239).
TypeOK ==
  /\ box.on \in [PO -> OnSet]
  /\ in_vars \in Seq(Seq(PI)) /\ out_var \in Seq(PO)
  /\ in_vars # <<>> => oracle \in [Point -> Value]
  /\ k \in Value
  /\ at \in Nat
  /\ groups \in Seq([var : Seq(PI), relation : {"ADD", "SUBTRACT"},
                     ratio : Value \ {0}])
  /\ \A n \in DOMAIN groups : 2 * groups[n].ratio <= Mod
  /\ v_obj \in Vector
  /\ pc \in {"parse", "find", "build", "done"}

Term(g, x) == IF g.relation = "ADD" THEN VarValue(g.var, x) * g.ratio
                                    ELSE -(VarValue(g.var, x) * g.ratio)
Sum(x) ==
  LET up[n \in 0 .. Len(groups)] == IF n = 0 THEN k ELSE up[n - 1] + Term(groups[n], x)
  IN  up[Len(groups)]

\* The vector built has at least the bits of the output variable:
\* assert( outputs.size() >= po_idx.size() ) in assign_outputs (abc_wrapper.cpp:156).
WideEnough == pc = "build" => Len(v_obj) >= OutWidth

\* The circuit computes the constant plus and minus the multiples of the
\* variables modulo the size of the output, whatever widths the adders passed
\* through, which carries they dropped, and how often a difference went below 0.
CircuitIsSum ==
  pc = "done" /\ groups # <<>> =>
    \A x \in Point : NodeValue(v_obj, x) = Sum(x) % Mod

\* The black box is the sum of what it does to each variable alone.
Additive ==
  \A x \in Point :
    oracle[x] = (k + (LET up[n \in 0 .. Len(in_vars)] ==
                            IF n = 0 THEN 0
                            ELSE up[n - 1] + VarValue(in_vars[n], x) * Ratio(in_vars[n])
                      IN  up[Len(in_vars)])) % Mod

\* A black box that is an arithmetic expression of the variables is found, however
\* few patterns are drawn; only a constant one is not looked for.
ExactOnSums ==
  pc = "done" /\ in_vars # <<>> /\ Additive =>
    IF groups = <<>>
    THEN \A x \in Point : oracle[x] = k
    ELSE \A x \in Point : NodeValue(v_obj, x) = oracle[x]

\* Bits are in the order of the numbers in their names, the highest first ("i = 0 is
\* MSB", variable.h:24), whatever the order of the names, the number of digits, and
\* the names without a number that fall into the same variable.
MostSignificantFirst ==
  /\ \A n \in DOMAIN in_vars : NumbersFall(box.PI_name, PI_del, in_vars[n])
  /\ NumbersFall(box.PO_name, PO_del, out_var)
=============================================================================
