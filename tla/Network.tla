------------------------------ MODULE Network ------------------------------
(***************************************************************************)
(* Construction of the network (abc/src/selfdefined/add_cube.cpp): cones   *)
(* of two-input gates. A node of the network is its on-set, the set of     *)
(* points where it is 1; Abc_ObjNot and the gates are set operations.      *)
(***************************************************************************)
EXTENDS CubeSpace, Sequences

OnSet == SUBSET Point

On(i) == {x \in Point : x[i] = "1"}
Not(a) == Point \ a
Xor(a, b) == (a \ b) \cup (b \ a)

\* my_Abc_InvertOutput, and Abc_ObjNotCond
InvertIf(b, on) == IF b THEN Point \ on ELSE on

\* The gate types add_cone is called with.
Gate == {"and", "or", "xor"}
Combine(gate, a, b) ==
  CASE gate = "and" -> a \cap b
    [] gate = "or"  -> a \cup b
    [] gate = "xor" -> Xor(a, b)

Pairs(gate, fanins) ==
  [i \in 1 .. Len(fanins) \div 2 |-> Combine(gate, fanins[2 * i - 1], fanins[2 * i])]

\* Mutant of Round: the odd one out is popped and not pushed again.
RoundWithoutRest(gate, fanins) ==
  IF Len(fanins) = 1 THEN fanins ELSE Pairs(gate, fanins)

\* One iteration of add_cone: the fanins are combined two by two, and one that is
\* left over is kept.
Round(gate, fanins) ==
  IF Len(fanins) % 2 = 1
  THEN Append(Pairs(gate, fanins), fanins[Len(fanins)])
  ELSE Pairs(gate, fanins)

\* The loops over inputs: a finite set of numbers in ascending order.
Ascending(S) ==
  [n \in 1 .. Cardinality(S) |->
     CHOOSE i \in S : Cardinality({j \in S : j < i}) = n - 1]

\* A finite set in some order, for lists that other modules keep as sets.
InSomeOrder(S) ==
  LET rest[n \in 0 .. Cardinality(S)] ==
        IF n = 0 THEN S ELSE rest[n - 1] \ {CHOOSE e \in rest[n - 1] : TRUE}
  IN  [n \in 1 .. Cardinality(S) |-> CHOOSE e \in rest[n - 1] : TRUE]

\* add_cone iterates until one node is left, which n - 1 rounds are enough for; a
\* round leaves a single node alone. The loop does not end when there is no fanin.
AddCone(gate, fanins) ==
  LET rounds[n \in 0 .. Len(fanins)] ==
        IF n = 0 THEN fanins ELSE Round(gate, rounds[n - 1])
  IN  rounds[Len(fanins)][1]

-----------------------------------------------------------------------------
\* my_Abc_AddXor: the conjunction of the cube and the exclusive-or of its free
\* inputs is inverted as a whole.
AddXor(old, s, invert) ==
  LET free     == Ascending(Free(s))
      assigned == Ascending(Assigned(s))
      xorNode  == AddCone("xor", [n \in DOMAIN free |-> On(free[n])])
      literals == [n \in DOMAIN assigned |->
                     InvertIf(s[assigned[n]] # "1", On(assigned[n]))]
  IN  old \cup InvertIf(invert, AddCone("and", Append(literals, xorNode)))
=============================================================================
