---------------------------- MODULE CompactCubes ----------------------------
(***************************************************************************)
(* Cubes over the relations of groups of inputs and the inputs that are in *)
(* no group (comcube_info in src/src/lrg.cpp), and what they become in the *)
(* network (abc/src/selfdefined/add_cube.cpp:127-162).                     *)
(***************************************************************************)
EXTENDS Network

\* An entry of comcube_info: the comparators of the groups of inputs, and the
\* inputs that are in no group. These are the inputs of a compact cube.
ComcubeInfo == [nodes : Seq(OnSet), pis : Seq(PI)]
CompactString == Seq(Bit \cup {DontCare})

CompactBit(ci, k, x) ==
  IF k <= Len(ci.nodes)
  THEN IF x \in ci.nodes[k] THEN "1" ELSE "0"
  ELSE x[ci.pis[k - Len(ci.nodes)]]

CompactFanin(ci, k) ==
  IF k <= Len(ci.nodes) THEN ci.nodes[k] ELSE On(ci.pis[k - Len(ci.nodes)])

\* The conjunction of the literals of a cube.
CompactNode(ci, s) ==
  LET at == Ascending({k \in DOMAIN s : s[k] # DontCare})
  IN  AddCone("and", [n \in DOMAIN at |->
                        InvertIf(s[at[n]] # "1", CompactFanin(ci, at[n]))])

\* my_Abc_AddCubes: the nodes of the cubes and the old function of the output.
AddCompact(old, ci, pats) ==
  AddCone("or", Append([n \in DOMAIN pats |-> CompactNode(ci, pats[n])], old))
=============================================================================
