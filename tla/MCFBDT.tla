------------------------------- MODULE MCFBDT -------------------------------
(***************************************************************************)
(* Instances of FBDT for TLC.                                              *)
(***************************************************************************)
EXTENDS FBDT

\* Three inputs: every function.
AllFunctions == [Point -> BOOLEAN]

\* Four inputs: one function per behaviour of the loop. An oracle is given by
\* a predicate on the set of inputs that are 1.
Where(P(_)) == [x \in Point |-> P({i \in PI : x[i] = "1"})]

Rest(I) == I \ {0}
FourInputOracles ==
  { Where(LAMBDA I : FALSE),
    Where(LAMBDA I : I = PI),                                    \* a single minterm
    Where(LAMBDA I : Cardinality(I) % 2 = 1),                    \* parity
    Where(LAMBDA I : 0 \in I /\ Cardinality(Rest(I)) % 2 = 1),   \* guarded parity
    \* Guarded by input 0, functions of the other three that no flip next to the
    \* corners changes: the critical input is 0 by default and is split again.
    Where(LAMBDA I : 0 \in I /\ Cardinality(Rest(I)) >= 2),
    Where(LAMBDA I : 0 \notin I \/ Cardinality(Rest(I)) <= 1),
    \* Not all equal: looks like an exclusive-or next to the corners.
    Where(LAMBDA I : 0 \in I /\ Rest(I) # {} /\ Rest(I) # PI \ {0}),
    Where(LAMBDA I : IF 0 \in I THEN 1 \in I ELSE {2, 3} \subseteq I) }
\* All cubes are at a depth that tolerates a minority: 16% at the root, 20% below.
TolerantFromTheRoot == -4
=============================================================================
