------------------------------ MODULE Relations ------------------------------
(***************************************************************************)
(* Relations between two input variables of the same length (src/src/      *)
(* enum.h, group.cpp): the comparison of the two patterns that gen_pat     *)
(* draws, and the comparators that build_circuit puts in the network       *)
(* (abc/src/selfdefined/add_cube.cpp:207-273).                             *)
(*                                                                         *)
(* A variable is the sequence of its inputs, most significant first. A     *)
(* pattern of a variable is a function from 0 .. n-1 to bits, bit 0 being  *)
(* the least significant.                                                  *)
(***************************************************************************)
EXTENDS Network

\* The relations a Group may have.
Relation == {"NO_RELATION", "XOR", "EQUIVALENCE", "LARGER_THAN", "SMALLER_THAN",
             "LARGER_EQ_THAN", "SMALLER_EQ_THAN"}

\* Pattern::operator<, on the bits below n: the highest bit that differs decides.
Below(n, a, b) ==
  \E i \in 0 .. n - 1 : /\ a[i] = "0" /\ b[i] = "1"
                        /\ \A j \in i + 1 .. n - 1 : a[j] = b[j]

-----------------------------------------------------------------------------
(* The comparators.                                                        *)

BuildXor(v, w) == AddCone("and", [n \in DOMAIN v |-> Xor(On(v[n]), On(w[n]))])
BuildEquiv(v, w) == AddCone("and", [n \in DOMAIN v |-> Not(Xor(On(v[n]), On(w[n])))])

\* larger[n] is the node of the recursive call for the inputs from the n-th on.
BuildLargerThan(v, w) ==
  LET larger[n \in DOMAIN v] ==
        LET here == On(v[n]) \ On(w[n])
        IN  IF n = Len(v) THEN here
            ELSE here \cup (Not(Xor(On(v[n]), On(w[n]))) \cap larger[n + 1])
  IN  larger[1]

BuildSmallerThan(v, w) ==
  LET smaller[n \in DOMAIN v] ==
        LET here == On(w[n]) \ On(v[n])
        IN  IF n = Len(v) THEN here
            ELSE here \cup (Not(Xor(On(v[n]), On(w[n]))) \cap smaller[n + 1])
  IN  smaller[1]

\* Group::build_circuit; a group without relation gets no node.
Fanout(rel, v, w) ==
  CASE rel = "XOR"             -> BuildXor(v, w)
    [] rel = "EQUIVALENCE"     -> BuildEquiv(v, w)
    [] rel = "LARGER_THAN"     -> BuildLargerThan(v, w)
    [] rel = "SMALLER_THAN"    -> BuildSmallerThan(v, w)
    [] rel = "LARGER_EQ_THAN"  -> Not(BuildSmallerThan(v, w))
    [] rel = "SMALLER_EQ_THAN" -> Not(BuildLargerThan(v, w))
=============================================================================
