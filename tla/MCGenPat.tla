------------------------------ MODULE MCGenPat ------------------------------
(***************************************************************************)
(* Blocks of three bits (or two) stand for blocks of 64: variables of one  *)
(* and two bits for those that leave bits of a block unused, a variable of *)
(* a whole block for those of 64 bits.                                     *)
(***************************************************************************)
EXTENDS GenPat

PartOfBlock == { << <<0>>, <<1>> >>, << <<0, 1>>, <<2, 3>> >> }
AllAsked == Relation \X BOOLEAN

\* What find_relation asks for (group.cpp:160).
WholeBlock == { << <<0, 1>>, <<2, 3>> >> }
LargerAsked == { <<"LARGER_THAN", TRUE>> }
=============================================================================
