------------------------------- MODULE MCLrg -------------------------------
(***************************************************************************)
(* An instance of Lrg for TLC: three inputs and three outputs, of which    *)
(* the second can be solved as an arithmetic expression.                   *)
(***************************************************************************)
EXTENDS Lrg

OneVariable == << {1} >>

\* Constant 1, or the input 2.
TwoCircuits == { [i \in PO |-> Point], [i \in PO |-> {x \in Point : x[2] = "1"}] }

\* The one-bit variables 0 and 1 are equal; 1 is larger than 2.
TwoTemplates ==
  { [info  |-> [nodes |-> << {x \in Point : x[0] = x[1]} >>, pis |-> <<2>>],
     cubes |-> << <<"1", "-">>, <<"0", "1">> >>],
    [info  |-> [nodes |-> << {x \in Point : x[1] = "1" /\ x[2] = "0"} >>, pis |-> <<0>>],
     cubes |-> << <<"1", "0">> >>] }

\* A string is given by its characters for the inputs 0, 1 and 2.
Str(a, b, c) == [i \in PI |-> <<a, b, c>>[i + 1]]

OneMinterm == { << Str("1", "1", "-") >> }

\* Cubes alone; the exclusive-or of all inputs; an exclusive-or in one half of the
\* input space, beside a cube of the other half; one in each half; one in a half that
\* is recorded as a cube as well.
SomeResults ==
  { [cubes |-> << Str("0", "-", "-"), Str("1", "1", "0") >>, xors |-> <<>>],
    [cubes |-> <<>>, xors |-> << <<AllFree, 1>> >>],
    [cubes |-> << Str("0", "1", "-") >>, xors |-> << <<Str("1", "-", "-"), 0>> >>],
    [cubes |-> <<>>, xors |-> << <<Str("0", "-", "-"), 1>>, <<Str("1", "-", "-"), 0>> >>],
    [cubes |-> << Str("1", "-", "-") >>, xors |-> << <<Str("1", "-", "-"), 0>> >>] }

\* Two black boxes. The first computes the second circuit; output 0 is the first
\* template or its complement; output 2 is a conjunction, or constant 1.
TwoBoxes ==
  { [i \in PO |-> CASE i = 0 -> {x \in Point : x[0] = x[1] \/ x[2] = "1"}
                    [] i = 1 -> On(2)
                    [] i = 2 -> On(0) \cap On(1)],
    [i \in PO |-> CASE i = 0 -> {x \in Point : x[0] # x[1] /\ x[2] = "0"}
                    [] i = 1 -> On(1) \cup On(2)
                    [] i = 2 -> Point] }

\* Fewer patterns than a batch, a full batch, and one more; wrong and right answers
\* in front and at the back.
SomeDraws ==
  { << Str("1", "1", "0") >>,
    << Str("0", "1", "0"), Str("1", "1", "1") >>,
    << Str("1", "1", "1"), Str("0", "1", "0"), Str("0", "0", "1") >>,
    << Str("0", "1", "0"), Str("0", "1", "0"), Str("1", "0", "1"), Str("1", "1", "0") >> }

\* Few gates or more; a directory that is clean, or one in which every file is there
\* and has few gates.
SomeGateCounts == 1 .. 2
TwoDirectories ==
  { [f \in {} |-> [gates |-> 1, ours |-> FALSE]],
    [f \in FileNames |-> [gates |-> 1, ours |-> FALSE]] }
=============================================================================
