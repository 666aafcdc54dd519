------------------------------ MODULE CubeSpace ------------------------------
(***************************************************************************)
(* Input patterns and cubes: the vocabulary of lrg (src/src/pattern.h).    *)
(* An input pattern assigns a bit to every primary input; a cube assigns a *)
(* bit to some of them and leaves the others free ('-').                   *)
(***************************************************************************)
EXTENDS Integers, FiniteSets

CONSTANT NumPI          \* number of primary inputs, numPI in the code

ASSUME NumPIAssumption == NumPI \in Nat \ {0}

PI == 0 .. NumPI - 1
Bit == {"0", "1"}
DontCare == "-"

Point == [PI -> Bit]
CubeString == [PI -> Bit \cup {DontCare}]
AllFree == [i \in PI |-> DontCare]

Free(s) == {i \in PI : s[i] = DontCare}
Assigned(s) == PI \ Free(s)

\* The points of a cube string: those that agree with every assigned bit.
Covers(s, x) == \A i \in PI : s[i] \in {DontCare, x[i]}
Region(s) == {x \in Point : Covers(s, x)}

Flip(x, i) == [x EXCEPT ![i] = IF @ = "0" THEN "1" ELSE "0"]

\* The point of a cube whose free inputs all have value b.
Corner(s, b) == [i \in PI |-> IF s[i] = DontCare THEN b ELSE s[i]]

\* The parity of the bits of x at the inputs in I.
Parity(x, I) == Cardinality({i \in I : x[i] = "1"}) % 2

(***************************************************************************)
(* Class Cube. Its _done flag is never read and is left out.               *)
(***************************************************************************)
Cube == [s : CubeString, size : Int, tend : BOOLEAN]

\* Cube(n): the constructor leaves _tend uninitialised, so t is any value.
NewCube(t) == [s |-> AllFree, size |-> 0, tend |-> t]

\* Mutant of Assign: every assignment of a value counts, a second one too.
AssignCountsTwice(c, pos, v) ==
  [s    |-> [c.s EXCEPT ![pos] = v],
   size |-> IF v # DontCare THEN c.size + 1 ELSE c.size - 1,
   tend |-> c.tend]

Assign(c, pos, v) ==
  [s    |-> [c.s EXCEPT ![pos] = v],
   size |-> CASE c.s[pos] = DontCare /\ v # DontCare -> c.size + 1
              [] c.s[pos] # DontCare /\ v = DontCare -> c.size - 1
              [] OTHER                               -> c.size,
   tend |-> c.tend]

SetTendency(c, t) == [c EXCEPT !.tend = t]

\* dst = src: the assignment operator copies _s and _size, and not _tend.
CopyAssign(dst, src) == [src EXCEPT !.tend = dst.tend]

(***************************************************************************)
(* The function that the records of an output describe: each of the cubes  *)
(* says the complement of the output's tendency, each cube of xors the     *)
(* exclusive-or of its free inputs, possibly inverted (lrg.cpp:270-295);   *)
(* the tendency is left where none says its complement, for the records    *)
(* are combined by "or" (lrg.cpp:586-596).                                 *)
(***************************************************************************)
XorValue(xc, x) == (Parity(x, Free(xc[1])) + xc[2]) % 2 = 1

RecordedValue(cubes, xors, tendency, x) ==
  (\/ \E s \in cubes : Covers(s, x)
   \/ \E xc \in xors : Covers(xc[1], x) /\ (XorValue(xc, x) # tendency)) # tendency
=============================================================================
