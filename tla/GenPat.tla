-------------------------------- MODULE GenPat --------------------------------
(***************************************************************************)
(* One call of Group::gen_pat (src/src/group.cpp:60-105): draw patterns of *)
(* two variables until they satisfy a relation, or until they do not, and  *)
(* write them over the inputs of the variables.                            *)
(*                                                                         *)
(* Patterns live in blocks, 64 bits in the code. random() fills the whole  *)
(* block, beyond the size of the pattern, and operator== compares the last *)
(* blocks modulo 1 << (size % 64), where 1 is an int: a shift by 32 or     *)
(* more is undefined, and the x86 builds take its distance modulo 32.      *)
(***************************************************************************)
EXTENDS Relations

CONSTANTS
  VarPairs,    \* the pairs of variables
  Asked,       \* the relations asked for, and whether they are to be satisfied
  BlockBits,   \* the bits of a block (64)
  ShiftBits    \* the distances by which an int can be shifted (32)

\* Two variables have no input in common (find_all_groups pairs different ones).
ASSUME GenPatAssumption ==
  /\ Asked \subseteq Relation \X BOOLEAN
  /\ BlockBits \in Nat \ {0}
  /\ ShiftBits \in Nat \ {0}
  /\ VarPairs \subseteq Seq(PI) \X Seq(PI)
  /\ \A vw \in VarPairs :
       /\ Len(vw[1]) = Len(vw[2])
       /\ Len(vw[1]) \in 1 .. BlockBits
       /\ \A m, n \in DOMAIN vw[1] :
            /\ vw[1][m] # vw[2][n]
            /\ m # n => vw[1][m] # vw[1][n] /\ vw[2][m] # vw[2][n]

Block == [0 .. BlockBits - 1 -> Bit]

VARIABLES
  vars2,     \* the variables v0 and v1
  rel,       \* the relation
  correct,   \* whether it is to be satisfied
  p,         \* the two patterns drawn, as blocks
  pat,       \* the pattern written to
  pc         \* "draw", "assign" or "done"

vars == <<vars2, rel, correct, p, pat, pc>>

\* Mutant of ZeroBlock: one bit short.
ShortBlock == [i \in 0 .. BlockBits - 2 |-> "0"]

\* Pattern(size): all bits 0.
ZeroBlock == [i \in 0 .. BlockBits - 1 |-> "0"]

Init ==
  /\ vars2 \in VarPairs
  /\ \E asked \in Asked : rel = asked[1] /\ correct = asked[2]
  /\ p = <<ZeroBlock, ZeroBlock>>
  /\ \E b \in Bit : pat = Corner(AllFree, b)
  /\ pc = "draw"

Size == Len(vars2[1])

\* Mutant of ComparedBits: counted from the index of the last bit.
ComparedBitsOfPrevious == ((Size - 1) % BlockBits) % ShiftBits

\* The bits that % mod keeps: 1 << (_size % 64) has that many zeros at its end.
ComparedBits == (Size % BlockBits) % ShiftBits

Same(a, b) == \A i \in 0 .. ComparedBits - 1 : a[i] = b[i]
Complement(a) == [i \in DOMAIN a |-> IF a[i] = "0" THEN "1" ELSE "0"]

Less(a, b) == Below(Size, a, b)

\* The conditions of the while loops; <= is "< or ==", >= is "> or ==".
Rejects(a, b) ==
  IF correct
  THEN CASE rel = "LARGER_THAN"     -> Less(a, b) \/ Same(a, b)
         [] rel = "SMALLER_THAN"    -> Less(b, a) \/ Same(a, b)
         [] rel = "LARGER_EQ_THAN"  -> Less(a, b)
         [] rel = "SMALLER_EQ_THAN" -> Less(b, a)
         [] OTHER                   -> FALSE
  ELSE CASE rel = "XOR"             -> Same(a, Complement(b))
         [] rel = "EQUIVALENCE"     -> Same(a, b)
         [] rel = "LARGER_THAN"     -> Less(b, a)
         [] rel = "SMALLER_THAN"    -> Less(a, b)
         [] rel = "LARGER_EQ_THAN"  -> Less(b, a) \/ Same(a, b)
         [] rel = "SMALLER_EQ_THAN" -> Less(a, b) \/ Same(a, b)
         [] OTHER                   -> FALSE

\* The blocks random() gives; the second is computed from the first for XOR and
\* EQUIVALENCE.
Drawn(a, b) ==
  correct => /\ rel = "XOR" => b = Complement(a)
             /\ rel = "EQUIVALENCE" => b = a

Reject ==
  /\ pc = "draw"
  /\ \E a, b \in Block : Drawn(a, b) /\ Rejects(a, b) /\ p' = <<a, b>>
  /\ UNCHANGED <<vars2, rel, correct, pat, pc>>

Accept ==
  /\ pc = "draw"
  /\ \E a, b \in Block : Drawn(a, b) /\ ~Rejects(a, b) /\ p' = <<a, b>>
  /\ pc' = "assign"
  /\ UNCHANGED <<vars2, rel, correct, pat>>

\* Mutant of Write: the first input gets the least significant bit.
WriteFromFront(x, v, b) ==
  [i \in PI |-> IF \E n \in DOMAIN v : v[n] = i
                THEN b[(CHOOSE n \in DOMAIN v : v[n] = i) - 1] ELSE x[i]]

\* pat.set( v[i] ) if p[size - i - 1]: the last input gets bit 0.
Write(x, v, b) ==
  [i \in PI |-> IF \E n \in DOMAIN v : v[n] = i
                THEN b[Len(v) - (CHOOSE n \in DOMAIN v : v[n] = i)] ELSE x[i]]

Assign2 ==
  /\ pc = "assign"
  /\ pat' = Write(Write(pat, vars2[1], p[1]), vars2[2], p[2])
  /\ pc' = "done"
  /\ UNCHANGED <<vars2, rel, correct, p>>

Returned == pc = "done" /\ UNCHANGED vars

Next == Reject \/ Accept \/ Assign2 \/ Returned

Spec == Init /\ [][Next]_vars

\* A loop that keeps running, and random numbers that do not avoid for ever the
\* patterns the loop is waiting for.
FairSpec == Spec /\ WF_vars(Next) /\ SF_vars(Accept)

-----------------------------------------------------------------------------
\* The variables of gen_pat have their types: every bit of the two blocks is defined,
\* so that comparisons read no bit beyond them (pattern.cpp:10-14).
TypeOK ==
  /\ vars2 \in VarPairs
  /\ rel \in Relation
  /\ correct \in BOOLEAN
  /\ p \in Block \X Block
  /\ pat \in Point
  /\ pc \in {"draw", "assign", "done"}

\* The comparator that build_circuit makes for the relation sees what gen_pat was
\* asked for: bits drawn with the least significant one first are written to
\* inputs with the most significant one first, and compared from there.
CircuitSeesDrawn ==
  pc = "done" /\ rel # "NO_RELATION" =>
    (pat \in Fanout(rel, vars2[1], vars2[2]) <=> correct)

\* "modify pattern to satisfy the relation (or not)" (group.h:17): gen_pat
\* finds such a pattern and returns.
Returns == <>(pc = "done")
=============================================================================
