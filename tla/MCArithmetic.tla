---------------------------- MODULE MCArithmetic ----------------------------
(***************************************************************************)
(* Five inputs and four outputs under namings that group them differently: *)
(* two variables of two bits each and an output variable of three or four, *)
(* a variable of three bits, two output variables, none at all. The black  *)
(* boxes are sums of multiples of two variables A and B, and some that are *)
(* no such sum.                                                            *)
(***************************************************************************)
EXTENDS Arithmetic, TLC

Number(len, n) == [len |-> len, val |-> n]
Word(len, n) == [len |-> len, val |-> 10 ^ len + n]

PIPart == Word(2, 0)
POPart == Word(2, 1)
VarA == Word(1, 0)
VarB == Word(1, 1)
VarY == Word(1, 2)
Reset == Word(5, 0)

Digit(n) == Number(1, n)

\* A is <<2, 0>>, B is <<3, 1>> and the reset is 4 in all but the last two namings.
\* PI_A_0 PI_B_9 PI_A_1 PI_B_10 PI_RESET
TwoDigits == 0 :> <<PIPart, VarA, Digit(0)>> @@ 1 :> <<PIPart, VarB, Digit(9)>>
             @@ 2 :> <<PIPart, VarA, Digit(1)>> @@ 3 :> <<PIPart, VarB, Number(2, 10)>>
             @@ 4 :> <<PIPart, Reset>>

\* A_A_0_ PI_PI_B_2 A_A_7 B_3_ PI_RESET
Trimmed == 0 :> <<VarA, VarA, Digit(0), NoPart>> @@ 1 :> <<PIPart, PIPart, VarB, Digit(2)>>
           @@ 2 :> <<VarA, VarA, Digit(7)>> @@ 3 :> <<VarB, Digit(3), NoPart>>
           @@ 4 :> <<PIPart, Reset>>

\* A_0 B_0 A_1 B_1 B: three bits fall into B, the one without a number is first.
Shared == 0 :> <<VarA, Digit(0)>> @@ 1 :> <<VarB, Digit(0)>>
          @@ 2 :> <<VarA, Digit(1)>> @@ 3 :> <<VarB, Digit(1)>> @@ 4 :> <<VarB>>

\* A B Y RESET A_1: the two inputs of A are the first and the last one.
Few == 0 :> <<VarA>> @@ 1 :> <<VarB>> @@ 2 :> <<VarY>> @@ 3 :> <<Reset>>
       @@ 4 :> <<VarA, Digit(1)>>

\* A B Y RESET PI: no two inputs are of one variable.
Single == 0 :> <<VarA>> @@ 1 :> <<VarB>> @@ 2 :> <<VarY>> @@ 3 :> <<Reset>> @@ 4 :> <<PIPart>>

\* PO_Y_0 PO_Y_10 PO_RESET PO_Y_9, weights 1, 4 and 2
ThreeOut == 0 :> <<POPart, VarY, Digit(0)>> @@ 1 :> <<POPart, VarY, Number(2, 10)>>
            @@ 2 :> <<POPart, Reset>> @@ 3 :> <<POPart, VarY, Digit(9)>>
\* Y_0 Y_2 Y_3 Y_1
FourOut == 0 :> <<VarY, Digit(0)>> @@ 1 :> <<VarY, Digit(2)>>
           @@ 2 :> <<VarY, Digit(3)>> @@ 3 :> <<VarY, Digit(1)>>
\* Y_0 B_1 B_0 Y_1
TwoTwo == 0 :> <<VarY, Digit(0)>> @@ 1 :> <<VarB, Digit(1)>>
          @@ 2 :> <<VarB, Digit(0)>> @@ 3 :> <<VarY, Digit(1)>>

\* The bit of the value each output shows; 9 is above all of them.
BitOf == [three |-> (0 :> 0 @@ 1 :> 2 @@ 2 :> 9 @@ 3 :> 1),
          four  |-> (0 :> 0 @@ 1 :> 2 @@ 2 :> 3 @@ 3 :> 1)]

A(x) == VarValue(<<2, 0>>, x)
B(x) == VarValue(<<3, 1>>, x)

Shown(bit, F(_)) == [o \in PO |-> {x \in Point : (F(x) \div 2 ^ bit[o]) % 2 = 1}]

Linear(bit, C, R, S) ==
  {Shown(bit, LAMBDA x : (c + r * A(x) + s * B(x)) % 512) : c \in C, r \in R, s \in S}

\* A product, a maximum, a square, two sums that hold on part of the points, and one
\* that is cleared by the reset.
Others(bit) ==
  { Shown(bit, LAMBDA x : A(x) * B(x)),
    Shown(bit, LAMBDA x : IF A(x) < B(x) THEN B(x) ELSE A(x)),
    Shown(bit, LAMBDA x : A(x) * A(x) + 3 * B(x)),
    Shown(bit, LAMBDA x : IF A(x) = 3 THEN 0 ELSE 1 + A(x) + 7 * B(x)),
    Shown(bit, LAMBDA x : IF B(x) < 2 THEN 6 * A(x) + B(x) ELSE A(x)),
    Shown(bit, LAMBDA x : IF x[4] = "1" THEN 0 ELSE 2 + A(x) + 3 * B(x)) }

Named(pi, po, ons) == {[PI_name |-> pi, PO_name |-> po, on |-> on] : on \in ons}

Eight == 0 .. 7
SomeBoxes ==
  UNION {Named(TwoDigits, ThreeOut, Linear(BitOf.three, Eight, Eight, Eight)),
         Named(Trimmed, FourOut, Linear(BitOf.four, {0, 11}, {1, 6, 13}, {0, 3, 8, 15})),
         Named(Shared, ThreeOut, Linear(BitOf.three, {0, 5}, {0, 3}, {1, 6})),
         Named(Shared, TwoTwo, Linear(BitOf.three, {0, 5}, {0, 3}, {1, 6})),
         Named(Few, TwoTwo, Linear(BitOf.three, {0, 5}, {0, 3}, {1, 6})),
         Named(Single, ThreeOut, Linear(BitOf.three, {1}, {1}, {1})),
         Named(TwoDigits, ThreeOut, Others(BitOf.three)),
         Named(Trimmed, FourOut, Others(BitOf.four)),
         Named(Trimmed, TwoTwo, Others(BitOf.four))}
=============================================================================
