----------------------------- MODULE MCTemplate -----------------------------
(***************************************************************************)
(* Four variables of one bit, A to D, so that two groups may be apart or   *)
(* share a variable, and two or three compact inputs be left; outputs that *)
(* are one relation with or without another input, two relations apart or  *)
(* with a common variable, or one relation in one context only. The depths *)
(* are those of the code, and two that are reached.                        *)
(***************************************************************************)
EXTENDS Template

OneBitVars == << << <<0>>, <<1>>, <<2>>, <<3>> >> >>

MCDepths == {[max |-> 25, exact |-> 16], [max |-> 2, exact |-> 1]}

Where(P(_, _, _, _)) ==
  [x \in Point |-> P(x[0] = "1", x[1] = "1", x[2] = "1", x[3] = "1")]

MCOracles ==
  { Where(LAMBDA a, b, c, d : FALSE),
    Where(LAMBDA a, b, c, d : (a = b) /\ c),
    Where(LAMBDA a, b, c, d : (a = b) # (c = d)),
    Where(LAMBDA a, b, c, d : (a = b) \/ (a = c)),
    Where(LAMBDA a, b, c, d : a \/ (b /\ ~c)) }
=============================================================================
