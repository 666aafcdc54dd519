---------------------------- MODULE MCBruteForce ----------------------------
(***************************************************************************)
(* An instance of BruteForce for TLC: three inputs, two outputs, and a     *)
(* third one beyond the first block.                                       *)
(***************************************************************************)
EXTENDS BruteForce

Where(P(_)) == [x \in Point |-> P({i \in PI : x[i] = "1"})]

\* Functions of none, one, two and three inputs. The conjunctions, and the
\* function that is 1 on two opposite points, can hide dependencies from samples.
OneOutput ==
  { Where(LAMBDA I : TRUE), Where(LAMBDA I : 2 \in I),
    Where(LAMBDA I : 0 \in I /\ 2 \notin I), Where(LAMBDA I : (0 \in I) # (1 \in I)),
    Where(LAMBDA I : I = {0, 2}), Where(LAMBDA I : I \in {{1}, {0, 2}}),
    Where(LAMBDA I : Cardinality(I) >= 2) }

TwoOutputsAndOne ==
  {[o \in PO |-> IF o = 2 THEN Where(LAMBDA I : 1 \in I) ELSE f[o]] :
     f \in [{0, 1} -> OneOutput]}
=============================================================================
