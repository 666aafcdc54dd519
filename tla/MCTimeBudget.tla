---------------------------- MODULE MCTimeBudget ----------------------------
(***************************************************************************)
(* Instances of TimeBudget for TLC.                                        *)
(***************************************************************************)
EXTENDS TimeBudget

\* A brute-force output, and timed ones on both sides of MAX_DEP.
SmallCounts == {5, 19, 63}

\* Outputs that depend on one and on two blocks of 64 inputs.
WideCounts == {19, 64, 130}
=============================================================================
