----------------------------- MODULE TimeBudget -----------------------------
(***************************************************************************)
(* How the main loop of lrg (src/src/lrg.cpp) shares its time among the    *)
(* primary outputs: the denominator is counted up over all outputs (lines  *)
(* 502-506), then each output that is too large for brute force is given a *)
(* deadline by calc_time_for_output (377-383) and learned (543-571).       *)
(*                                                                         *)
(* Time is counted in ticks. How long the learning of an output takes is   *)
(* free: it may return early, or be late by up to MaxOverrun.              *)
(***************************************************************************)
EXTENDS Integers, FiniteSets

CONSTANTS
  NumPO,        \* number of primary outputs
  Counts,       \* the dependency counts an output may have
  BruteForce,   \* BRUTE_FORCE_DEPTH (18)
  MaxDep,       \* MAX_DEP (25)
  TimeLimit,    \* TIME_LIMIT
  MaxStart,     \* bound: ticks spent before the outputs are learned
  MaxOverrun    \* bound: ticks an output runs without looking at the deadline

ASSUME TimeAssumption ==
  /\ NumPO \in Nat
  /\ Counts \subseteq 0 .. 255
  /\ BruteForce \in Nat /\ MaxDep \in 0 .. 63
  /\ TimeLimit \in Nat /\ MaxStart \in Nat /\ MaxOverrun \in Nat

PO == 0 .. NumPO - 1

VARIABLES
  dep,        \* out_dep[i].count()
  po_done,    \* po_done[i]: solved as an arithmetic expression already
  out,        \* the loop index i
  elapsed,    \* getElapsedTime(program_start_time)
  denom,      \* the global denom
  deadline,   \* the global deadline
  start,      \* history: when the first output was taken up
  total,      \* history: denom at that time
  overrun,    \* history: ticks spent outside the granted times since then
  pc          \* "estimate" (line 503), "learn" (line 515) or "done"

vars == <<dep, po_done, out, elapsed, denom, deadline, start, total, overrun, pc>>

\* TIME_LIMIT * 0.9
Horizon == (TimeLimit * 9) \div 10

Smaller(a, b) == IF a < b THEN a ELSE b
Larger(a, b) == IF a < b THEN b ELSE a

\* pow(2, k / 64) for a count k; the division is between integers.
PowersOfTwo == <<1, 2, 4, 8>>
Weight(k) == PowersOfTwo[(k \div 64) + 1]

\* The outputs that are learned against a deadline.
Timed(i) == ~po_done[i] /\ dep[i] > BruteForce

Init ==
  /\ dep \in [PO -> Counts]
  /\ po_done \in [PO -> BOOLEAN]
  /\ out = 0
  /\ elapsed \in 0 .. MaxStart
  /\ denom = 0
  /\ deadline = 0
  /\ start = 0
  /\ total = 0
  /\ overrun = 0
  /\ pc = "estimate"

\* Mutant of Estimate: outputs that are solved already are counted.
EstimateSolved ==
  /\ pc = "estimate"
  /\ out < NumPO
  /\ denom' = IF dep[out] > BruteForce
              THEN denom + Weight(Smaller(dep[out], MaxDep)) ELSE denom
  /\ out' = out + 1
  /\ UNCHANGED <<dep, po_done, elapsed, deadline, start, total, overrun, pc>>

\* One iteration of lines 503-506.
Estimate ==
  /\ pc = "estimate"
  /\ out < NumPO
  /\ denom' = IF Timed(out) THEN denom + Weight(Smaller(dep[out], MaxDep)) ELSE denom
  /\ out' = out + 1
  /\ UNCHANGED <<dep, po_done, elapsed, deadline, start, total, overrun, pc>>

StartLearning ==
  /\ pc = "estimate"
  /\ out = NumPO
  /\ out' = 0
  /\ start' = elapsed
  /\ total' = denom
  /\ pc' = "learn"
  /\ UNCHANGED <<dep, po_done, elapsed, denom, deadline, overrun>>

\* Line 519.
Skip ==
  /\ pc = "learn"
  /\ out < NumPO
  /\ po_done[out]
  /\ out' = out + 1
  /\ UNCHANGED <<dep, po_done, elapsed, denom, deadline, start, total, overrun, pc>>

\* Mutant of LearnByBruteForce: denom is counted down for this output too.
BruteForceCountsDown ==
  /\ pc = "learn"
  /\ out < NumPO
  /\ ~po_done[out]
  /\ dep[out] <= BruteForce
  /\ \E ticks \in 0 .. MaxOverrun :
       /\ elapsed' = elapsed + ticks
       /\ overrun' = overrun + ticks
  /\ denom' = denom - Weight(Smaller(dep[out], MaxDep))
  /\ out' = out + 1
  /\ UNCHANGED <<dep, po_done, deadline, start, total, pc>>

\* Lines 525-541: no deadline applies, and none is needed.
LearnByBruteForce ==
  /\ pc = "learn"
  /\ out < NumPO
  /\ ~po_done[out]
  /\ dep[out] <= BruteForce
  /\ \E ticks \in 0 .. MaxOverrun :
       /\ elapsed' = elapsed + ticks
       /\ overrun' = overrun + ticks
  /\ out' = out + 1
  /\ UNCHANGED <<dep, po_done, denom, deadline, start, total, pc>>

\* Mutants of Granted: without the factor 0.9 of the horizon, and without the
\* division by denom.
GrantedWholeLimit == ((TimeLimit - elapsed) * Weight(dep[out]) * 9) \div (denom * 10)
GrantedUnshared == ((Horizon - elapsed) * Weight(dep[out]) * 9) \div 10

\* calc_time_for_output; DISCOUNT is 0.9.
Granted == ((Horizon - elapsed) * Weight(dep[out]) * 9) \div (denom * 10)

CalcTime ==
  /\ deadline' = elapsed + Granted
  /\ denom' = denom - Weight(Smaller(dep[out], MaxDep))

\* Lines 544-565: the output is learned, in time or late.
LearnTimed ==
  /\ pc = "learn"
  /\ out < NumPO
  /\ Timed(out)
  /\ CalcTime
  /\ \E end \in elapsed .. Larger(elapsed, deadline') + MaxOverrun :
       /\ elapsed' = end
       /\ overrun' = overrun + Larger(0, end - deadline')
  /\ out' = out + 1
  /\ UNCHANGED <<dep, po_done, start, total, pc>>

Finish ==
  /\ pc = "learn"
  /\ out = NumPO
  /\ pc' = "done"
  /\ UNCHANGED <<dep, po_done, out, elapsed, denom, deadline, start, total, overrun>>

Returned == pc = "done" /\ UNCHANGED vars

Next == \/ Estimate \/ StartLearning \/ Skip \/ LearnByBruteForce \/ LearnTimed
        \/ Finish \/ Returned

Spec == Init /\ [][Next]_vars

-----------------------------------------------------------------------------
\* The variables of the time sharing have their types: the denominator is never
\* negative (lrg.cpp:382).
TypeOK ==
  /\ dep \in [PO -> 0 .. 255]
  /\ po_done \in [PO -> BOOLEAN]
  /\ out \in 0 .. NumPO
  /\ elapsed \in Nat
  /\ denom \in Nat
  /\ deadline \in Int
  /\ start \in Nat
  /\ total \in Int
  /\ overrun \in Nat
  /\ pc \in {"estimate", "learn", "done"}

\* The timed outputs the loop has passed, and those ahead of it.
TimedBefore == {i \in 0 .. out - 1 : Timed(i)}
TimedAhead == {i \in out .. NumPO - 1 : Timed(i)}

\* The denominator is the number of timed outputs that are still to come, so the
\* division in calc_time_for_output is by at least 1. The loops at lines
\* 503 and 515 have to agree on which outputs count and how much.
DenominatorCountsAhead ==
  /\ pc = "estimate" => denom = Cardinality(TimedBefore)
  /\ pc = "learn" => denom = Cardinality(TimedAhead)

\* No output is granted time beyond 90% of the limit: a deadline past that point
\* has passed already when it is computed.
DeadlineBeforeHorizon == deadline <= Horizon \/ deadline <= elapsed

\* Nobody is starved: what is left per output ahead, counting back the time that
\* was spent outside the granted times, is at least what was there per output
\* when the first one was taken up.
NoStarvation ==
  pc = "learn" /\ start <= Horizon =>
    (Horizon - elapsed + overrun) * total >= (Horizon - start) * denom

\* A deadline lies within the time limit of the program ("time limit for each
\* output", lrg.cpp:279, with TIME_LIMIT 2700, lrg.cpp:30).
DeadlineWithinTimeLimit ==
  pc = "learn" /\ elapsed <= TimeLimit => deadline <= TimeLimit
=============================================================================
