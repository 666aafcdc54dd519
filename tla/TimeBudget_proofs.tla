------------------------- MODULE TimeBudget_proofs -------------------------
(***************************************************************************)
(* The invariants of TimeBudget, for any number of outputs and any time    *)
(* limit, as long as no output depends on 64 inputs or more.               *)
(***************************************************************************)
EXTENDS TimeBudget, FiniteSetTheorems, TLAPS

\* The counts for which pow(2, count / 64) is 1.
OneBlock == Counts \subseteq 0 .. 63

\* Up to 63 dependencies have weight 1.
LEMMA WeightOne == \A k \in 0 .. 63 : Weight(k) = 1
<1>1. \A k \in 0 .. 63 : k \div 64 = 0
  OBVIOUS
<1> QED  BY <1>1 DEF Weight, PowersOfTwo

\* So have the dependencies capped at the maximum.
LEMMA SmallerWeight ==
  ASSUME NEW k \in 0 .. 255
  PROVE  Weight(Smaller(k, MaxDep)) = 1
<1>1. Smaller(k, MaxDep) \in 0 .. 63
  BY TimeAssumption DEF Smaller
<1> QED  BY <1>1, WeightOne

\* The end of the time there is.
LEMMA HorizonNat == Horizon \in Nat
BY TimeAssumption DEF Horizon

-----------------------------------------------------------------------------
(* Arithmetic.                                                             *)

\* A product grows with its factor.
LEMMA TimesMonotone ==
  ASSUME NEW a \in Int, NEW b \in Int, NEW c \in Int, a <= b, c >= 0
  PROVE  a * c <= b * c
OBVIOUS

\* A factor may be cancelled.
LEMMA TimesCancel ==
  ASSUME NEW a \in Int, NEW b \in Int, b >= 1, b * a >= 0
  PROVE  a >= 0
OBVIOUS

\* A quotient times its divisor is not above the dividend.
LEMMA QuotientBelow ==
  ASSUME NEW a \in Int, NEW b \in Int, b >= 1
  PROVE  a \div b \in Int /\ b * (a \div b) <= a
OBVIOUS

\* Time spent past a grant g, from e to e2, is counted back by the overrun.
LEMMA OverrunCountsBack ==
  ASSUME NEW h \in Int, NEW e \in Int, NEW v \in Int, NEW g \in Int,
         NEW e2 \in Int, NEW v2 \in Int, v2 >= v + (e2 - (e + g))
  PROVE  ((h - e) + v) - g <= (h - e2) + v2
OBVIOUS

\* The heart of NoStarvation: granting 9/10 of t / d leaves at least b for each
\* of the d - 1 outputs that are still to come. Here t is the time left, a the
\* time left with the overrun counted back, and g the grant.
LEMMA GrantLeavesShare ==
  ASSUME NEW t \in Int, NEW a \in Int, t <= a,
         NEW d \in Int, d >= 1, NEW g \in Int, (d * 10) * g <= t * 9,
         NEW n \in Int, n >= 0, NEW b \in Int, b >= 0,
         a * n >= b * d
  PROVE  (a - g) * n >= b * (d - 1)
<1> DEFINE rest == (a - g) * n - b * (d - 1)
<1>1. (d * 10) * g <= a * 9
  OBVIOUS
<1>2. ((d * 10) * g) * n <= (a * 9) * n
  BY <1>1, TimesMonotone
<1>3. (b * d) * (10 * d - 9) <= (a * n) * (10 * d - 9)
  <2>1. b * d \in Int /\ a * n \in Int /\ 10 * d - 9 \in Int /\ 10 * d - 9 >= 0
    OBVIOUS
  <2> QED  BY <2>1, TimesMonotone
<1>4. b * d >= 0
  OBVIOUS
<1>5. (d * 10) * rest >= 0
  <2>1. (d * 10) * rest = ((a * n) * (10 * d) - ((d * 10) * g) * n) - (b * d) * (10 * d - 10)
    OBVIOUS
  <2>2. ((d * 10) * g) * n <= (a * n) * 9
    BY <1>2
  <2>3. (a * n) * (10 * d) - (a * n) * 9 = (a * n) * (10 * d - 9)
    OBVIOUS
  <2>4. (b * d) * (10 * d - 9) = (b * d) * (10 * d - 10) + b * d
    OBVIOUS
  <2> QED  BY <1>3, <1>4, <2>1, <2>2, <2>3, <2>4
<1>6. rest \in Int /\ d * 10 \in Int /\ d * 10 >= 1
  OBVIOUS
<1>7. rest >= 0
  <2> HIDE DEF rest
  <2> QED  BY <1>5, <1>6, TimesCancel
<1> QED  BY <1>7

-----------------------------------------------------------------------------
(* Counting the timed outputs.                                             *)

TimedIn(a, b) == {i \in a .. b : Timed(i)}

\* The timed outputs of an interval can be counted.
LEMMA TimedInFinite ==
  ASSUME NEW a \in Int, NEW b \in Int
  PROVE  IsFiniteSet(TimedIn(a, b)) /\ Cardinality(TimedIn(a, b)) \in Nat
<1>1. IsFiniteSet(a .. b)
  BY FS_Interval
<1>2. TimedIn(a, b) \in SUBSET (a .. b)
  BY DEF TimedIn
<1> QED  BY <1>1, <1>2, FS_Subset, FS_CardinalityType

\* One more output at the end.
LEMMA TimedInGrows ==
  ASSUME NEW a \in Int, NEW b \in Int, a <= b + 1
  PROVE  Cardinality(TimedIn(a, b + 1)) =
           Cardinality(TimedIn(a, b)) + (IF Timed(b + 1) THEN 1 ELSE 0)
<1>1. b + 1 \notin TimedIn(a, b)
  BY DEF TimedIn
<1>2. CASE Timed(b + 1)
  <2>1. TimedIn(a, b + 1) = TimedIn(a, b) \cup {b + 1}
    BY <1>2 DEF TimedIn
  <2>2. Cardinality(TimedIn(a, b) \cup {b + 1}) = Cardinality(TimedIn(a, b)) + 1
    BY <1>1, TimedInFinite, FS_AddElement
  <2> QED  BY <1>2, <2>1, <2>2
<1>3. CASE ~Timed(b + 1)
  <2>1. TimedIn(a, b + 1) = TimedIn(a, b)
    BY <1>3 DEF TimedIn
  <2> QED  BY <1>3, <2>1, TimedInFinite
<1> QED  BY <1>2, <1>3

\* One output less at the beginning.
LEMMA TimedInShrinks ==
  ASSUME NEW a \in Int, NEW b \in Int, a <= b
  PROVE  Cardinality(TimedIn(a, b)) =
           Cardinality(TimedIn(a + 1, b)) + (IF Timed(a) THEN 1 ELSE 0)
<1>1. a \notin TimedIn(a + 1, b) /\ a + 1 \in Int
  BY DEF TimedIn
<1>2. CASE Timed(a)
  <2>1. TimedIn(a, b) = TimedIn(a + 1, b) \cup {a}
    BY <1>2 DEF TimedIn
  <2>2. Cardinality(TimedIn(a + 1, b) \cup {a}) = Cardinality(TimedIn(a + 1, b)) + 1
    BY <1>1, TimedInFinite, FS_AddElement
  <2> QED  BY <1>2, <2>1, <2>2
<1>3. CASE ~Timed(a)
  <2>1. TimedIn(a, b) = TimedIn(a + 1, b)
    BY <1>3 DEF TimedIn
  <2> QED  BY <1>1, <1>3, <2>1, TimedInFinite
<1> QED  BY <1>2, <1>3

-----------------------------------------------------------------------------
(***************************************************************************)
(* The inductive invariant: the denominator is the count of timed outputs  *)
(* passed (in the first loop) or ahead (in the second), and nothing has    *)
(* been spent before the second loop starts.                               *)
(***************************************************************************)
IInv ==
  /\ TypeOK
  /\ dep \in [PO -> Counts]
  /\ pc = "estimate" => denom = Cardinality(TimedIn(0, out - 1)) /\ overrun = 0 /\ deadline = 0
  /\ pc = "learn" => denom = Cardinality(TimedIn(out, NumPO - 1)) /\ total >= 0
  /\ DeadlineBeforeHorizon
  /\ NoStarvation

\* Timed looks at variables that no step changes.
LEMMA TimedStays ==
  ASSUME dep' = dep, po_done' = po_done, NEW a, NEW b
  PROVE  {i \in a .. b : Timed(i)'} = TimedIn(a, b)
BY DEF TimedIn, Timed

\* Nothing is estimated and nothing learned at first.
LEMMA InitIInv == Init => IInv
<1> SUFFICES ASSUME Init PROVE IInv
  OBVIOUS
<1>1. TimedIn(0, out - 1) = {}
  BY DEF Init, TimedIn
<1>2. Cardinality(TimedIn(0, out - 1)) = 0
  BY <1>1, FS_EmptySet
<1>3. TypeOK
  <2>1. dep \in [PO -> 0 .. 255]
    BY TimeAssumption DEF Init
  <2>2. out \in 0 .. NumPO /\ elapsed \in Nat
    BY TimeAssumption DEF Init
  <2> QED  BY <2>1, <2>2 DEF Init, TypeOK
<1>4. DeadlineBeforeHorizon
  BY HorizonNat DEF Init, DeadlineBeforeHorizon
<1> QED  BY <1>2, <1>3, <1>4 DEF Init, IInv, NoStarvation

\* An output that is granted time: the division is by at least 1, and the grant
\* is at most 9/10 of an equal share.
LEMMA GrantIsShare ==
  ASSUME IInv, OneBlock, pc = "learn", out < NumPO, Timed(out)
  PROVE  /\ denom \in Int /\ denom >= 1
         /\ Granted \in Int
         /\ (denom * 10) * Granted <= (Horizon - elapsed) * 9
         /\ Weight(Smaller(dep[out], MaxDep)) = 1
<1>1. out \in 0 .. NumPO - 1 /\ dep[out] \in 0 .. 63
  <2>1. out \in 0 .. NumPO - 1
    BY TimeAssumption DEF IInv, TypeOK
  <2>2. dep[out] \in Counts
    BY <2>1 DEF IInv, PO
  <2> QED  BY <2>1, <2>2 DEF OneBlock
<1>2. Weight(dep[out]) = 1 /\ Weight(Smaller(dep[out], MaxDep)) = 1
  BY <1>1, WeightOne, SmallerWeight
<1>3. denom \in Int /\ denom >= 1
  <2>1. denom = Cardinality(TimedIn(out, NumPO - 1))
    BY DEF IInv
  <2>2. Cardinality(TimedIn(out, NumPO - 1)) = Cardinality(TimedIn(out + 1, NumPO - 1)) + 1
    BY <1>1, TimeAssumption, TimedInShrinks
  <2>3. Cardinality(TimedIn(out + 1, NumPO - 1)) \in Nat
    <3>1. out + 1 \in Int /\ NumPO - 1 \in Int
      BY <1>1, TimeAssumption
    <3> QED  BY <3>1, TimedInFinite
  <2> QED  BY <2>1, <2>2, <2>3
<1> DEFINE a == (Horizon - elapsed) * 9
           b == denom * 10
<1>4. a \in Int /\ b \in Int /\ b >= 1
  BY <1>3, HorizonNat DEF IInv, TypeOK
<1>5. Granted = a \div b
  <2>1. (Horizon - elapsed) * Weight(dep[out]) * 9 = a
    BY <1>2, <1>4, HorizonNat DEF IInv, TypeOK
  <2> QED  BY <2>1 DEF Granted
<1>6. a \div b \in Int /\ b * (a \div b) <= a
  <2> HIDE DEF a, b
  <2> QED  BY <1>4, QuotientBelow
<1> QED  BY <1>2, <1>3, <1>5, <1>6

\* An output learned with a deadline leaves their shares to those after it.
LEMMA StepLearnTimed ==
  ASSUME IInv, OneBlock, LearnTimed
  PROVE  IInv'
<1> DEFINE t == Horizon - elapsed
<1>0. /\ pc = "learn" /\ out < NumPO /\ Timed(out) /\ CalcTime
      /\ out' = out + 1 /\ dep' = dep /\ po_done' = po_done
      /\ start' = start /\ total' = total /\ pc' = pc
  BY DEF LearnTimed
<1>1. PICK g \in Int :
        /\ g = Granted /\ denom \in Int /\ denom >= 1 /\ (denom * 10) * g <= t * 9
        /\ Weight(Smaller(dep[out], MaxDep)) = 1
  BY <1>0, GrantIsShare
<1>2. /\ out \in Nat /\ NumPO \in Nat /\ elapsed \in Nat /\ overrun \in Nat
      /\ start \in Nat /\ total \in Int /\ total >= 0 /\ Horizon \in Nat
      /\ MaxOverrun \in Nat
  BY <1>0, HorizonNat, TimeAssumption DEF IInv, TypeOK
<1>3. deadline' = elapsed + g /\ denom' = denom - 1
  BY <1>0, <1>1 DEF CalcTime
<1>4. PICK end \in elapsed .. Larger(elapsed, deadline') + MaxOverrun :
        elapsed' = end /\ overrun' = overrun + Larger(0, end - deadline')
  BY DEF LearnTimed
<1>5. /\ elapsed' \in Nat /\ elapsed' >= elapsed /\ overrun' \in Nat
      /\ overrun' >= overrun + (elapsed' - (elapsed + g))
  <2>1. end \in Int /\ end >= elapsed
    BY <1>1, <1>2, <1>3, <1>4
  <2> QED  BY <1>1, <1>2, <1>3, <1>4, <2>1 DEF Larger
<1>6. denom' = Cardinality(TimedIn(out + 1, NumPO - 1))
  <2>1. Cardinality(TimedIn(out, NumPO - 1)) = Cardinality(TimedIn(out + 1, NumPO - 1)) + 1
    BY <1>0, <1>2, TimedInShrinks
  <2>2. denom = Cardinality(TimedIn(out, NumPO - 1))
    BY <1>0 DEF IInv
  <2>3. Cardinality(TimedIn(out + 1, NumPO - 1)) \in Nat
    <3>1. out + 1 \in Int /\ NumPO - 1 \in Int
      BY <1>2
    <3> QED  BY <3>1, TimedInFinite
  <2> QED  BY <1>3, <2>1, <2>2, <2>3
<1>7. (TimedIn(out, NumPO - 1))' = TimedIn(out + 1, NumPO - 1)
  BY <1>0, TimedStays DEF TimedIn
<1>8. TypeOK' /\ dep' \in [PO -> Counts]
  <2>1. denom' \in Nat
    <3>1. out + 1 \in Int /\ NumPO - 1 \in Int
      BY <1>2
    <3> QED  BY <1>6, <3>1, TimedInFinite
  <2> QED  BY <1>0, <1>1, <1>2, <1>3, <1>5, <2>1 DEF IInv, TypeOK
<1>9. DeadlineBeforeHorizon'
  <2>1. t >= 0 => g <= t
    BY <1>1, <1>2
  <2>2. t < 0 => g < 0
    BY <1>1, <1>2
  <2>3. Horizon' = Horizon
    BY DEF Horizon
  <2> QED  BY <1>1, <1>2, <1>3, <1>5, <2>1, <2>2, <2>3 DEF DeadlineBeforeHorizon
<1>10. NoStarvation'
  <2> SUFFICES ASSUME start <= Horizon
               PROVE  ((Horizon - elapsed') + overrun') * total >= (Horizon - start) * (denom - 1)
    BY <1>0, <1>3 DEF NoStarvation, Horizon
  <2> DEFINE a == t + overrun
             b == Horizon - start
             rest == (Horizon - elapsed') + overrun'
  <2>1. a * total >= b * denom
    BY <1>0, <1>2 DEF IInv, NoStarvation
  <2>2. /\ t \in Int /\ a \in Int /\ t <= a /\ b \in Int /\ b >= 0
        /\ rest \in Int /\ a - g \in Int /\ a - g <= rest
    <3>2. /\ t \in Int /\ a \in Int /\ t <= a /\ b \in Int /\ b >= 0
      BY <1>2
    <3>3. rest \in Int /\ a - g \in Int
      BY <1>2, <1>5
    <3>4. a - g <= rest
      <4>1. /\ Horizon \in Int /\ elapsed \in Int /\ overrun \in Int
            /\ elapsed' \in Int /\ overrun' \in Int
        BY <1>2, <1>5
      <4> QED  BY <1>5, <4>1, OverrunCountsBack
    <3> QED  BY <3>2, <3>3, <3>4
  <2> HIDE DEF t, a, b, rest
  <2>3. (a - g) * total >= b * (denom - 1)
    BY <1>1, <1>2, <2>1, <2>2, GrantLeavesShare
  <2>4. (a - g) * total <= rest * total
    BY <1>2, <2>2, TimesMonotone
  <2>5. /\ (a - g) * total \in Int /\ rest * total \in Int /\ b * (denom - 1) \in Int
    BY <1>1, <1>2, <2>2
  <2>6. rest * total >= b * (denom - 1)
    BY <2>3, <2>4, <2>5
  <2> QED  BY <2>6 DEF rest, b
<1> QED  BY <1>0, <1>2, <1>6, <1>7, <1>8, <1>9, <1>10 DEF IInv

\* Estimating an output adds its weight to the total.
LEMMA StepEstimate ==
  ASSUME IInv, Estimate
  PROVE  IInv'
<1>1. /\ out \in 0 .. NumPO - 1 /\ out \in Nat /\ NumPO \in Nat /\ out' = out + 1
      /\ pc = "estimate" /\ pc' = pc /\ dep' = dep /\ po_done' = po_done
      /\ UNCHANGED <<elapsed, deadline, start, total, overrun>>
  BY TimeAssumption DEF IInv, TypeOK, Estimate
<1>2. Weight(Smaller(dep[out], MaxDep)) = 1
  <2>1. dep[out] \in 0 .. 255
    BY <1>1 DEF IInv, TypeOK, PO
  <2> QED  BY <2>1, SmallerWeight
<1>3. Cardinality(TimedIn(0, out)) =
        Cardinality(TimedIn(0, out - 1)) + (IF Timed(out) THEN 1 ELSE 0)
  <2>1. out - 1 \in Int /\ 0 \in Int /\ 0 <= (out - 1) + 1 /\ (out - 1) + 1 = out
    BY <1>1
  <2> QED  BY <2>1, TimedInGrows
<1>4. denom = Cardinality(TimedIn(0, out - 1)) /\ denom \in Int
  BY <1>1 DEF IInv, TypeOK
<1>5. denom' = Cardinality(TimedIn(0, out))
  BY <1>2, <1>3, <1>4 DEF Estimate
<1>6. (TimedIn(0, out - 1))' = TimedIn(0, out)
  <2>1. out' - 1 = out
    BY <1>1
  <2> QED  BY <1>1, <2>1, TimedStays DEF TimedIn
<1>7. denom' \in Nat
  <2>1. 0 \in Int /\ out \in Int
    BY <1>1
  <2> QED  BY <1>5, <2>1, TimedInFinite
<1>8. TypeOK'
  BY <1>1, <1>7 DEF IInv, TypeOK
<1>9. DeadlineBeforeHorizon' /\ NoStarvation'
  BY <1>1 DEF IInv, DeadlineBeforeHorizon, NoStarvation, Horizon
<1> QED  BY <1>1, <1>5, <1>6, <1>8, <1>9 DEF IInv

\* When learning starts, the denominator counts all timed outputs.
LEMMA StepStartLearning ==
  ASSUME IInv, StartLearning
  PROVE  IInv'
<1>1. /\ out = NumPO /\ NumPO \in Nat /\ out' = 0
      /\ pc = "estimate" /\ pc' = "learn" /\ dep' = dep /\ po_done' = po_done
      /\ start' = elapsed /\ total' = denom
      /\ UNCHANGED <<elapsed, denom, deadline, overrun>>
  BY TimeAssumption DEF StartLearning
<1>2. denom = Cardinality(TimedIn(0, NumPO - 1)) /\ denom \in Nat /\ overrun = 0
  <2>1. 0 \in Int /\ NumPO - 1 \in Int
    BY <1>1
  <2> QED  BY <1>1, <2>1, TimedInFinite DEF IInv
<1>3. (TimedIn(out, NumPO - 1))' = TimedIn(0, NumPO - 1)
  BY <1>1, TimedStays DEF TimedIn
<1>4. TypeOK'
  BY <1>1, <1>2 DEF IInv, TypeOK
<1>5. DeadlineBeforeHorizon'
  BY <1>1 DEF IInv, DeadlineBeforeHorizon, Horizon
<1>6. NoStarvation'
  <2>1. ((Horizon - elapsed) + overrun) * denom >= (Horizon - elapsed) * denom
    <3>1. Horizon \in Int /\ elapsed \in Int
      BY HorizonNat DEF IInv, TypeOK
    <3> QED  BY <1>2, <3>1
  <2> QED  BY <1>1, <2>1 DEF NoStarvation, Horizon
<1> QED  BY <1>1, <1>2, <1>3, <1>4, <1>5, <1>6 DEF IInv

\* An output that takes no grant: what it spends is counted back in full.
LEMMA StepUntimed ==
  ASSUME IInv, Skip \/ LearnByBruteForce
  PROVE  IInv'
<1>1. /\ out \in Nat /\ out < NumPO /\ NumPO \in Nat /\ out' = out + 1 /\ ~Timed(out)
      /\ pc = "learn" /\ pc' = pc /\ dep' = dep /\ po_done' = po_done
      /\ UNCHANGED <<denom, deadline, start, total>>
  <2>1. out \in 0 .. NumPO - 1
    BY TimeAssumption DEF Skip, LearnByBruteForce, IInv, TypeOK
  <2>2. dep[out] \in 0 .. 255
    BY <2>1 DEF IInv, TypeOK, PO
  <2> QED  BY <2>1, <2>2, TimeAssumption DEF Skip, LearnByBruteForce, Timed
<1>2. PICK ticks \in Nat : elapsed' = elapsed + ticks /\ overrun' = overrun + ticks
  <2>1. CASE Skip
    BY <2>1 DEF Skip, IInv, TypeOK
  <2>2. CASE LearnByBruteForce
    BY <2>2, TimeAssumption DEF LearnByBruteForce
  <2> QED  BY <2>1, <2>2
<1>3. elapsed \in Nat /\ overrun \in Nat /\ Horizon \in Nat
  BY HorizonNat DEF IInv, TypeOK
<1>4. denom = Cardinality(TimedIn(out + 1, NumPO - 1))
  <2>1. denom = Cardinality(TimedIn(out, NumPO - 1))
    BY <1>1 DEF IInv
  <2>2. TimedIn(out, NumPO - 1) = TimedIn(out + 1, NumPO - 1)
    BY <1>1 DEF TimedIn
  <2> QED  BY <2>1, <2>2
<1>5. (TimedIn(out, NumPO - 1))' = TimedIn(out + 1, NumPO - 1)
  BY <1>1, TimedStays DEF TimedIn
<1>6. TypeOK'
  BY <1>1, <1>2, <1>3 DEF IInv, TypeOK
<1>7. DeadlineBeforeHorizon'
  <2>1. deadline \in Int
    BY DEF IInv, TypeOK
  <2> QED  BY <1>1, <1>2, <1>3, <2>1 DEF IInv, DeadlineBeforeHorizon, Horizon
<1>8. NoStarvation'
  <2>1. (Horizon - elapsed') + overrun' = (Horizon - elapsed) + overrun
    BY <1>2, <1>3
  <2> QED  BY <1>1, <2>1 DEF IInv, NoStarvation, Horizon
<1> QED  BY <1>1, <1>4, <1>5, <1>6, <1>7, <1>8 DEF IInv

\* No step breaks the invariant.
LEMMA StepIInv == ASSUME OneBlock, IInv, [Next]_vars PROVE IInv'
<1>1. CASE Finish
  <2>1. /\ pc' = "done"
        /\ UNCHANGED <<dep, po_done, out, elapsed, denom, deadline, start, total, overrun>>
    BY <1>1 DEF Finish
  <2> QED  BY <2>1 DEF IInv, TypeOK, DeadlineBeforeHorizon, NoStarvation, Horizon
<1>2. CASE UNCHANGED vars
  BY <1>2 DEF vars, IInv, TypeOK, DeadlineBeforeHorizon, NoStarvation, Horizon, TimedIn, Timed
<1> QED
  BY <1>1, <1>2, StepEstimate, StepStartLearning, StepUntimed, StepLearnTimed
  DEF Next, Returned

\* The types, the denominator, the deadline and what is left for the outputs ahead.
THEOREM Invariance == ASSUME OneBlock PROVE Spec => []IInv
<1>1. Init => IInv
  BY InitIInv
<1>2. IInv /\ [Next]_vars => IInv'
  BY StepIInv
<1> QED  BY <1>1, <1>2, PTL DEF Spec

\* The denominator counts the timed outputs ahead.
THEOREM DenominatorCorrect == ASSUME OneBlock PROVE Spec => []DenominatorCountsAhead
<1>1. IInv => DenominatorCountsAhead
  BY DEF IInv, DenominatorCountsAhead, TimedBefore, TimedAhead, TimedIn
<1> QED  BY <1>1, Invariance, PTL

\* No output is granted time beyond 90% of the limit.
THEOREM DeadlineCorrect == ASSUME OneBlock PROVE Spec => []DeadlineBeforeHorizon
BY Invariance, PTL DEF IInv

\* No output is starved by those before it, except through their overruns.
THEOREM NoStarvationCorrect == ASSUME OneBlock PROVE Spec => []NoStarvation
BY Invariance, PTL DEF IInv

\* Every variable keeps its type.
THEOREM TypeCorrect == ASSUME OneBlock PROVE Spec => []TypeOK
BY Invariance, PTL DEF IInv
=============================================================================
