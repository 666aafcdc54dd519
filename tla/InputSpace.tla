----------------------------- MODULE InputSpace -----------------------------
(***************************************************************************)
(* What learning one output promises, without cubes and queues: every      *)
(* point of the input space is given an answer before it is dropped from   *)
(* the work, and what has been learned about a point changes only while    *)
(* the point is being worked on.                                           *)
(***************************************************************************)
CONSTANT Points

VARIABLES
  pending,    \* the points that are still to be answered, or answered again
  answers,    \* the answers each point has been given
  learned     \* the function described by what is recorded so far

vars == <<pending, answers, learned>>

\* The variables have their types: learned values are values, and only points of the
\* input space are pending.
TypeOK ==
  /\ pending \subseteq Points
  /\ answers \in [Points -> SUBSET BOOLEAN]
  /\ learned \in [Points -> BOOLEAN]

Init ==
  /\ pending = Points
  /\ answers = [x \in Points |-> {}]
  /\ \E default \in BOOLEAN : learned = [x \in Points |-> default]

\* Give answers to pending points. A point is dropped from the work only when
\* the recorded function takes a value at it that it was given.
Answer ==
  /\ pending' \in SUBSET pending
  /\ answers' \in [Points -> SUBSET BOOLEAN]
  /\ learned' \in [Points -> BOOLEAN]
  /\ \A x \in Points :
       /\ answers[x] \subseteq answers'[x]
       /\ x \notin pending => answers'[x] = answers[x] /\ learned'[x] = learned[x]
       /\ x \notin pending' => learned'[x] \in answers'[x]

\* Work on answered points once more.
Reopen ==
  /\ pending' \in SUBSET Points
  /\ pending \subseteq pending'
  /\ UNCHANGED <<answers, learned>>

Next == Answer \/ Reopen

Spec == Init /\ [][Next]_vars

\* Every dropped point has the value of one of its answers.
DroppedIsAnswered == \A x \in Points \ pending : learned[x] \in answers[x]
=============================================================================
