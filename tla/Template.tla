------------------------------ MODULE Template ------------------------------
(***************************************************************************)
(* construct_cubes_template (src/src/lrg.cpp:307-375): look for relations  *)
(* between input variables (find_all_groups, group.cpp:107-181), then learn*)
(* the output as cubes over the relations found and the inputs in none.    *)
(*                                                                         *)
(* A compact pattern has a bit per group and per input in no group. The    *)
(* black box is asked about an input pattern that transform_pattern draws  *)
(* for it, and in another call may be asked about another one: what is     *)
(* sampled of a compact pattern is any of the values of its input patterns.*)
(* The tendency of a compact cube is set and never read: it is left out.   *)
(* gen_pat is taken at its word, which module GenPat checks.               *)
(***************************************************************************)
EXTENDS Relations, CompactCubes

CONSTANTS
  Classes,    \* vars_with_same_len: a sequence of sequences of variables
  Oracles,    \* the functions the black box may compute for this output
  QueueBound, \* bound of the model: see MaxQueue
  Depths      \* the depths the program may be built with: [max, exact]

InputsOf(v) == {v[n] : n \in DOMAIN v}

\* The variables of a class are equally long, and no two variables share an input.
Variables ==
  \A h, i \in DOMAIN Classes : \A j \in DOMAIN Classes[h] : \A k \in DOMAIN Classes[i] :
    /\ Len(Classes[h][j]) > 0
    /\ h = i => Len(Classes[h][j]) = Len(Classes[i][k])
    /\ <<h, j>> # <<i, k>> => InputsOf(Classes[h][j]) \cap InputsOf(Classes[i][k]) = {}

ASSUME TemplateAssumption ==
  /\ Classes \in Seq(Seq(Seq(PI)))
  /\ Variables
  /\ Oracles \subseteq [Point -> BOOLEAN]
  /\ QueueBound \in Nat
  /\ Depths \subseteq [max : Nat \ {0}, exact : Nat \ {0}]

VARIABLES
  oracle,      \* the function computed by the black box
  tendency,    \* output_tendency
  max_depth,   \* MAX_EXPLORATION_DEPTH, fixed when the program is built
  exact_depth, \* the depth below which no minority is tolerated, 16 in the code
  at,          \* the loop indices i, j, k of find_all_groups; k = 0 before the loop on k
  isGrouped,   \* input_has_grouped, as a set of inputs
  groups,      \* relation_groups: a sequence of [v, w, rel]
  info,        \* the entry of comcube_info: [nodes, pis]
  answers,     \* for each compact pattern, what the black box may answer
  queue,       \* com_cube_queue
  comcubes,    \* cubes_and_comcubes_2abc.back(), as a set
  pc           \* "group", "explore", "done", or "flooded": the queue is too long

built == <<max_depth, exact_depth>>
found == <<oracle, tendency, built, at, isGrouped, groups>>
vars == <<found, info, answers, queue, comcubes, pc>>

Init ==
  /\ oracle \in Oracles
  /\ tendency \in BOOLEAN
  /\ \E d \in Depths : max_depth = d.max /\ exact_depth = d.exact
  /\ at = [i |-> 1, j |-> 1, k |-> 0]
  /\ isGrouped = {}
  /\ groups = <<>>
  /\ info = [nodes |-> <<>>, pis |-> <<>>]
  /\ answers = <<>>
  /\ queue = <<>>
  /\ comcubes = {}
  /\ pc = "group"

AgreeOutside(x, y, v, w) == \A i \in PI \ (InputsOf(v) \cup InputsOf(w)) : x[i] = y[i]

-----------------------------------------------------------------------------
(* Group::find_enabler and Group::find_relation.                           *)

\* The values seen where the other inputs are those of the enabler e and the two
\* variables are drawn in relation r.
Seen(e, v, w, r) ==
  {oracle[x] : x \in {y \in Fanout(r, v, w) : AgreeOutside(e, y, v, w)}}

\* Mutant of Verdict: the value for equal variables is not looked at.
VerdictOnOrder(b0, b1, b2) ==
  CASE b1 = b2 -> "EQUIVALENCE"
    [] b0 = b1 -> "SMALLER_THAN"
    [] b0 = b2 -> "LARGER_THAN"

\* b0, b1 and b2 are seen for equal, larger and smaller first variables.
Verdict(b0, b1, b2) ==
  CASE b1 = b2 /\ b1 # b0 -> "EQUIVALENCE"
    [] b0 = b1 /\ b0 # b2 -> "SMALLER_THAN"
    [] b0 = b2 /\ b0 # b1 -> "LARGER_THAN"
    [] OTHER              -> "NO_RELATION"

\* Nothing is found when no enabler is, or when one of the three kinds of patterns
\* shows both values. A relation is found when some of them show it.
Findable(v, w) ==
  {"NO_RELATION"} \cup
  UNION {{Verdict(b[1], b[2], b[3]) :
            b \in Seen(e, v, w, "EQUIVALENCE") \X Seen(e, v, w, "LARGER_THAN")
                                               \X Seen(e, v, w, "SMALLER_THAN")} :
         e \in Point}

Class == Classes[at.i]
NextClass == [i |-> at.i + 1, j |-> 1, k |-> 0]

\* The control of the three loops: classes of one variable and variables that are
\* grouped already are passed over.
NextPair ==
  /\ pc = "group"
  /\ at.i <= Len(Classes)
  /\ \/ /\ Len(Class) = 1 \/ at.j > Len(Class)
        /\ at' = NextClass
     \/ /\ Len(Class) > 1 /\ at.j <= Len(Class) /\ at.k = 0
        /\ at' = IF Class[at.j][1] \in isGrouped
                 THEN [at EXCEPT !.j = @ + 1]
                 ELSE [at EXCEPT !.k = at.j + 1]
     \/ /\ at.k > Len(Class)
        /\ at' = [at EXCEPT !.j = @ + 1, !.k = 0]
     \/ /\ at.k \in 1 .. Len(Class)
        /\ Class[at.k][1] \in isGrouped
        /\ at' = [at EXCEPT !.k = @ + 1]
  /\ UNCHANGED <<oracle, tendency, built, isGrouped, groups, info, answers, queue,
                 comcubes, pc>>

\* Mutant of Grouped: the inputs of the first variable only.
GroupedFirst(v, w) == isGrouped \cup InputsOf(v)

Grouped(v, w) == isGrouped \cup InputsOf(v) \cup InputsOf(w)

TryPair ==
  /\ pc = "group"
  /\ at.i <= Len(Classes)
  /\ at.k \in 1 .. Len(Class)
  /\ Class[at.k][1] \notin isGrouped
  /\ LET v == Class[at.j]
         w == Class[at.k]
     IN  \E r \in Findable(v, w) :
           IF r = "NO_RELATION"
           THEN UNCHANGED <<groups, isGrouped>>
           ELSE /\ groups' = Append(groups, [v |-> v, w |-> w, rel |-> r])
                /\ isGrouped' = Grouped(v, w)
  /\ at' = [at EXCEPT !.k = @ + 1]
  /\ UNCHANGED <<oracle, tendency, built, info, answers, queue, comcubes, pc>>

-----------------------------------------------------------------------------
(* Compact patterns.                                                       *)

Node(g) == Fanout(groups[g].rel, groups[g].v, groups[g].w)

\* input_id_alone: the inputs in no group, in ascending order.
Alone == PI \ isGrouped
InputIdAlone == Ascending(Alone)

\* The entry pushed on comcube_info.
Info == [nodes |-> [g \in DOMAIN groups |-> Node(g)], pis |-> InputIdAlone]

Capacity == Len(groups) + Cardinality(Alone)
CompactPattern == [1 .. Capacity -> Bit]

\* Mutant of RootCube: as long as the list of inputs.
RootCubeOfInputs == [n \in 1 .. NumPI |-> DontCare]

RootCube == [n \in 1 .. Capacity |-> DontCare]

\* The bits the network gives to an input pattern.
CompactBits(x) == [k \in 1 .. Capacity |-> CompactBit(Info, k, x)]

\* Mutant of Images: every group is written into a pattern drawn anew.
ImagesRedrawn(p) ==
  LET written[g \in 0 .. Len(groups)] ==
        IF g = 0 THEN Point
        ELSE {y \in IF p[g] = "1" THEN Node(g) ELSE Not(Node(g)) :
                \E x \in Point : AgreeOutside(x, y, groups[g].v, groups[g].w)}
  IN  {y \in written[Len(groups)] :
         \A k \in Len(groups) + 1 .. Capacity : CompactBit(Info, k, y) = p[k]}

\* transform_pattern: the groups are written one after the other, each over the
\* inputs of its two variables, and the other inputs last.
Images(p) ==
  LET written[g \in 0 .. Len(groups)] ==
        IF g = 0 THEN Point
        ELSE {y \in IF p[g] = "1" THEN Node(g) ELSE Not(Node(g)) :
                \E x \in written[g - 1] : AgreeOutside(x, y, groups[g].v, groups[g].w)}
  IN  {y \in written[Len(groups)] :
         \A k \in Len(groups) + 1 .. Capacity : CompactBit(Info, k, y) = p[k]}

\* What the black box may answer for each compact pattern.
Answers == [p \in CompactPattern |-> {oracle[x] : x \in Images(p)}]

Both(g) == InputsOf(groups[g].v) \cup InputsOf(groups[g].w)
Disjoint == \A g, h \in DOMAIN groups : g # h => Both(g) \cap Both(h) = {}

\* The groups found say all there is to say of the inputs they replace: the black
\* box has one answer for each compact pattern.
Determined ==
  /\ Disjoint
  /\ \A p \in CompactPattern : Cardinality(answers[p]) = 1

\* Nothing is recorded and false is returned when there are no groups.
StartExploring ==
  /\ pc = "group"
  /\ at.i > Len(Classes)
  /\ IF groups = <<>>
     THEN /\ pc' = "done"
          /\ UNCHANGED <<info, answers, queue>>
     ELSE /\ pc' = "explore"
          /\ info' = Info
          /\ answers' = Answers
          /\ queue' = <<RootCube>>
  /\ UNCHANGED <<found, comcubes>>

FreeBits(s) == {n \in DOMAIN s : s[n] = DontCare}
Size(s) == Cardinality(DOMAIN s \ FreeBits(s))
CompactCorner(s, b) == [n \in DOMAIN s |-> IF s[n] = DontCare THEN b ELSE s[n]]
CompactRegion(s) == {p \in CompactPattern : \A n \in DOMAIN s : s[n] \in {DontCare, p[n]}}
Corners(s) == {CompactCorner(s, b) : b \in Bit}
Neighbour(p, n) == Flip(p, n)

-----------------------------------------------------------------------------
(* Results of find_critical_input on a compact cube. The corners and their *)
(* neighbours are always sampled; other patterns of the cube may be.       *)

\* From exact_depth on a minority of the samples is tolerated: 1 to 20 percent, which
\* is none of the three samples of a cube without free bits. Any value that a pattern of
\* the cube shows is then taken for a possible majority.
Tolerant(s) == Size(s) >= exact_depth /\ FreeBits(s) # {}

CanConverge(ans, s, val) ==
  \/ \A p \in Corners(s) :
       val \in ans[p] /\ \A n \in FreeBits(s) : val \in ans[Neighbour(p, n)]
  \/ Tolerant(s) /\ \E p \in CompactRegion(s) : val \in ans[p]

CanDisagree(ans, s) == \A val \in BOOLEAN : \E p \in CompactRegion(s) : val \in ans[p]

\* Nothing changes around a golden pattern.
Quiet(ans, s, p) == \E val \in ans[p] : \A n \in FreeBits(s) : val \in ans[Neighbour(p, n)]

Toggles(ans, s, n) ==
  \E p \in CompactRegion(s) : \E val \in ans[p] : (~val) \in ans[Neighbour(p, n)]

\* Mutant of Critical: one quiet corner is enough for the default.
CriticalByCorner(ans, s) ==
  {n \in FreeBits(s) : Toggles(ans, s, n)}
    \cup {n \in {1} : \E p \in Corners(s) : Quiet(ans, s, p)}

\* A free bit whose flip changes the output somewhere; bit 0 of the code, which is
\* the first, when no flip that was sampled did.
Critical(ans, s) ==
  {n \in FreeBits(s) : Toggles(ans, s, n)}
    \cup {n \in {1} : \A p \in Corners(s) : Quiet(ans, s, p)}

Front == Head(queue)

Record(val) ==
  comcubes' = IF val # tendency THEN comcubes \cup {Front} ELSE comcubes

Converge ==
  /\ pc = "explore"
  /\ queue # <<>>
  /\ \E val \in BOOLEAN : CanConverge(answers, Front, val) /\ Record(val)
  /\ queue' = Tail(queue)
  /\ UNCHANGED <<found, info, answers, pc>>

\* Too deep: the majority of the samples is believed.
Cut ==
  /\ pc = "explore"
  /\ queue # <<>>
  /\ CanDisagree(answers, Front)
  /\ Size(Front) >= max_depth
  /\ \E val \in BOOLEAN : Record(val)
  /\ queue' = Tail(queue)
  /\ UNCHANGED <<found, info, answers, pc>>

\* Mutant of Cofactors: the first cofactor is pushed twice.
CofactorsOfZero(n) == <<[Front EXCEPT ![n] = "0"], [Front EXCEPT ![n] = "0"]>>

Cofactors(n) == <<[Front EXCEPT ![n] = "0"], [Front EXCEPT ![n] = "1"]>>

\* Mutant of RestOfQueue: the cube is left in the queue.
WholeQueue == queue

RestOfQueue == Tail(queue)

\* Bound of the model: the search is abandoned when the queue is full. It holds all full
\* cubes when the groups determine the output.
MaxQueue == IF Determined THEN 2 ^ Capacity ELSE QueueBound

\* The deadline set at lrg.cpp:545 is not looked at.
Split ==
  /\ pc = "explore"
  /\ queue # <<>>
  /\ CanDisagree(answers, Front)
  /\ Size(Front) < max_depth
  /\ IF Len(queue) < MaxQueue
     THEN /\ \E n \in Critical(answers, Front) : queue' = RestOfQueue \o Cofactors(n)
          /\ UNCHANGED pc
     ELSE /\ pc' = "flooded"
          /\ UNCHANGED queue
  /\ UNCHANGED <<found, info, answers, comcubes>>

Finish ==
  /\ pc = "explore"
  /\ queue = <<>>
  /\ pc' = "done"
  /\ UNCHANGED <<found, info, answers, queue, comcubes>>

Stopped == pc \in {"done", "flooded"} /\ UNCHANGED vars

Next == NextPair \/ TryPair \/ StartExploring \/ Converge \/ Cut \/ Split \/ Finish
          \/ Stopped

Spec == Init /\ [][Next]_vars

\* Sequential code keeps running.
FairSpec == Spec /\ WF_vars(Next)

-----------------------------------------------------------------------------
\* The variables have their types: the cubes in the queue are as long as compact
\* patterns (compact_numPI), and each of these has been given some answer.
TypeOK ==
  /\ oracle \in [Point -> BOOLEAN]
  /\ tendency \in BOOLEAN
  /\ max_depth \in Nat \ {0} /\ exact_depth \in Nat \ {0}
  /\ at \in [i : Nat, j : Nat, k : Nat]
  /\ isGrouped \subseteq PI
  /\ groups \in Seq([v : Seq(PI), w : Seq(PI), rel : Relation \ {"NO_RELATION"}])
  /\ info \in ComcubeInfo
  /\ pc = "explore" => answers \in [CompactPattern -> (SUBSET BOOLEAN) \ {{}}]
  /\ queue \in Seq([1 .. Capacity -> Bit \cup {DontCare}])
  /\ comcubes \subseteq [1 .. Capacity -> Bit \cup {DontCare}]
  /\ pc \in {"group", "explore", "done", "flooded"}

Second(g) == InputsOf(groups[g].w)

\* isGrouped is tested for the first variable before the loop on the second one
\* only, so a variable may be the first one of several groups, which then overwrite
\* each other's patterns. The second variable of a group is in no other one.
SecondsGroupedOnce ==
  \A g, h \in DOMAIN groups : g # h => Second(g) \cap Both(h) = {}

\* The groups that a later one with a common variable writes over.
Overwritten ==
  {g \in DOMAIN groups : \E h \in DOMAIN groups : h > g /\ Both(g) \cap Both(h) # {}}

\* The groups are written one after the other, and still every input pattern to which
\* the network will give the bits of a compact pattern may be drawn for it, and what is
\* drawn has all these bits but those of the groups written over.
AskedIsBuilt ==
  pc = "explore" /\ Len(queue) = 1 =>
    \A p \in CompactPattern : \A x \in Point :
      /\ CompactBits(x) = p => x \in Images(p)
      /\ x \in Images(p) =>
           \A k \in (1 .. Capacity) \ Overwritten : CompactBits(x)[k] = p[k]

Searched == groups # <<>> /\ pc \in {"explore", "done"}

\* The output of lrg.cpp:552-555: the cubes, inverted for an output that tends to 1.
Circuit == InvertIf(tendency, AddCompact({}, info, InSomeOrder(comcubes)))

\* No cube with a free bit is so deep that its samples are believed without agreeing.
NeverBelieved == Capacity <= max_depth /\ Capacity <= exact_depth

\* The network is the black box when the groups determine the output, no more than
\* three compact inputs are left, so that the corners of a cube and their neighbours
\* are all of it, and none of the two depths is reached before the last compact input.
ExactWhenDetermined ==
  Searched /\ queue = <<>> /\ Determined /\ Capacity <= 3 /\ NeverBelieved =>
    Circuit = {x \in Point : oracle[x]}

\* A recorded cube has a literal when every compact pattern is sampled before the
\* search is cut. my_Abc_AddCubes would not return otherwise, for add_cone has
\* nothing to combine (abc/src/selfdefined/add_cube.cpp:76).
LiteralsWhenDetermined ==
  Searched /\ Determined /\ Capacity <= 3 => \A s \in comcubes : Size(s) > 0

\* The corners of the cube and their neighbours are all of it, and no pattern of it shows
\* two values.
Plain(s) ==
  /\ Cardinality(FreeBits(s)) <= 2
  /\ \A p \in CompactRegion(s) : Cardinality(answers[p]) = 1

\* A cube is never put back in the queue as a cofactor of itself when its samples are all
\* of it: there, one whose samples disagree has a free bit that changes the output, and
\* bit 0 is not taken by default. (With three free bits the output may be quiet around
\* both corners, and the cube come back.)
SplitsFresh ==
  [][Len(queue') > Len(queue) /\ queue # <<>> /\ Plain(Front) =>
       \E n \in FreeBits(Front) : queue' = RestOfQueue \o Cofactors(n)]_vars

\* There is no deadline for a template; the loop ends by itself when the groups
\* determine the output, so that every full cube converges.
ReturnsWhenDetermined ==
  (pc = "explore" /\ Determined /\ Capacity <= 3) ~> (pc = "done")
=============================================================================
