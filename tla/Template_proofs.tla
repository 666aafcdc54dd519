--------------------------- MODULE Template_proofs ---------------------------
(***************************************************************************)
(* The groups that find_all_groups returns, the input patterns that are    *)
(* drawn for a compact pattern, and what the search records, for any       *)
(* number of inputs, variables and groups.                                 *)
(***************************************************************************)
EXTENDS Template, Network_proofs, SequenceTheorems

-----------------------------------------------------------------------------
(* The comparators of two variables without a common input.                *)

\* The relations find_relation finds.
Kinds == {"EQUIVALENCE", "LARGER_THAN", "SMALLER_THAN"}

\* What a group relates.
Pair(v, w) == SameLength(v, w) /\ InputsOf(v) \cap InputsOf(w) = {}

\* What the node of each of these relations shows.
LEMMA NodeShows ==
  ASSUME NEW v, NEW w, SameLength(v, w), NEW x \in Point
  PROVE  /\ x \in Fanout("EQUIVALENCE", v, w) <=> \A n \in 1 .. Len(v) : Equal(v, w, x, n)
         /\ x \in Fanout("LARGER_THAN", v, w) <=> x \in LargerFrom(v, w, 1)
         /\ x \in Fanout("SMALLER_THAN", v, w) <=> x \in LargerFrom(w, v, 1)
BY FanoutIs, EquivIs, LargerIs, SmallerIs

\* Comparators are nodes.
LEMMA FanoutType ==
  ASSUME NEW v, NEW w, SameLength(v, w), NEW r \in Kinds
  PROVE  Fanout(r, v, w) \in OnSet
<1>1. LargerFrom(v, w, 1) \in OnSet /\ LargerFrom(w, v, 1) \in OnSet
  BY DEF LargerFrom, OnSet
<1>2. BuildEquiv(v, w) \in OnSet
  BY EquivIs DEF OnSet
<1> QED BY <1>1, <1>2, FanoutIs, LargerIs, SmallerIs DEF Kinds

\* They look at the inputs of the two variables only.
LEMMA FanoutLocal ==
  ASSUME NEW v, NEW w, SameLength(v, w), NEW r \in Kinds, NEW x \in Point, NEW y \in Point,
         \A i \in InputsOf(v) \cup InputsOf(w) : x[i] = y[i]
  PROVE  x \in Fanout(r, v, w) <=> y \in Fanout(r, v, w)
<1>1. /\ Len(v) = Len(w) /\ Len(v) \in Nat
      /\ \A n \in 1 .. Len(v) : x[v[n]] = y[v[n]] /\ x[w[n]] = y[w[n]]
  BY DEF SameLength, InputsOf
<1>2. \A n \in 1 .. Len(v) : /\ Equal(v, w, x, n) <=> Equal(v, w, y, n)
                             /\ Equal(w, v, x, n) <=> Equal(w, v, y, n)
                             /\ Greater(v, w, x, n) <=> Greater(v, w, y, n)
                             /\ Greater(w, v, x, n) <=> Greater(w, v, y, n)
  BY <1>1 DEF Equal, Greater
<1>3. \A m \in 1 .. Len(v) : 1 .. m - 1 \subseteq 1 .. Len(v)
  BY <1>1
<1>4. x \in LargerFrom(v, w, 1) <=> y \in LargerFrom(v, w, 1)
  BY <1>2, <1>3 DEF LargerFrom
<1>5. x \in LargerFrom(w, v, 1) <=> y \in LargerFrom(w, v, 1)
  BY <1>1, <1>2, <1>3 DEF LargerFrom
<1> QED BY <1>2, <1>4, <1>5, NodeShows DEF Kinds

\* x with the same bit at all inputs of a variable.
Put(x, v, w, b, c) ==
  [i \in PI |-> IF i \in InputsOf(v) THEN b ELSE IF i \in InputsOf(w) THEN c ELSE x[i]]

\* What is put in is read, and the rest stays.
LEMMA PutIs ==
  ASSUME NEW v, NEW w, Pair(v, w), NEW x \in Point, NEW b \in Bit, NEW c \in Bit
  PROVE  /\ Put(x, v, w, b, c) \in Point /\ AgreeOutside(x, Put(x, v, w, b, c), v, w)
         /\ \A n \in 1 .. Len(v) : /\ Put(x, v, w, b, c)[v[n]] = b
                                   /\ Put(x, v, w, b, c)[w[n]] = c
<1> DEFINE y == Put(x, v, w, b, c)
<1>1. y \in Point /\ AgreeOutside(x, y, v, w)
  BY DEF Put, Point, AgreeOutside
<1>2. ASSUME NEW n \in 1 .. Len(v) PROVE y[v[n]] = b /\ y[w[n]] = c
  <2>1. v[n] \in PI /\ w[n] \in PI /\ v[n] \in InputsOf(v) /\ w[n] \in InputsOf(w)
    BY DEF Pair, SameLength, InputsOf
  <2>2. w[n] \notin InputsOf(v)
    BY <2>1 DEF Pair
  <2> QED BY <2>1, <2>2 DEF Put
<1> QED BY <1>1, <1>2

\* Whatever the other inputs are, a comparator can be made 1 and can be made 0.
LEMMA FanoutSplits ==
  ASSUME NEW v, NEW w, Pair(v, w), NEW r \in Kinds, NEW x \in Point
  PROVE  \E y, z \in Point : /\ AgreeOutside(x, y, v, w) /\ y \in Fanout(r, v, w)
                             /\ AgreeOutside(x, z, v, w) /\ z \notin Fanout(r, v, w)
<1>1. SameLength(v, w) /\ Len(v) = Len(w) /\ Len(v) \in Nat \ {0} /\ 1 \in 1 .. Len(v)
  BY DEF Pair, SameLength
<1>2. "0" \in Bit /\ "1" \in Bit
  BY DEF Bit
<1>3. PICK e \in Point : /\ AgreeOutside(x, e, v, w)
                         /\ \A n \in 1 .. Len(v) : e[v[n]] = "0" /\ e[w[n]] = "0"
  BY <1>2, PutIs
<1>4. PICK l \in Point : /\ AgreeOutside(x, l, v, w)
                         /\ \A n \in 1 .. Len(v) : l[v[n]] = "1" /\ l[w[n]] = "0"
  BY <1>2, PutIs
<1>5. PICK s \in Point : /\ AgreeOutside(x, s, v, w)
                         /\ \A n \in 1 .. Len(v) : s[v[n]] = "0" /\ s[w[n]] = "1"
  BY <1>2, PutIs
<1>6. e \in Fanout("EQUIVALENCE", v, w) /\ l \notin Fanout("EQUIVALENCE", v, w)
  BY <1>1, <1>3, <1>4, NodeShows DEF Equal
<1>7. e \notin LargerFrom(v, w, 1) /\ e \notin LargerFrom(w, v, 1)
  BY <1>1, <1>3 DEF LargerFrom, Greater
<1>8. l \in LargerFrom(v, w, 1)
  <2>1. Greater(v, w, l, 1) /\ 1 .. 1 - 1 = {}
    BY <1>1, <1>4 DEF Greater
  <2> QED BY <1>1, <2>1 DEF LargerFrom
<1>9. s \in LargerFrom(w, v, 1)
  <2>1. Greater(w, v, s, 1) /\ 1 .. 1 - 1 = {} /\ 1 \in 1 .. Len(w)
    BY <1>1, <1>5 DEF Greater
  <2> QED BY <1>1, <2>1 DEF LargerFrom
<1>10. CASE r = "EQUIVALENCE"
  BY <1>3, <1>4, <1>6, <1>10
<1>11. CASE r = "LARGER_THAN"
  BY <1>1, <1>3, <1>4, <1>7, <1>8, <1>11, NodeShows
<1>12. CASE r = "SMALLER_THAN"
  BY <1>1, <1>3, <1>5, <1>7, <1>9, <1>12, NodeShows
<1> QED BY <1>10, <1>11, <1>12 DEF Kinds

-----------------------------------------------------------------------------
(* Variables and groups.                                                   *)

Variable(v) == \E i \in DOMAIN Classes : \E j \in DOMAIN Classes[i] : v = Classes[i][j]

\* A group relates two variables of one class.
Group == [v : Seq(PI), w : Seq(PI), rel : Relation \ {"NO_RELATION"}]
Related(g) == Variable(g.v) /\ Variable(g.w) /\ Pair(g.v, g.w) /\ g.rel \in Kinds

\* The inputs in some group of a list, and what holds of the groups of a list: the
\* inputs of a second variable are in no other group.
Within(gs) == UNION {InputsOf(gs[g].v) \cup InputsOf(gs[g].w) : g \in DOMAIN gs}
Fit(gs) ==
  /\ gs \in Seq(Group)
  /\ \A g \in DOMAIN gs : Related(gs[g])
  /\ \A g, h \in DOMAIN gs :
       g # h => InputsOf(gs[g].w) \cap (InputsOf(gs[h].v) \cup InputsOf(gs[h].w)) = {}

\* A variable has inputs.
LEMMA VariableType ==
  ASSUME NEW v, Variable(v)
  PROVE  /\ v \in Seq(PI) /\ Len(v) \in Nat \ {0}
         /\ v[1] \in InputsOf(v) /\ InputsOf(v) \subseteq PI
<1>1. PICK i \in DOMAIN Classes : \E j \in DOMAIN Classes[i] : v = Classes[i][j]
  BY DEF Variable
<1>2. PICK j \in DOMAIN Classes[i] : v = Classes[i][j]
  BY <1>1
<1>3. Classes[i] \in Seq(Seq(PI))
  BY TemplateAssumption
<1>4. Classes[i][j] \in Seq(PI)
  BY <1>3
<1>5. Len(Classes[i][j]) > 0
  BY TemplateAssumption DEF Variables
<1> QED BY <1>2, <1>4, <1>5 DEF InputsOf

\* Variables with a common input are the same.
LEMMA VariablesApart ==
  ASSUME NEW v, NEW w, Variable(v), Variable(w), NEW n \in InputsOf(v), n \in InputsOf(w)
  PROVE  v = w
<1>1. PICK h \in DOMAIN Classes : \E j \in DOMAIN Classes[h] : v = Classes[h][j]
  BY DEF Variable
<1>2. PICK j \in DOMAIN Classes[h] : v = Classes[h][j]
  BY <1>1
<1>3. PICK i \in DOMAIN Classes : \E k \in DOMAIN Classes[i] : w = Classes[i][k]
  BY DEF Variable
<1>4. PICK k \in DOMAIN Classes[i] : w = Classes[i][k]
  BY <1>3
<1>5. <<h, j>> # <<i, k>> => InputsOf(Classes[h][j]) \cap InputsOf(Classes[i][k]) = {}
  BY TemplateAssumption DEF Variables
<1> QED BY <1>2, <1>4, <1>5

\* Two variables of a class can be a group.
LEMMA ClassPair ==
  ASSUME NEW i \in DOMAIN Classes, NEW j \in DOMAIN Classes[i], NEW k \in DOMAIN Classes[i],
         j # k
  PROVE  /\ Variable(Classes[i][j]) /\ Variable(Classes[i][k])
         /\ Pair(Classes[i][j], Classes[i][k])
<1>1. Variable(Classes[i][j]) /\ Variable(Classes[i][k])
  BY DEF Variable
<1>2. Len(Classes[i][j]) = Len(Classes[i][k])
  BY TemplateAssumption DEF Variables
<1>3. InputsOf(Classes[i][j]) \cap InputsOf(Classes[i][k]) = {}
  BY TemplateAssumption DEF Variables
<1>4. /\ Classes[i][j] \in Seq(PI) /\ Len(Classes[i][j]) # 0
      /\ Classes[i][k] \in Seq(PI)
  BY <1>1, VariableType
<1> QED BY <1>1, <1>2, <1>3, <1>4 DEF Pair, SameLength

\* The first input of a variable tells whether any of its inputs is in a group.
LEMMA FirstInputTells ==
  ASSUME NEW gs, Fit(gs), NEW w, Variable(w), w[1] \notin Within(gs)
  PROVE  \A h \in DOMAIN gs : InputsOf(w) \cap (InputsOf(gs[h].v) \cup InputsOf(gs[h].w)) = {}
<1> SUFFICES ASSUME NEW h \in DOMAIN gs, NEW n \in InputsOf(w),
                    n \in InputsOf(gs[h].v) \/ n \in InputsOf(gs[h].w)
             PROVE  FALSE
  OBVIOUS
<1>1. Variable(gs[h].v) /\ Variable(gs[h].w)
  BY DEF Fit, Related
<1>2. w = gs[h].v \/ w = gs[h].w
  BY <1>1, VariablesApart
<1> QED BY <1>2, VariableType DEF Within

\* A group is added whose second variable is in none, and whose first variable is in
\* none as the second.
LEMMA OneMoreGroup ==
  ASSUME NEW gs, Fit(gs), NEW v, NEW w, Variable(v), Variable(w), Pair(v, w),
         NEW r \in Kinds, w[1] \notin Within(gs),
         \A h \in DOMAIN gs : InputsOf(v) \cap InputsOf(gs[h].w) = {}
  PROVE  /\ Fit(Append(gs, [v |-> v, w |-> w, rel |-> r]))
         /\ Within(Append(gs, [v |-> v, w |-> w, rel |-> r]))
              = Within(gs) \cup InputsOf(v) \cup InputsOf(w)
<1>1. PICK G : G = [v |-> v, w |-> w, rel |-> r]
  OBVIOUS
<1>2. G \in Group /\ Related(G) /\ G.v = v /\ G.w = w
  BY <1>1, VariableType DEF Group, Related, Kinds, Relation
<1>3. PICK n \in Nat : n = Len(gs) /\ DOMAIN gs = 1 .. n
  BY DEF Fit
<1>4. PICK new : new = Append(gs, G)
  OBVIOUS
<1>5. /\ new \in Seq(Group) /\ DOMAIN new = 1 .. n + 1 /\ new[n + 1] = G
      /\ \A h \in 1 .. n : new[h] = gs[h]
  BY <1>2, <1>3, <1>4 DEF Fit
<1>6. \A h \in 1 .. n + 1 : h = n + 1 \/ h \in 1 .. n
  BY <1>3
<1>7. \A h \in 1 .. n + 1 : Related(new[h])
  BY <1>2, <1>3, <1>5, <1>6 DEF Fit
<1>8. \A h \in 1 .. n :
        /\ InputsOf(w) \cap (InputsOf(gs[h].v) \cup InputsOf(gs[h].w)) = {}
        /\ InputsOf(gs[h].w) \cap (InputsOf(v) \cup InputsOf(w)) = {}
  BY <1>3, FirstInputTells
<1>9. ASSUME NEW g \in 1 .. n + 1, NEW h \in 1 .. n + 1, g # h
      PROVE  InputsOf(new[g].w) \cap (InputsOf(new[h].v) \cup InputsOf(new[h].w)) = {}
  <2>1. CASE g \in 1 .. n /\ h \in 1 .. n
    BY <1>3, <1>5, <1>9, <2>1 DEF Fit
  <2>2. CASE g = n + 1 /\ h \in 1 .. n
    BY <1>2, <1>5, <1>8, <2>2
  <2>3. CASE g \in 1 .. n /\ h = n + 1
    BY <1>2, <1>5, <1>8, <2>3
  <2> QED BY <1>6, <1>9, <2>1, <2>2, <2>3
<1>10. Within(new) = Within(gs) \cup InputsOf(v) \cup InputsOf(w)
  <2>1. ASSUME NEW m \in Within(new) PROVE m \in Within(gs) \cup InputsOf(v) \cup InputsOf(w)
    <3>1. PICK h \in 1 .. n + 1 : m \in InputsOf(new[h].v) \cup InputsOf(new[h].w)
      BY <1>5 DEF Within
    <3> QED BY <1>2, <1>3, <1>5, <1>6, <3>1 DEF Within
  <2>2. ASSUME NEW m \in Within(gs) PROVE m \in Within(new)
    <3>1. PICK h \in 1 .. n : m \in InputsOf(gs[h].v) \cup InputsOf(gs[h].w)
      BY <1>3 DEF Within
    <3>2. h \in 1 .. n + 1
      BY <1>3
    <3> QED BY <1>5, <3>1, <3>2 DEF Within
  <2>3. InputsOf(v) \cup InputsOf(w) \subseteq Within(new)
    <3>1. n + 1 \in 1 .. n + 1
      BY <1>3
    <3> QED BY <1>2, <1>5, <3>1 DEF Within
  <2> QED BY <2>1, <2>2, <2>3
<1> QED BY <1>1, <1>4, <1>5, <1>7, <1>9, <1>10 DEF Fit

-----------------------------------------------------------------------------
(* Compact patterns and the input patterns drawn for them.                 *)

\* The groups are what they should be, and the inputs in them are known.
Grouping == Fit(groups) /\ isGrouped = Within(groups)

\* The inputs that are in no group.
LEMMA AloneListed ==
  ASSUME isGrouped \subseteq PI
  PROVE  /\ Alone \subseteq PI /\ Cardinality(Alone) \in Nat
         /\ InputIdAlone \in [1 .. Cardinality(Alone) -> Alone]
         /\ \A i \in Alone : \E n \in 1 .. Cardinality(Alone) : InputIdAlone[n] = i
         /\ \A m, n \in 1 .. Cardinality(Alone) : InputIdAlone[m] = InputIdAlone[n] => m = n
<1>1. PICK S : S = Alone
  OBVIOUS
<1>2. S \in SUBSET PI
  BY <1>1 DEF Alone
<1>3. S \in SUBSET Nat /\ IsFiniteSet(S)
  BY <1>2, InputsListed
<1> QED BY <1>1, <1>2, <1>3, AscendingLists DEF InputIdAlone

\* Inputs in groups are inputs.
LEMMA WithinType ==
  ASSUME NEW gs, Fit(gs)
  PROVE  Within(gs) \subseteq PI
<1> SUFFICES ASSUME NEW h \in DOMAIN gs
             PROVE  InputsOf(gs[h].v) \cup InputsOf(gs[h].w) \subseteq PI
  BY DEF Within
<1> QED BY VariableType DEF Fit, Related

\* The nodes of the groups, and what they look at.
LEMMA NodeIs ==
  ASSUME Fit(groups), NEW g \in 1 .. Len(groups)
  PROVE  /\ Len(groups) \in Nat /\ DOMAIN groups = 1 .. Len(groups)
         /\ Related(groups[g]) /\ Node(g) \in OnSet
         /\ \A x, y \in Point :
              (\A i \in Both(g) : x[i] = y[i]) => (x \in Node(g) <=> y \in Node(g))
<1>1. Len(groups) \in Nat /\ DOMAIN groups = 1 .. Len(groups)
  BY DEF Fit
<1>2. PICK G : G = groups[g]
  OBVIOUS
<1>3. Related(G)
  BY <1>1, <1>2 DEF Fit
<1>4. SameLength(G.v, G.w) /\ G.rel \in Kinds
  BY <1>3 DEF Related, Pair
<1>5. Fanout(G.rel, G.v, G.w) \in OnSet
  BY <1>4, FanoutType
<1>6. ASSUME NEW x \in Point, NEW y \in Point, \A i \in Both(g) : x[i] = y[i]
      PROVE  x \in Node(g) <=> y \in Node(g)
  <2>1. \A i \in InputsOf(G.v) \cup InputsOf(G.w) : x[i] = y[i]
    BY <1>2, <1>6 DEF Both
  <2>2. x \in Fanout(G.rel, G.v, G.w) <=> y \in Fanout(G.rel, G.v, G.w)
    BY <1>4, <2>1, FanoutLocal
  <2> QED BY <1>2, <2>2 DEF Node
<1> QED BY <1>1, <1>2, <1>3, <1>5, <1>6 DEF Node

\* The entry of comcube_info, and the bits of a compact pattern.
LEMMA CompactIs ==
  ASSUME Grouping
  PROVE  /\ Info \in ComcubeInfo /\ Len(Info.nodes) = Len(groups)
         /\ Capacity \in Nat /\ Len(groups) \in Nat /\ Len(groups) <= Capacity
         /\ \A k \in 1 .. Len(groups) : \A x :
              CompactBit(Info, k, x) = IF x \in Node(k) THEN "1" ELSE "0"
         /\ \A k \in Len(groups) + 1 .. Capacity :
              /\ k - Len(groups) \in 1 .. Cardinality(Alone)
              /\ \A x : CompactBit(Info, k, x) = x[InputIdAlone[k - Len(groups)]]
         /\ \A k \in 1 .. Capacity : k \in 1 .. Len(groups) \/ k \in Len(groups) + 1 .. Capacity
<1>1. isGrouped \subseteq PI
  BY WithinType DEF Grouping
<1>2. PICK c \in Nat : c = Cardinality(Alone)
  BY <1>1, AloneListed
<1>3. PICK n \in Nat : n = Len(groups) /\ DOMAIN groups = 1 .. n
  BY DEF Grouping, Fit
<1>4. Capacity = n + c
  BY <1>2, <1>3 DEF Capacity
<1>5. PICK ns : ns = [g \in DOMAIN groups |-> Node(g)]
  OBVIOUS
<1>6. ns \in Seq(OnSet) /\ Len(ns) = n /\ \A k \in 1 .. n : ns[k] = Node(k)
  <2>1. \A g \in 1 .. n : Node(g) \in OnSet
    BY <1>3, NodeIs DEF Grouping
  <2> QED BY <1>3, <1>5, <2>1
<1>7. InputIdAlone \in Seq(PI)
  <2>1. InputIdAlone \in [1 .. c -> PI]
    BY <1>1, <1>2, AloneListed
  <2> QED BY <1>2, <2>1
<1>8. Info = [nodes |-> ns, pis |-> InputIdAlone]
  BY <1>5 DEF Info
<1>9. Info \in ComcubeInfo /\ Info.nodes = ns /\ Info.pis = InputIdAlone
  BY <1>6, <1>7, <1>8 DEF ComcubeInfo
<1>10. ASSUME NEW k \in 1 .. n, NEW x
       PROVE  CompactBit(Info, k, x) = IF x \in Node(k) THEN "1" ELSE "0"
  <2>1. k <= n
    OBVIOUS
  <2> QED BY <1>6, <1>9, <2>1 DEF CompactBit
<1>11. ASSUME NEW k \in n + 1 .. n + c
       PROVE  /\ k - n \in 1 .. c
              /\ \A x : CompactBit(Info, k, x) = x[InputIdAlone[k - n]]
  <2>1. ~ (k <= n) /\ k - n \in 1 .. c
    OBVIOUS
  <2> QED BY <1>6, <1>9, <2>1 DEF CompactBit
<1>12. \A k \in 1 .. n + c : k \in 1 .. n \/ k \in n + 1 .. n + c
  OBVIOUS
<1> QED BY <1>2, <1>3, <1>4, <1>6, <1>9, <1>10, <1>11, <1>12

\* Every input pattern has a compact pattern.
LEMMA BitsType ==
  ASSUME Grouping, NEW x \in Point
  PROVE  CompactBits(x) \in CompactPattern
<1>1. isGrouped \subseteq PI
  BY WithinType DEF Grouping
<1>2. ASSUME NEW k \in 1 .. Capacity PROVE CompactBit(Info, k, x) \in Bit
  <2>1. CASE k \in 1 .. Len(groups)
    BY <2>1, CompactIs DEF Bit
  <2>2. CASE k \in Len(groups) + 1 .. Capacity
    <3>1. InputIdAlone[k - Len(groups)] \in PI
      BY <1>1, <2>2, CompactIs, AloneListed
    <3> QED BY <2>2, <3>1, CompactIs DEF Point
  <2> QED BY <2>1, <2>2, CompactIs
<1> QED BY <1>2 DEF CompactBits, CompactPattern

\* The node whose value is to be the bit of a group.
Wanted(p, g) == IF p[g] = "1" THEN Node(g) ELSE Not(Node(g))

\* The input patterns that may be there when a group has been written.
AfterGroup(p, g, T) ==
  {y \in Wanted(p, g) : \E x \in T : AgreeOutside(x, y, groups[g].v, groups[g].w)}

\* The recursion of Images.
LEMMA Written ==
  ASSUME Grouping, NEW p
  PROVE  \E written \in [0 .. Len(groups) -> SUBSET Point] :
           /\ written[0] = Point
           /\ \A g \in 1 .. Len(groups) : written[g] = AfterGroup(p, g, written[g - 1])
           /\ Images(p) = {y \in written[Len(groups)] :
                \A k \in Len(groups) + 1 .. Capacity : CompactBit(Info, k, y) = p[k]}
<1>1. PICK N \in Nat : N = Len(groups)
  BY CompactIs
<1>2. \A g \in 1 .. N : Wanted(p, g) \subseteq Point
  BY <1>1, NodeIs DEF Grouping, Wanted, Not, OnSet
<1>3. PICK step : step = [g \in 1 .. N |-> [T \in SUBSET Point |-> AfterGroup(p, g, T)]]
  OBVIOUS
<1>4. step \in [1 .. N -> [SUBSET Point -> SUBSET Point]]
  <2>1. \A g \in 1 .. N : \A T \in SUBSET Point : AfterGroup(p, g, T) \in SUBSET Point
    BY <1>2 DEF AfterGroup
  <2> QED BY <1>3, <2>1
<1>5. \E f : Recursive(SUBSET Point, step, Point, N, f)
  BY <1>4, Recursion
<1>6. PICK f : Recursive(SUBSET Point, step, Point, N, f)
  BY <1>5
<1>7. /\ f \in [0 .. N -> SUBSET Point] /\ f[0] = Point
      /\ \A g \in 1 .. N : f[g] = step[g][f[g - 1]]
  BY <1>6 DEF Recursive
<1>8. \A g \in 1 .. N : f[g] = AfterGroup(p, g, f[g - 1])
  <2> SUFFICES ASSUME NEW g \in 1 .. N PROVE f[g] = AfterGroup(p, g, f[g - 1])
    OBVIOUS
  <2>1. g - 1 \in 0 .. N /\ f[g - 1] \in SUBSET Point
    BY <1>7
  <2> QED BY <1>3, <1>7, <2>1
<1> DEFINE F(h) == [g \in 0 .. Len(groups) |->
              IF g = 0 THEN Point
              ELSE {y \in IF p[g] = "1" THEN Node(g) ELSE Not(Node(g)) :
                      \E x \in h[g - 1] : AgreeOutside(x, y, groups[g].v, groups[g].w)}]
<1>9. f = F(f)
  <2>1. \A g \in 0 .. N : f[g] = F(f)[g]
    BY <1>1, <1>7, <1>8 DEF AfterGroup, Wanted
  <2> QED BY <1>1, <1>7, <2>1
<1>10. PICK w : w = (CHOOSE h : h = F(h))
  OBVIOUS
<1>11. w = F(w)
  <2> HIDE DEF F
  <2> QED BY <1>9, <1>10
<1>12. Images(p) = {y \in w[Len(groups)] :
                \A k \in Len(groups) + 1 .. Capacity : CompactBit(Info, k, y) = p[k]}
  BY <1>10 DEF Images
<1>13. w[0] = Point /\ \A g \in 1 .. N : w[g] = AfterGroup(p, g, w[g - 1])
  <2>1. \A g \in 0 .. N : F(w)[g] = IF g = 0 THEN Point ELSE AfterGroup(p, g, w[g - 1])
    BY <1>1 DEF AfterGroup, Wanted
  <2>2. \A g \in 1 .. N : g \in 0 .. N /\ g # 0
    OBVIOUS
  <2>3. \A g \in 0 .. N : w[g] = IF g = 0 THEN Point ELSE AfterGroup(p, g, w[g - 1])
    <3> HIDE DEF F
    <3> QED BY <1>11, <2>1
  <2> QED BY <2>2, <2>3
<1>14. \A g \in 0 .. N : w[g] \in SUBSET Point
  BY <1>1, <1>2, <1>13 DEF AfterGroup
<1>15. w \in [0 .. N -> SUBSET Point]
  <2>1. DOMAIN w = 0 .. N
    BY <1>1, <1>11
  <2>2. w = [g \in DOMAIN w |-> w[g]]
    <3> HIDE DEF F
    <3>1. PICK h : h = F(w)
      OBVIOUS
    <3>2. h = [g \in DOMAIN h |-> h[g]]
      BY <3>1 DEF F
    <3> QED BY <1>11, <3>1, <3>2
  <2> HIDE DEF F
  <2> QED BY <1>14, <2>1, <2>2
<1> QED BY <1>1, <1>12, <1>13, <1>15

\* Some input pattern is always drawn: the inputs in no group are written last, and
\* each group can be given its bit whatever the inputs of the others are.
LEMMA ImagesDrawn ==
  ASSUME Grouping, NEW p \in CompactPattern
  PROVE  Images(p) # {} /\ Images(p) \subseteq Point
<1>1. PICK N \in Nat : N = Len(groups) /\ DOMAIN groups = 1 .. N
  BY DEF Grouping, Fit
<1>2. PICK wr \in [0 .. N -> SUBSET Point] :
        /\ wr[0] = Point
        /\ \A g \in 1 .. N : wr[g] = AfterGroup(p, g, wr[g - 1])
        /\ Images(p) = {y \in wr[N] :
                \A k \in N + 1 .. Capacity : CompactBit(Info, k, y) = p[k]}
  BY <1>1, Written
<1>3. isGrouped \subseteq PI
  BY WithinType DEF Grouping
<1>4. PICK c \in Nat : c = Cardinality(Alone)
  BY <1>3, AloneListed
<1>5. PICK id : id = InputIdAlone
  OBVIOUS
<1>6. /\ id \in [1 .. c -> Alone] /\ Alone \subseteq PI
      /\ \A m, n \in 1 .. c : id[m] = id[n] => m = n
  BY <1>3, <1>4, <1>5, AloneListed
<1>7. \A k \in N + 1 .. Capacity : /\ k - N \in 1 .. c
                                   /\ \A x : CompactBit(Info, k, x) = x[id[k - N]]
  BY <1>1, <1>4, <1>5, CompactIs
<1> DEFINE Matches(y) == \A k \in N + 1 .. Capacity : y[id[k - N]] = p[k]
           S == {g \in 0 .. N : \E y \in wr[g] : Matches(y)}
<1>8. 0 \in S
  <2> DEFINE y == [i \in PI |->
                     IF \E k \in N + 1 .. Capacity : id[k - N] = i
                     THEN p[CHOOSE k \in N + 1 .. Capacity : id[k - N] = i]
                     ELSE "0"]
  <2>1. \A k \in N + 1 .. Capacity : k \in 1 .. Capacity /\ p[k] \in Bit
    BY <1>1, CompactIs DEF CompactPattern
  <2>2. ASSUME NEW i \in PI PROVE y[i] \in Bit
    <3>1. CASE \E k \in N + 1 .. Capacity : id[k - N] = i
      <4>1. (CHOOSE k \in N + 1 .. Capacity : id[k - N] = i) \in N + 1 .. Capacity
        BY <3>1
      <4> QED BY <2>1, <3>1, <4>1
    <3> QED BY <3>1 DEF Bit
  <2>3. y \in Point
    BY <2>2 DEF Point
  <2>4. ASSUME NEW k \in N + 1 .. Capacity PROVE y[id[k - N]] = p[k]
    <3>1. \A m \in N + 1 .. Capacity : id[m - N] = id[k - N] => m = k
      <4> SUFFICES ASSUME NEW m \in N + 1 .. Capacity, id[m - N] = id[k - N] PROVE m = k
        OBVIOUS
      <4>1. m - N = k - N
        BY <1>6, <1>7
      <4> QED BY <4>1, CompactIs
    <3>2. id[k - N] \in PI
      BY <1>6, <1>7
    <3>3. (CHOOSE m \in N + 1 .. Capacity : id[m - N] = id[k - N]) = k
      BY <3>1
    <3> QED BY <3>2, <3>3
  <2> HIDE DEF y
  <2> QED BY <1>2, <2>3, <2>4
<1>9. \A g \in 0 .. N - 1 : g \in S => g + 1 \in S
  <2> SUFFICES ASSUME NEW g \in 0 .. N - 1, g \in S PROVE g + 1 \in S
    OBVIOUS
  <2>1. PICK x \in wr[g] : Matches(x)
    OBVIOUS
  <2>2. g + 1 \in 1 .. N /\ g + 1 \in 0 .. N /\ (g + 1) - 1 = g /\ x \in Point
    BY <1>2
  <2>3. PICK G : G = groups[g + 1]
    OBVIOUS
  <2>4. Pair(G.v, G.w) /\ G.rel \in Kinds /\ Node(g + 1) = Fanout(G.rel, G.v, G.w)
        /\ InputsOf(G.v) \cup InputsOf(G.w) \subseteq isGrouped
    BY <1>1, <2>2, <2>3 DEF Grouping, Fit, Related, Node, Within
  <2>5. \E y, z \in Point :
          /\ AgreeOutside(x, y, G.v, G.w) /\ y \in Fanout(G.rel, G.v, G.w)
          /\ AgreeOutside(x, z, G.v, G.w) /\ z \notin Fanout(G.rel, G.v, G.w)
    BY <2>2, <2>4, FanoutSplits
  <2>6. PICK y \in Point : AgreeOutside(x, y, G.v, G.w) /\ y \in Wanted(p, g + 1)
    BY <2>4, <2>5 DEF Wanted, Not
  <2>7. y \in wr[g + 1]
    BY <1>2, <2>1, <2>2, <2>3, <2>6 DEF AfterGroup
  <2>8. Matches(y)
    <3> SUFFICES ASSUME NEW k \in N + 1 .. Capacity PROVE y[id[k - N]] = p[k]
      OBVIOUS
    <3>1. id[k - N] \in Alone /\ id[k - N] \in PI /\ x[id[k - N]] = p[k]
      BY <1>6, <1>7, <2>1
    <3>2. id[k - N] \notin InputsOf(G.v) \cup InputsOf(G.w)
      BY <2>4, <3>1 DEF Alone
    <3> QED BY <2>6, <3>1, <3>2 DEF AgreeOutside
  <2> HIDE DEF Matches
  <2> QED BY <2>2, <2>7, <2>8
<1>10. 0 .. N \subseteq S
  <2> HIDE DEF S
  <2> QED BY <1>8, <1>9, UpToInduction
<1>11. N \in S
  BY <1>10
<1>12. PICK y \in wr[N] : Matches(y)
  BY <1>11
<1>13. y \in Images(p)
  BY <1>2, <1>7, <1>12
<1>14. Images(p) \subseteq wr[N] /\ wr[N] \subseteq Point
  BY <1>2
<1> QED BY <1>13, <1>14

\* What is drawn for a compact pattern has the bit of a group that no later group
\* writes over, and any input pattern with the bits may be drawn.
LEMMA ImagesShow ==
  ASSUME Grouping, NEW p \in CompactPattern
  PROVE  /\ \A y \in Images(p) : \A k \in (1 .. Capacity) \ Overwritten :
              CompactBits(y)[k] = p[k]
         /\ \A y \in Point : CompactBits(y) = p => y \in Images(p)
<1>1. PICK N \in Nat : N = Len(groups) /\ DOMAIN groups = 1 .. N
  BY DEF Grouping, Fit
<1>2. PICK wr \in [0 .. N -> SUBSET Point] :
        /\ wr[0] = Point
        /\ \A g \in 1 .. N : wr[g] = AfterGroup(p, g, wr[g - 1])
        /\ Images(p) = {y \in wr[N] :
                \A k \in N + 1 .. Capacity : CompactBit(Info, k, y) = p[k]}
  BY <1>1, Written
<1> DEFINE Clear(h, n) == \A m \in h + 1 .. n : Both(h) \cap Both(m) = {}
           Shows(n) == \A y \in wr[n] : \A h \in 1 .. n : Clear(h, n) => y \in Wanted(p, h)
           Draws(n) == \A y \in Point : (\A h \in 1 .. n : y \in Wanted(p, h)) => y \in wr[n]
           S == {n \in 0 .. N : Shows(n) /\ Draws(n)}
<1>3. 0 \in S
  BY <1>2
<1>4. \A n \in 0 .. N - 1 : n \in S => n + 1 \in S
  <2> SUFFICES ASSUME NEW n \in 0 .. N - 1, n \in S PROVE Shows(n + 1) /\ Draws(n + 1)
    OBVIOUS
  <2>1. n + 1 \in 1 .. N /\ (n + 1) - 1 = n /\ 1 .. n \subseteq 1 .. n + 1
    OBVIOUS
  <2>2. wr[n + 1] = AfterGroup(p, n + 1, wr[n]) /\ wr[n] \subseteq Point
    BY <1>2, <2>1
  <2>3. \A h \in 1 .. n + 1 : h \in 1 .. N /\ (h = n + 1 \/ h \in 1 .. n)
    OBVIOUS
  <2>4. Shows(n + 1)
    <3> SUFFICES ASSUME NEW y \in wr[n + 1], NEW h \in 1 .. n + 1, Clear(h, n + 1)
                 PROVE  y \in Wanted(p, h)
      OBVIOUS
    <3>1. y \in Wanted(p, n + 1) /\ y \in Point
      BY <1>2, <2>1, <2>2 DEF AfterGroup
    <3>2. PICK x \in wr[n] : AgreeOutside(x, y, groups[n + 1].v, groups[n + 1].w)
      BY <2>2 DEF AfterGroup
    <3>3. CASE h = n + 1
      BY <3>1, <3>3
    <3>4. CASE h \in 1 .. n
      <4>1. Clear(h, n)
        <5>1. h + 1 .. n \subseteq h + 1 .. n + 1
          BY <3>4
        <5> QED BY <5>1
      <4>2. x \in Point /\ x \in Wanted(p, h) /\ h \in 1 .. N
        BY <2>2, <2>3, <3>2, <3>4, <4>1
      <4>3. Both(h) \cap Both(n + 1) = {}
        <5>1. n + 1 \in h + 1 .. n + 1
          BY <3>4
        <5> QED BY <5>1
      <4>4. \A i \in Both(h) : x[i] = y[i]
        <5>1. Both(h) \subseteq PI
          BY <1>1, <4>2, VariableType DEF Grouping, Fit, Related, Both
        <5> QED BY <3>2, <4>3, <5>1 DEF AgreeOutside, Both
      <4>5. x \in Node(h) <=> y \in Node(h)
        BY <1>1, <3>1, <4>2, <4>4, NodeIs DEF Grouping
      <4> QED BY <3>1, <4>2, <4>5 DEF Wanted, Not
    <3> QED BY <2>3, <3>3, <3>4
  <2>5. Draws(n + 1)
    <3> SUFFICES ASSUME NEW y \in Point, \A h \in 1 .. n + 1 : y \in Wanted(p, h)
                 PROVE  y \in wr[n + 1]
      OBVIOUS
    <3>1. y \in Wanted(p, n + 1) /\ y \in wr[n]
      <4>1. n + 1 \in 1 .. n + 1
        OBVIOUS
      <4> QED BY <2>1, <4>1
    <3>2. AgreeOutside(y, y, groups[n + 1].v, groups[n + 1].w)
      BY DEF AgreeOutside
    <3> QED BY <2>2, <3>1, <3>2 DEF AfterGroup
  <2> HIDE DEF Shows, Draws
  <2> QED BY <2>4, <2>5
<1>5. 0 .. N \subseteq S
  <2> HIDE DEF S
  <2> QED BY <1>3, <1>4, UpToInduction
<1>6. N \in S
  BY <1>5
<1>7. Shows(N) /\ Draws(N)
  BY <1>6
<1>8. \A y : \A k \in 1 .. Capacity : CompactBits(y)[k] = CompactBit(Info, k, y)
  BY DEF CompactBits
<1>9. ASSUME NEW k \in 1 .. N
      PROVE  /\ k \in 1 .. Capacity
             /\ \A y \in Point : y \in Wanted(p, k) <=> CompactBit(Info, k, y) = p[k]
  <2>1. k \in 1 .. Capacity
    BY <1>1, CompactIs
  <2>2. p[k] = "0" \/ p[k] = "1"
    BY <2>1 DEF CompactPattern, Bit
  <2>3. \A y : CompactBit(Info, k, y) = IF y \in Node(k) THEN "1" ELSE "0"
    BY <1>1, CompactIs
  <2> QED BY <2>1, <2>2, <2>3 DEF Wanted, Not
<1>10. \A k \in 1 .. Capacity : k \in 1 .. N \/ k \in N + 1 .. Capacity
  BY <1>1, CompactIs
<1>11. ASSUME NEW y \in Images(p), NEW k \in (1 .. Capacity) \ Overwritten
       PROVE  CompactBits(y)[k] = p[k]
  <2>1. y \in Point /\ y \in wr[N]
    BY <1>2
  <2>2. CASE k \in 1 .. N
    <3>1. Clear(k, N)
      <4> SUFFICES ASSUME NEW m \in k + 1 .. N PROVE Both(k) \cap Both(m) = {}
        OBVIOUS
      <4>1. m \in 1 .. N /\ m > k
        BY <2>2
      <4> QED BY <1>1, <1>11, <2>2, <4>1 DEF Overwritten
    <3>2. y \in Wanted(p, k)
      <4> HIDE DEF Clear
      <4> QED BY <1>7, <2>1, <2>2, <3>1
    <3> QED BY <1>8, <1>9, <2>1, <2>2, <3>2
  <2>3. CASE k \in N + 1 .. Capacity
    BY <1>2, <1>8, <1>11, <2>3
  <2> QED BY <1>10, <2>2, <2>3
<1>12. ASSUME NEW y \in Point, CompactBits(y) = p PROVE y \in Images(p)
  <2>1. \A k \in 1 .. Capacity : CompactBit(Info, k, y) = p[k]
    BY <1>8, <1>12
  <2>2. y \in wr[N]
    <3>1. \A h \in 1 .. N : y \in Wanted(p, h)
      BY <1>9, <2>1
    <3> QED BY <1>7, <3>1
  <2>3. \A k \in N + 1 .. Capacity : k \in 1 .. Capacity
    BY <1>1, CompactIs
  <2> QED BY <1>2, <2>1, <2>2, <2>3
<1> QED BY <1>11, <1>12

\* An input pattern may be drawn for its own compact pattern.
LEMMA BitsDrawn ==
  ASSUME Grouping, NEW x \in Point
  PROVE  CompactBits(x) \in CompactPattern /\ x \in Images(CompactBits(x))
BY BitsType, ImagesShow

\* Every compact pattern has an answer, and the answers are those of the input
\* patterns with its bits.
LEMMA AnswersAre ==
  ASSUME Grouping, oracle \in [Point -> BOOLEAN]
  PROVE  /\ Answers \in [CompactPattern -> (SUBSET BOOLEAN) \ {{}}]
         /\ \A x \in Point : oracle[x] \in Answers[CompactBits(x)]
<1>1. ASSUME NEW p \in CompactPattern
      PROVE  {oracle[x] : x \in Images(p)} \in (SUBSET BOOLEAN) \ {{}}
  <2>1. PICK x : x \in Images(p)
    BY ImagesDrawn
  <2>2. \A y \in Images(p) : oracle[y] \in BOOLEAN
    BY ImagesDrawn
  <2> QED BY <2>1, <2>2
<1>2. ASSUME NEW x \in Point PROVE oracle[x] \in Answers[CompactBits(x)]
  BY BitsDrawn DEF Answers
<1> QED BY <1>1, <1>2 DEF Answers

-----------------------------------------------------------------------------
(* The groups found and what is kept of them.                              *)

\* The groups found so far, and the first variable of the pairs being tried: it is in
\* no group as the second one. The black box is not constant when a group is found.
GroupsFit ==
  /\ Grouping
  /\ at.i > 0 /\ at.j > 0
  /\ at.k > 0 => /\ at.i \in DOMAIN Classes /\ at.j \in DOMAIN Class /\ at.j < at.k
                 /\ \A h \in DOMAIN groups :
                      InputsOf(Class[at.j]) \cap InputsOf(groups[h].w) = {}
  /\ groups # <<>> => \E x, y \in Point : oracle[x] # oracle[y]

\* The search works on the groups found, and on nothing when there are none.
Kept ==
  /\ pc = "group" \/ groups = <<>> => queue = <<>> /\ comcubes = {}
  /\ pc # "group" /\ groups # <<>> => info = Info /\ answers = Answers
  /\ IsFiniteSet(comcubes)

\* A relation is found only where the black box takes both values.
LEMMA FoundDiffers ==
  ASSUME NEW v, NEW w, SameLength(v, w), NEW r \in Findable(v, w), r # "NO_RELATION"
  PROVE  r \in Kinds /\ \E x, y \in Point : oracle[x] # oracle[y]
<1>1. \A q \in Kinds : Fanout(q, v, w) \subseteq Point
  BY FanoutType DEF OnSet
<1>2. PICK e \in Point :
        \E b \in Seen(e, v, w, "EQUIVALENCE") \X Seen(e, v, w, "LARGER_THAN")
                                              \X Seen(e, v, w, "SMALLER_THAN") :
          r = Verdict(b[1], b[2], b[3])
  BY DEF Findable
<1>3. PICK b0 \in Seen(e, v, w, "EQUIVALENCE"), b1 \in Seen(e, v, w, "LARGER_THAN"),
           b2 \in Seen(e, v, w, "SMALLER_THAN") : r = Verdict(b0, b1, b2)
  BY <1>2
<1>4. /\ \E x \in Point : oracle[x] = b0
      /\ \E x \in Point : oracle[x] = b1
      /\ \E x \in Point : oracle[x] = b2
  BY <1>1 DEF Seen, Kinds
<1>5. r \in Kinds /\ (b0 # b1 \/ b0 # b2)
  <2>1. CASE b1 = b2 /\ b1 # b0
    BY <1>3, <2>1, Zenon DEF Verdict, Kinds
  <2>2. CASE b0 = b1 /\ b0 # b2
    BY <1>3, <2>2, Zenon DEF Verdict, Kinds
  <2>3. CASE b0 = b2 /\ b0 # b1
    BY <1>3, <2>3, Zenon DEF Verdict, Kinds
  <2>4. CASE ~ (b1 = b2 /\ b1 # b0) /\ ~ (b0 = b1 /\ b0 # b2) /\ ~ (b0 = b2 /\ b0 # b1)
    BY <1>3, <2>4, Zenon DEF Verdict
  <2> QED BY <2>1, <2>2, <2>3, <2>4
<1> QED BY <1>4, <1>5

\* One step of the search for groups.
LEMMA GroupsStep ==
  ASSUME TypeOK, GroupsFit, [Next]_vars
  PROVE  GroupsFit' /\ at' \in [i : Nat, j : Nat, k : Nat]
<1>1. PICK i \in Nat, j \in Nat, k \in Nat : at = [i |-> i, j |-> j, k |-> k]
  BY DEF TypeOK
<1>2. Len(Classes) \in Nat /\ DOMAIN Classes = 1 .. Len(Classes)
  BY TemplateAssumption
<1>3. ASSUME i <= Len(Classes)
      PROVE  /\ i \in DOMAIN Classes /\ Class = Classes[i]
             /\ Len(Class) \in Nat /\ DOMAIN Class = 1 .. Len(Class)
  <2>1. i \in DOMAIN Classes
    BY <1>1, <1>2, <1>3 DEF GroupsFit
  <2>2. Classes[i] \in Seq(Seq(PI))
    BY <2>1, TemplateAssumption
  <2> QED BY <1>1, <2>1, <2>2 DEF Class
<1>4. i > 0 /\ j > 0
  BY <1>1 DEF GroupsFit
<1>5. CASE UNCHANGED <<oracle, at, groups, isGrouped>>
  BY <1>5 DEF GroupsFit, Grouping, Class, TypeOK
<1>6. CASE NextPair
  <2>1. UNCHANGED <<oracle, groups, isGrouped>> /\ i <= Len(Classes)
    BY <1>1, <1>6 DEF NextPair
  <2>2. GroupsFit' <=>
          /\ at.i' > 0 /\ at.j' > 0
          /\ at.k' > 0 =>
               /\ at.i' \in DOMAIN Classes /\ at.j' \in DOMAIN Classes[at.i']
               /\ at.j' < at.k'
               /\ \A h \in DOMAIN groups :
                    InputsOf(Classes[at.i'][at.j']) \cap InputsOf(groups[h].w) = {}
    BY <2>1 DEF GroupsFit, Grouping, Class
  <2>3. CASE at' = NextClass
    <3>1. at' = [i |-> i + 1, j |-> 1, k |-> 0]
      BY <1>1, <2>3 DEF NextClass
    <3> QED BY <2>2, <3>1
  <2>4. CASE Len(Class) > 1 /\ j <= Len(Class) /\ k = 0
             /\ at' = IF Class[j][1] \in isGrouped THEN [at EXCEPT !.j = @ + 1]
                      ELSE [at EXCEPT !.k = j + 1]
    <3>1. CASE Class[j][1] \in isGrouped
      <4>1. at' = [i |-> i, j |-> j + 1, k |-> 0]
        BY <1>1, <2>4, <3>1
      <4> QED BY <1>4, <2>2, <4>1
    <3>2. CASE Class[j][1] \notin isGrouped
      <4>1. at' = [i |-> i, j |-> j, k |-> j + 1]
        BY <1>1, <2>4, <3>2
      <4>2. i \in DOMAIN Classes /\ j \in DOMAIN Classes[i] /\ Class = Classes[i]
        BY <1>3, <1>4, <2>1, <2>4
      <4>3. Variable(Classes[i][j])
        BY <4>2 DEF Variable
      <4>4. \A h \in DOMAIN groups : InputsOf(Classes[i][j]) \cap InputsOf(groups[h].w) = {}
        BY <3>2, <4>2, <4>3, FirstInputTells DEF GroupsFit, Grouping
      <4> QED BY <1>4, <2>2, <4>1, <4>2, <4>4
    <3> QED BY <3>1, <3>2
  <2>5. CASE at' = [at EXCEPT !.j = @ + 1, !.k = 0]
    <3>1. at' = [i |-> i, j |-> j + 1, k |-> 0]
      BY <1>1, <2>5
    <3> QED BY <1>4, <2>2, <3>1
  <2>6. CASE k > 0 /\ at' = [at EXCEPT !.k = @ + 1]
    <3>1. at' = [i |-> i, j |-> j, k |-> k + 1]
      BY <1>1, <2>6
    <3>2. /\ i \in DOMAIN Classes /\ j \in DOMAIN Classes[i] /\ j < k
          /\ \A h \in DOMAIN groups : InputsOf(Classes[i][j]) \cap InputsOf(groups[h].w) = {}
      BY <1>1, <2>6 DEF GroupsFit, Class
    <3> QED BY <1>4, <2>2, <3>1, <3>2
  <2> QED BY <1>1, <1>3, <1>6, <2>1, <2>3, <2>4, <2>5, <2>6 DEF NextPair
<1>7. CASE TryPair
  <2>1. /\ UNCHANGED oracle /\ i <= Len(Classes) /\ k \in 1 .. Len(Class)
        /\ Class[k][1] \notin isGrouped
        /\ at' = [i |-> i, j |-> j, k |-> k + 1]
    BY <1>1, <1>7 DEF TryPair
  <2>2. /\ i \in DOMAIN Classes /\ j \in DOMAIN Classes[i] /\ k \in DOMAIN Classes[i] /\ j < k
        /\ Class = Classes[i]
        /\ \A h \in DOMAIN groups : InputsOf(Classes[i][j]) \cap InputsOf(groups[h].w) = {}
    BY <1>1, <1>3, <2>1 DEF GroupsFit, Class
  <2>3. PICK v, w : v = Classes[i][j] /\ w = Classes[i][k]
    OBVIOUS
  <2>4. Variable(v) /\ Variable(w) /\ Pair(v, w) /\ SameLength(v, w)
    BY <2>2, <2>3, ClassPair DEF Pair
  <2>5. PICK r \in Findable(v, w) :
          IF r = "NO_RELATION"
          THEN UNCHANGED <<groups, isGrouped>>
          ELSE /\ groups' = Append(groups, [v |-> v, w |-> w, rel |-> r])
               /\ isGrouped' = isGrouped \cup InputsOf(v) \cup InputsOf(w)
    BY <1>1, <1>7, <2>2, <2>3 DEF TryPair, Grouped
  <2>6. GroupsFit' <=>
          /\ Grouping'
          /\ \A h \in DOMAIN groups' : InputsOf(v) \cap InputsOf(groups'[h].w) = {}
          /\ groups' # <<>> => \E x, y \in Point : oracle[x] # oracle[y]
    <3>1. at.i' = i /\ at.j' = j /\ at.k' = k + 1 /\ k + 1 > 0 /\ j < k + 1
      BY <2>1, <2>2
    <3> QED BY <1>4, <2>1, <2>2, <2>3, <3>1 DEF GroupsFit, Class
  <2>7. CASE r = "NO_RELATION"
    BY <2>1, <2>2, <2>3, <2>5, <2>6, <2>7 DEF GroupsFit, Grouping
  <2>8. CASE r # "NO_RELATION"
    <3>1. r \in Kinds /\ \E x, y \in Point : oracle[x] # oracle[y]
      BY <2>4, <2>8, FoundDiffers
    <3>2. PICK gs : gs = groups
      OBVIOUS
    <3>3. PICK new : new = Append(gs, [v |-> v, w |-> w, rel |-> r])
      OBVIOUS
    <3>4. Fit(gs) /\ isGrouped = Within(gs)
      BY <3>2 DEF GroupsFit, Grouping
    <3>5. Fit(new) /\ Within(new) = Within(gs) \cup InputsOf(v) \cup InputsOf(w)
      BY <2>1, <2>2, <2>3, <2>4, <3>1, <3>2, <3>3, <3>4, OneMoreGroup
    <3>6. groups' = new /\ isGrouped' = Within(new)
      BY <2>5, <2>8, <3>2, <3>3, <3>4, <3>5
    <3>7. \A h \in DOMAIN new : InputsOf(v) \cap InputsOf(new[h].w) = {}
      <4>1. /\ DOMAIN new = 1 .. Len(gs) + 1 /\ new[Len(gs) + 1].w = w
            /\ DOMAIN gs = 1 .. Len(gs) /\ Len(gs) \in Nat
            /\ \A h \in DOMAIN gs : new[h] = gs[h]
        BY <3>3, <3>4 DEF Fit
      <4>2. \A h \in DOMAIN new : h \in DOMAIN gs \/ h = Len(gs) + 1
        BY <4>1
      <4>3. InputsOf(v) \cap InputsOf(w) = {}
        BY <2>4 DEF Pair
      <4> QED BY <2>2, <2>3, <3>2, <4>1, <4>2, <4>3
    <3> QED BY <2>1, <2>6, <3>1, <3>5, <3>6, <3>7 DEF Grouping
  <2> QED BY <2>7, <2>8
<1>8. CASE StartExploring
  BY <1>5, <1>8 DEF StartExploring, found
<1>9. CASE Converge \/ Cut \/ Split \/ Finish
  BY <1>5, <1>9 DEF Converge, Cut, Split, Finish, found
<1>10. CASE Stopped \/ UNCHANGED vars
  BY <1>5, <1>10 DEF Stopped, vars, found
<1> QED BY <1>6, <1>7, <1>8, <1>9, <1>10 DEF Next

\* The cubes over compact patterns.
CompactCube == [1 .. Capacity -> Bit \cup {DontCare}]

\* In the search the groups stay, and with them what compact patterns are.
LEMMA SearchStays ==
  ASSUME UNCHANGED <<groups, isGrouped>>
  PROVE  /\ Capacity' = Capacity /\ CompactPattern' = CompactPattern /\ Info' = Info
         /\ CompactCube' = CompactCube /\ Disjoint' = Disjoint
<1>1. Capacity' = Capacity
  BY DEF Capacity, Alone
<1>2. Info' = Info
  BY DEF Info, InputIdAlone, Alone, Node
<1>3. Disjoint' = Disjoint
  BY DEF Disjoint, Both
<1> QED BY <1>1, <1>2, <1>3 DEF CompactPattern, CompactCube

\* The first cube, and what is left of a queue.
LEMMA QueueOf ==
  ASSUME TypeOK
  PROVE  /\ RootCube \in CompactCube
         /\ queue # <<>> => /\ Front \in CompactCube /\ Tail(queue) \in Seq(CompactCube)
                            /\ Len(queue) \in Nat \ {0}
                            /\ \A n \in 1 .. Len(queue) - 1 : Tail(queue)[n] = queue[n + 1]
                            /\ Len(Tail(queue)) = Len(queue) - 1 /\ Front = queue[1]
<1>1. RootCube \in CompactCube
  BY DEF RootCube, CompactCube
<1>2. queue \in Seq(CompactCube)
  BY DEF TypeOK, CompactCube
<1>3. PICK q : q = queue
  OBVIOUS
<1>4. PICK C : C = CompactCube
  OBVIOUS
<1>5. q \in Seq(C)
  BY <1>2, <1>3, <1>4
<1>6. q # <<>> => /\ Head(q) \in C /\ Tail(q) \in Seq(C) /\ Len(q) \in Nat \ {0}
                  /\ \A n \in 1 .. Len(q) - 1 : Tail(q)[n] = q[n + 1]
                  /\ Len(Tail(q)) = Len(q) - 1 /\ Head(q) = q[1]
  BY <1>5
<1> QED BY <1>1, <1>3, <1>4, <1>6 DEF Front

\* The two cubes that take the place of the front one.
LEMMA CofactorsOf ==
  ASSUME TypeOK, queue # <<>>, NEW n
  PROVE  /\ RestOfQueue \o Cofactors(n) \in Seq(CompactCube)
         /\ \A m \in 1 .. Len(queue) - 1 : (RestOfQueue \o Cofactors(n))[m] = queue[m + 1]
         /\ (RestOfQueue \o Cofactors(n))[Len(queue)] = [Front EXCEPT ![n] = "0"]
         /\ (RestOfQueue \o Cofactors(n))[Len(queue) + 1] = [Front EXCEPT ![n] = "1"]
         /\ Len(RestOfQueue \o Cofactors(n)) = Len(queue) + 1
<1>1. PICK l \in Nat : l = Len(queue) - 1 /\ Len(queue) = l + 1
  <2>1. PICK m \in Nat \ {0} : m = Len(queue)
    BY QueueOf
  <2>2. m - 1 \in Nat /\ m = (m - 1) + 1
    OBVIOUS
  <2> QED BY <2>1, <2>2
<1>2. PICK C : C = CompactCube
  OBVIOUS
<1>3. PICK a, b : a = [Front EXCEPT ![n] = "0"] /\ b = [Front EXCEPT ![n] = "1"]
  OBVIOUS
<1>4. a \in C /\ b \in C
  <2>1. Front \in [1 .. Capacity -> Bit \cup {DontCare}]
    BY QueueOf DEF CompactCube
  <2> QED BY <1>2, <1>3, <2>1 DEF CompactCube, Bit
<1>5. PICK t \in Seq(C) : t = RestOfQueue /\ Len(t) = l /\ \A m \in 1 .. l : t[m] = queue[m + 1]
  BY <1>1, <1>2, QueueOf DEF RestOfQueue
<1>6. PICK c : c = <<a, b>>
  OBVIOUS
<1>7. c \in Seq(C) /\ Len(c) = 2 /\ c[1] = a /\ c[2] = b
  BY <1>4, <1>6
<1>8. /\ t \o c \in Seq(C) /\ Len(t \o c) = l + 2
      /\ \A m \in 1 .. l : (t \o c)[m] = t[m]
      /\ (t \o c)[l + 1] = a /\ (t \o c)[l + 2] = b
  <2>1. PICK f : f = t \o c
    OBVIOUS
  <2>2. /\ f \in Seq(C) /\ Len(f) = l + 2
        /\ \A m \in 1 .. l + 2 : f[m] = IF m <= l THEN t[m] ELSE c[m - l]
    <3>1. /\ t \o c \in Seq(C) /\ Len(t \o c) = Len(t) + Len(c)
          /\ \A m \in 1 .. Len(t) + Len(c) :
               (t \o c)[m] = IF m <= Len(t) THEN t[m] ELSE c[m - Len(t)]
      BY <1>7, ConcatProperties, Zenon
    <3> QED BY <1>5, <1>7, <2>1, <3>1
  <2>3. (\A m \in 1 .. l : f[m] = t[m]) /\ f[l + 1] = a /\ f[l + 2] = b
    <3>1. /\ l + 1 \in 1 .. l + 2 /\ ~ (l + 1 <= l) /\ (l + 1) - l = 1
          /\ l + 2 \in 1 .. l + 2 /\ ~ (l + 2 <= l) /\ (l + 2) - l = 2
          /\ \A m \in 1 .. l : m \in 1 .. l + 2 /\ m <= l
      OBVIOUS
    <3> QED BY <1>7, <2>2, <3>1
  <2> QED BY <2>1, <2>2, <2>3
<1> QED BY <1>1, <1>2, <1>3, <1>5, <1>6, <1>8 DEF Cofactors

\* What is recorded in a step.
LEMMA RecordIs ==
  ASSUME TypeOK, Kept, queue # <<>>, NEW val, Record(val)
  PROVE  /\ comcubes' \subseteq CompactCube /\ IsFiniteSet(comcubes')
         /\ comcubes' = IF val # tendency THEN comcubes \cup {Front} ELSE comcubes
<1>1. Front \in CompactCube /\ comcubes \subseteq CompactCube /\ IsFiniteSet(comcubes)
  BY QueueOf DEF TypeOK, Kept, CompactCube
<1>2. IsFiniteSet(comcubes \cup {Front})
  BY <1>1, FS_AddElement
<1> QED BY <1>1, <1>2 DEF Record

\* The types stay, and what is kept of the groups.
LEMMA TypeStep ==
  ASSUME TypeOK, GroupsFit, Kept, [Next]_vars
  PROVE  TypeOK' /\ Kept'
<1>1. GroupsFit' /\ at' \in [i : Nat, j : Nat, k : Nat]
  BY GroupsStep
<1>2. groups' \in Seq(Group) /\ isGrouped' \subseteq PI
  <2>1. PICK gs : gs = groups'
    OBVIOUS
  <2>2. Fit(gs) /\ isGrouped' = Within(gs)
    BY <1>1, <2>1 DEF GroupsFit, Grouping
  <2> QED BY <2>1, <2>2, WithinType DEF Fit
<1>3. UNCHANGED <<oracle, tendency, max_depth, exact_depth>>
  BY DEF Next, NextPair, TryPair, StartExploring, Converge, Cut, Split, Finish, Stopped,
         vars, found, built
<1>4. ASSUME /\ info' \in ComcubeInfo
             /\ pc' = "explore" => answers' \in [CompactPattern' -> (SUBSET BOOLEAN) \ {{}}]
             /\ queue' \in Seq(CompactCube') /\ comcubes' \subseteq CompactCube'
             /\ pc' \in {"group", "explore", "done", "flooded"}
      PROVE  TypeOK'
  BY <1>1, <1>2, <1>3, <1>4 DEF TypeOK, Group, CompactCube
<1>5. CASE NextPair \/ TryPair
  <2>1. pc = "group" /\ UNCHANGED <<info, answers, queue, comcubes, pc>>
    BY <1>5 DEF NextPair, TryPair
  <2>2. queue = <<>> /\ comcubes = {}
    BY <2>1 DEF Kept
  <2>3. TypeOK'
    BY <1>4, <2>1, <2>2 DEF TypeOK
  <2>4. Kept'
    BY <2>1 DEF Kept
  <2> QED BY <2>3, <2>4
<1>6. CASE StartExploring
  <2>1. /\ pc = "group" /\ UNCHANGED <<oracle, groups, isGrouped, comcubes>>
        /\ IF groups = <<>> THEN pc' = "done" /\ UNCHANGED <<info, answers, queue>>
           ELSE /\ pc' = "explore" /\ info' = Info /\ answers' = Answers
                /\ queue' = <<RootCube>>
    BY <1>6 DEF StartExploring, found
  <2>2. queue = <<>> /\ comcubes = {} /\ IsFiniteSet(comcubes)
    BY <2>1 DEF Kept
  <2>3. /\ CompactPattern' = CompactPattern /\ CompactCube' = CompactCube
        /\ Info' = Info
    BY <2>1, SearchStays
  <2>4. Answers' = Answers
    BY <2>1 DEF Answers, CompactPattern, Capacity, Alone, Images, Node, Info, InputIdAlone
  <2>5. Answers \in [CompactPattern -> (SUBSET BOOLEAN) \ {{}}] /\ Info \in ComcubeInfo
    BY AnswersAre, CompactIs DEF GroupsFit, TypeOK
  <2>6. TypeOK'
    <3>1. CASE groups = <<>>
      BY <1>4, <2>1, <2>2, <3>1 DEF TypeOK
    <3>2. CASE groups # <<>>
      <4>1. PICK r : r = RootCube /\ r \in CompactCube
        BY QueueOf
      <4>2. <<r>> \in Seq(CompactCube)
        BY <4>1
      <4> QED BY <1>4, <2>1, <2>2, <2>3, <2>5, <3>2, <4>1, <4>2
    <3> QED BY <3>1, <3>2
  <2>7. Kept'
    BY <2>1, <2>2, <2>3, <2>4 DEF Kept
  <2> QED BY <2>6, <2>7
<1>7. ASSUME pc = "explore", UNCHANGED <<oracle, groups, isGrouped, info, answers>>,
             pc' \in {"explore", "done", "flooded"},
             queue' \in Seq(CompactCube), comcubes' \subseteq CompactCube,
             IsFiniteSet(comcubes'),
             groups = <<>> => queue' = <<>> /\ comcubes' = {}
      PROVE  TypeOK' /\ Kept'
  <2>1. /\ CompactPattern' = CompactPattern /\ CompactCube' = CompactCube
        /\ Info' = Info
    BY <1>7, SearchStays
  <2>2. Answers' = Answers
    BY <1>7 DEF Answers, CompactPattern, Capacity, Alone, Images, Node, Info, InputIdAlone
  <2>3. TypeOK'
    BY <1>4, <1>7, <2>1 DEF TypeOK
  <2>4. Kept'
    BY <1>7, <2>1, <2>2 DEF Kept
  <2> QED BY <2>3, <2>4
<1>8. queue \in Seq(CompactCube) /\ comcubes \subseteq CompactCube /\ IsFiniteSet(comcubes)
      /\ (groups = <<>> => queue = <<>> /\ comcubes = {})
  BY DEF TypeOK, Kept, CompactCube
<1>9. CASE Converge \/ Cut
  <2>1. /\ pc = "explore" /\ UNCHANGED <<oracle, groups, isGrouped, info, answers, pc>>
        /\ queue # <<>> /\ queue' = Tail(queue) /\ \E val \in BOOLEAN : Record(val)
    BY <1>9 DEF Converge, Cut, found
  <2>2. PICK val \in BOOLEAN : Record(val)
    BY <2>1
  <2>3. comcubes' \subseteq CompactCube /\ IsFiniteSet(comcubes')
    BY <2>1, <2>2, RecordIs
  <2> QED BY <1>7, <1>8, <2>1, <2>3, QueueOf
<1>10. CASE Split
  <2>1. /\ pc = "explore" /\ UNCHANGED <<oracle, groups, isGrouped, info, answers, comcubes>>
        /\ queue # <<>>
        /\ \/ UNCHANGED pc /\ \E n : queue' = RestOfQueue \o Cofactors(n)
           \/ pc' = "flooded" /\ UNCHANGED queue
    BY <1>10 DEF Split, found
  <2>2. queue' \in Seq(CompactCube)
    BY <1>8, <2>1, CofactorsOf
  <2> QED BY <1>7, <1>8, <2>1, <2>2
<1>11. CASE Finish
  BY <1>7, <1>8, <1>11 DEF Finish, found
<1>12. CASE Stopped \/ UNCHANGED vars
  <2>1. UNCHANGED vars
    BY <1>12 DEF Stopped
  <2>2. UNCHANGED <<groups, isGrouped, oracle, info, answers, queue, comcubes, pc>>
    BY <2>1 DEF vars, found
  <2>3. /\ CompactPattern' = CompactPattern /\ CompactCube' = CompactCube
        /\ Info' = Info
    BY <2>2, SearchStays
  <2>4. Answers' = Answers
    BY <2>2 DEF Answers, CompactPattern, Capacity, Alone, Images, Node, Info, InputIdAlone
  <2>5. TypeOK'
    BY <1>4, <1>8, <2>2, <2>3 DEF TypeOK
  <2> QED BY <2>2, <2>3, <2>4, <2>5 DEF Kept
<1> QED BY <1>5, <1>6, <1>9, <1>10, <1>11, <1>12 DEF Next

\* All of it holds at the start.
LEMMA InitFits == Init => TypeOK /\ GroupsFit /\ Kept
<1> SUFFICES ASSUME Init PROVE TypeOK /\ GroupsFit /\ Kept
  OBVIOUS
<1>1. Fit(<<>>) /\ Within(<<>>) = {}
  BY DEF Fit, Within
<1>2. IsFiniteSet({})
  BY FS_EmptySet
<1>3. GroupsFit
  BY <1>1 DEF Init, GroupsFit, Grouping
<1>4. Kept
  BY <1>2 DEF Init, Kept
<1>5. TypeOK
  <2>1. [nodes |-> <<>>, pis |-> <<>>] \in ComcubeInfo
    BY DEF ComcubeInfo
  <2> QED BY <2>1, TemplateAssumption DEF Init, TypeOK
<1> QED BY <1>3, <1>4, <1>5

-----------------------------------------------------------------------------
(* Cubes over compact patterns.                                            *)

\* A compact pattern of a determined output has one answer.
LEMMA OneAnswer ==
  ASSUME NEW A \in SUBSET BOOLEAN, Cardinality(A) = 1, NEW val \in A
  PROVE  A = {val}
<1>1. IsFiniteSet({TRUE, FALSE})
  <2>1. IsFiniteSet({} \cup {TRUE})
    BY FS_EmptySet, FS_AddElement
  <2>2. IsFiniteSet(({} \cup {TRUE}) \cup {FALSE})
    BY <2>1, FS_AddElement
  <2>3. ({} \cup {TRUE}) \cup {FALSE} = {TRUE, FALSE}
    OBVIOUS
  <2> QED BY <2>2, <2>3
<1>2. IsFiniteSet(A)
  <2>1. A \subseteq {TRUE, FALSE}
    OBVIOUS
  <2> QED BY <1>1, <2>1, FS_Subset
<1>3. IsFiniteSet(A \ {val}) /\ Cardinality(A \ {val}) = 0
  <2>1. IsFiniteSet(A \ {val}) /\ Cardinality(A \ {val}) = Cardinality(A) - 1
    BY <1>2, FS_RemoveElement
  <2> QED BY <2>1
<1>4. A \ {val} = {}
  BY <1>3, FS_EmptySet
<1> QED BY <1>4

\* The corner of zeros and its neighbours are the patterns of a cube with at most one 1 in
\* its free bits.
LEMMA NearZeros ==
  ASSUME Grouping, NEW s \in CompactCube, NEW p \in CompactRegion(s),
         \A m, n \in FreeBits(s) : p[m] = "1" /\ p[n] = "1" => m = n
  PROVE  \/ p = CompactCorner(s, "0")
         \/ \E n \in FreeBits(s) : p = Neighbour(CompactCorner(s, "0"), n)
<1>1. PICK C \in Nat : C = Capacity
  BY CompactIs
<1>2. /\ s \in [1 .. C -> Bit \cup {DontCare}] /\ p \in [1 .. C -> Bit]
      /\ \A n \in 1 .. C : s[n] \in {DontCare, p[n]}
  BY <1>1 DEF CompactCube, CompactRegion, CompactPattern
<1>3. PICK zero : zero = CompactCorner(s, "0")
  OBVIOUS
<1>4. /\ zero \in [1 .. C -> Bit]
      /\ \A n \in 1 .. C : /\ n \in FreeBits(s) => zero[n] = "0"
                           /\ n \notin FreeBits(s) => zero[n] = p[n]
  BY <1>2, <1>3 DEF CompactCorner, FreeBits, Bit
<1>5. \A n \in 1 .. C : p[n] = "0" \/ p[n] = "1"
  BY <1>2 DEF Bit
<1>6. FreeBits(s) \subseteq 1 .. C
  BY <1>2 DEF FreeBits
<1>7. CASE \A n \in FreeBits(s) : p[n] = "0"
  <2>1. \A n \in 1 .. C : p[n] = zero[n]
    BY <1>4, <1>7
  <2>2. p = zero
    BY <1>2, <1>4, <2>1
  <2> QED BY <1>3, <2>2
<1>8. CASE \E n \in FreeBits(s) : p[n] # "0"
  <2>1. PICK n \in FreeBits(s) : p[n] = "1"
    BY <1>5, <1>6, <1>8
  <2>2. Neighbour(zero, n) = [zero EXCEPT ![n] = "1"]
    BY <1>4, <1>6, <2>1 DEF Neighbour, Flip
  <2>3. \A k \in 1 .. C : p[k] = [zero EXCEPT ![n] = "1"][k]
    BY <1>4, <1>5, <2>1
  <2>4. p = [zero EXCEPT ![n] = "1"]
    BY <1>2, <1>4, <2>3
  <2> QED BY <1>3, <2>1, <2>2, <2>4
<1> QED BY <1>7, <1>8

\* With at most three bits, every pattern of a cube is a corner of it or a neighbour of
\* one: of the free bits at most one is 1, or at most one is 0.
LEMMA AllNear ==
  ASSUME Grouping, Capacity <= 3, NEW s \in CompactCube, NEW p \in CompactRegion(s)
  PROVE  \E c \in Corners(s) : p = c \/ \E n \in FreeBits(s) : p = Neighbour(c, n)
<1>1. PICK C \in Nat : C = Capacity /\ C <= 3
  BY CompactIs
<1>2. /\ s \in [1 .. C -> Bit \cup {DontCare}] /\ p \in [1 .. C -> Bit]
      /\ \A n \in 1 .. C : s[n] \in {DontCare, p[n]}
  BY <1>1 DEF CompactCube, CompactRegion, CompactPattern
<1>3. PICK zero, one : zero = CompactCorner(s, "0") /\ one = CompactCorner(s, "1")
  OBVIOUS
<1>4. /\ zero \in [1 .. C -> Bit] /\ one \in [1 .. C -> Bit]
      /\ \A n \in 1 .. C : /\ n \in FreeBits(s) => zero[n] = "0" /\ one[n] = "1"
                           /\ n \notin FreeBits(s) => zero[n] = p[n] /\ one[n] = p[n]
  BY <1>2, <1>3 DEF CompactCorner, FreeBits, Bit
<1>5. \A n \in 1 .. C : p[n] = "0" \/ p[n] = "1"
  BY <1>2 DEF Bit
<1>6. zero \in Corners(s) /\ one \in Corners(s) /\ FreeBits(s) \subseteq 1 .. C
  BY <1>2, <1>3 DEF Corners, Bit, FreeBits
<1>7. \/ \A m, n \in FreeBits(s) : p[m] = "1" /\ p[n] = "1" => m = n
      \/ \A m, n \in FreeBits(s) : p[m] = "0" /\ p[n] = "0" => m = n
  <2> SUFFICES ASSUME NEW m \in FreeBits(s), NEW n \in FreeBits(s), p[m] = "1", p[n] = "1",
                      m # n,
                      NEW k \in FreeBits(s), NEW l \in FreeBits(s), p[k] = "0", p[l] = "0",
                      k # l
               PROVE  FALSE
    OBVIOUS
  <2>1. m \in 1 .. 3 /\ n \in 1 .. 3 /\ k \in 1 .. 3 /\ l \in 1 .. 3
    BY <1>1, <1>6
  <2>2. m # k /\ m # l /\ n # k /\ n # l
    OBVIOUS
  <2> QED BY <2>1, <2>2
<1>8. CASE \A m, n \in FreeBits(s) : p[m] = "1" /\ p[n] = "1" => m = n
  BY <1>3, <1>6, <1>8, NearZeros
<1>9. CASE \A m, n \in FreeBits(s) : p[m] = "0" /\ p[n] = "0" => m = n
  <2>1. CASE \A n \in FreeBits(s) : p[n] = "1"
    <3>1. \A n \in 1 .. C : p[n] = one[n]
      BY <1>4, <2>1
    <3>2. p = one
      BY <1>2, <1>4, <3>1
    <3> QED BY <1>6, <3>2
  <2>2. CASE \E n \in FreeBits(s) : p[n] # "1"
    <3>1. PICK n \in FreeBits(s) : p[n] = "0"
      BY <1>5, <1>6, <2>2
    <3>2. Neighbour(one, n) = [one EXCEPT ![n] = "0"]
      BY <1>4, <1>6, <3>1 DEF Neighbour, Flip
    <3>3. \A k \in 1 .. C : p[k] = [one EXCEPT ![n] = "0"][k]
      BY <1>4, <1>5, <1>9, <3>1
    <3>4. p = [one EXCEPT ![n] = "0"]
      BY <1>2, <1>4, <3>3
    <3> QED BY <1>6, <3>1, <3>2, <3>4
  <2> QED BY <2>1, <2>2
<1> QED BY <1>7, <1>8, <1>9

\* What the number of literals of a cube says.
LEMMA SizeIs ==
  ASSUME Grouping, NEW s \in CompactCube
  PROVE  /\ Size(s) \in Nat /\ Size(s) <= Capacity
         /\ Size(s) = Capacity => FreeBits(s) = {}
         /\ Size(s) = 0 => CompactRegion(s) = CompactPattern
<1>1. PICK C \in Nat : C = Capacity
  BY CompactIs
<1>2. DOMAIN s = 1 .. C /\ FreeBits(s) \subseteq 1 .. C
  BY <1>1 DEF CompactCube, FreeBits
<1>3. PICK I : I = 1 .. C
  OBVIOUS
<1>4. PICK A : A = I \ FreeBits(s)
  OBVIOUS
<1>5. IsFiniteSet(I) /\ Cardinality(I) = C
  <2>1. IsFiniteSet(1 .. C) /\ Cardinality(1 .. C) = IF 1 > C THEN 0 ELSE C - 1 + 1
    BY FS_Interval
  <2> QED BY <1>3, <2>1
<1>6. A \subseteq I
  BY <1>4
<1>7. IsFiniteSet(A) /\ Cardinality(A) <= C /\ (Cardinality(A) = C => A = I)
  BY <1>5, <1>6, FS_Subset
<1>8. Cardinality(A) \in Nat /\ (Cardinality(A) = 0 => A = {})
  BY <1>7, FS_CardinalityType, FS_EmptySet
<1>9. Size(s) = Cardinality(A)
  BY <1>2, <1>3, <1>4 DEF Size
<1>10. A = I => FreeBits(s) = {}
  BY <1>2, <1>3, <1>4
<1>11. A = {} => CompactRegion(s) = CompactPattern
  BY <1>2, <1>3, <1>4 DEF CompactRegion, FreeBits
<1> QED BY <1>1, <1>7, <1>8, <1>9, <1>10, <1>11

\* A pattern of a cube is in one of its cofactors.
LEMMA CofactorsCover ==
  ASSUME NEW s \in CompactCube, NEW p \in CompactRegion(s), NEW n \in 1 .. Capacity
  PROVE  \/ p \in CompactRegion([s EXCEPT ![n] = "0"])
         \/ p \in CompactRegion([s EXCEPT ![n] = "1"])
<1>1. p \in CompactPattern /\ DOMAIN s = 1 .. Capacity /\ (p[n] = "0" \/ p[n] = "1")
      /\ \A k \in 1 .. Capacity : s[k] \in {DontCare, p[k]}
  BY DEF CompactRegion, CompactCube, CompactPattern, Bit
<1>2. ASSUME NEW b, p[n] = b PROVE p \in CompactRegion([s EXCEPT ![n] = b])
  BY <1>1, <1>2 DEF CompactRegion
<1> QED BY <1>1, <1>2

\* A cube that may look constant is constant when its patterns are sampled, unless it is
\* so deep that a minority is tolerated, and one whose patterns disagree has a free bit.
LEMMA SampledIsSo ==
  ASSUME Grouping, Determined, answers \in [CompactPattern -> (SUBSET BOOLEAN) \ {{}}],
         NEW s \in CompactCube
  PROVE  /\ \A val \in BOOLEAN : Capacity <= 3 /\ CanConverge(answers, s, val) =>
              Tolerant(s) \/ \A p \in CompactRegion(s) : answers[p] = {val}
         /\ CanDisagree(answers, s) => FreeBits(s) # {}
<1>1. \A p \in CompactPattern : answers[p] \in SUBSET BOOLEAN /\ Cardinality(answers[p]) = 1
  BY DEF Determined
<1>2. \A p \in CompactRegion(s) : p \in CompactPattern
  BY DEF CompactRegion
<1>3. ASSUME NEW val \in BOOLEAN, Capacity <= 3, CanConverge(answers, s, val),
             ~Tolerant(s), NEW p \in CompactRegion(s)
      PROVE  answers[p] = {val}
  <2>1. PICK c \in Corners(s) : p = c \/ \E n \in FreeBits(s) : p = Neighbour(c, n)
    BY <1>3, AllNear
  <2>2. val \in answers[p]
    BY <1>3, <2>1 DEF CanConverge
  <2> QED BY <1>1, <1>2, <2>2, OneAnswer
<1>4. ASSUME CanDisagree(answers, s), FreeBits(s) = {} PROVE FALSE
  <2>1. PICK p \in CompactRegion(s) : TRUE \in answers[p]
    BY <1>4 DEF CanDisagree
  <2>2. PICK q \in CompactRegion(s) : FALSE \in answers[q]
    BY <1>4 DEF CanDisagree
  <2>3. /\ p \in [1 .. Capacity -> Bit] /\ q \in [1 .. Capacity -> Bit]
        /\ \A n \in 1 .. Capacity : s[n] # DontCare /\ s[n] \in {DontCare, p[n]}
                                   /\ s[n] \in {DontCare, q[n]}
    BY <1>4 DEF CompactRegion, CompactPattern, FreeBits, CompactCube
  <2>4. \A n \in 1 .. Capacity : p[n] = q[n]
    BY <2>3
  <2>5. p = q
    <3>1. p = [n \in 1 .. Capacity |-> p[n]] /\ q = [n \in 1 .. Capacity |-> q[n]]
      BY <2>3, Zenon
    <3>2. [n \in 1 .. Capacity |-> p[n]] = [n \in 1 .. Capacity |-> q[n]]
      BY <2>4, Zenon
    <3> QED BY <3>1, <3>2, Zenon
  <2>6. answers[p] = {TRUE}
    BY <1>1, <1>2, <2>1, OneAnswer
  <2> QED BY <2>2, <2>5, <2>6
<1> QED BY <1>3, <1>4

-----------------------------------------------------------------------------
(* What is recorded, when the groups determine the output.                 *)

\* The output takes one value on the input patterns of p, and it is not the tendency.
Settled(p) == answers[p] = {~tendency}

\* The search was made, and it samples all of every cube.
Searching == pc # "group" /\ groups # <<>>
Exhaustive == Searching /\ Determined /\ Capacity <= 3

\* A cube so deep that its samples may be believed without agreeing.
Believed(s) == (Size(s) >= max_depth \/ Size(s) >= exact_depth) /\ FreeBits(s) # {}

\* A recorded cube has no pattern with the value of the tendency, unless its samples may
\* have been believed.
Sound ==
  Exhaustive => \A s \in comcubes :
    \/ Believed(s)
    \/ \A p \in CompactRegion(s) : Settled(p)

\* No pattern with the other value is lost: it is in a recorded cube, or in one that is
\* still in the queue.
Complete ==
  Exhaustive /\ NeverBelieved => \A p \in CompactPattern : Settled(p) =>
    \/ \E s \in comcubes : p \in CompactRegion(s)
    \/ \E n \in 1 .. Len(queue) : p \in CompactRegion(queue[n])

\* The inductive invariant.
IInv == TypeOK /\ GroupsFit /\ Kept /\ Sound /\ Complete

\* Within the search both are about the same patterns.
LEMMA SettledStays ==
  ASSUME UNCHANGED <<groups, isGrouped, answers, tendency, built>>
  PROVE  /\ Determined' = Determined /\ Capacity' = Capacity
         /\ CompactPattern' = CompactPattern
         /\ \A s : CompactRegion(s)' = CompactRegion(s)
         /\ \A p : Settled(p)' = Settled(p)
         /\ \A s : Believed(s)' = Believed(s)
         /\ NeverBelieved' = NeverBelieved
<1>1. Capacity' = Capacity /\ CompactPattern' = CompactPattern /\ Disjoint' = Disjoint
  BY SearchStays
<1> QED BY <1>1
        DEF Determined, CompactRegion, Settled, Believed, Size, FreeBits, NeverBelieved, built

\* Before the last compact input no cube is believed.
LEMMA NotBelieved ==
  ASSUME TypeOK, Grouping, NeverBelieved, NEW s \in CompactCube
  PROVE  ~Believed(s)
<1>1. /\ Size(s) \in Nat /\ Size(s) <= Capacity /\ Capacity \in Nat
      /\ Size(s) = Capacity => FreeBits(s) = {}
  BY SizeIs, CompactIs
<1>2. max_depth \in Nat /\ exact_depth \in Nat
  BY DEF TypeOK
<1> QED BY <1>1, <1>2 DEF NeverBelieved, Believed

\* One step of the search.
LEMMA SearchStep ==
  ASSUME IInv, [Next]_vars
  PROVE  Sound' /\ Complete'
<1>1. TypeOK /\ GroupsFit /\ Kept /\ Sound /\ Complete /\ Grouping
  BY DEF IInv, GroupsFit
<1>2. CASE NextPair \/ TryPair
  BY <1>2 DEF NextPair, TryPair, Sound, Complete, Exhaustive, Searching
<1>3. CASE StartExploring
  <2>1. /\ comcubes' = {} /\ UNCHANGED <<groups, isGrouped>>
        /\ groups # <<>> => queue' = <<RootCube>>
    BY <1>1, <1>3 DEF StartExploring, found, Kept
  <2>2. Sound'
    BY <2>1 DEF Sound
  <2>3. ASSUME groups # <<>>, NEW p \in CompactPattern'
        PROVE  \E n \in 1 .. Len(queue') : p \in CompactRegion(queue[n])'
    <3>1. Capacity' = Capacity /\ CompactPattern' = CompactPattern
      BY <2>1, SearchStays
    <3>2. PICK r : r = RootCube
      OBVIOUS
    <3>3. Len(queue') = 1 /\ queue'[1] = r /\ 1 \in 1 .. Len(queue')
      BY <2>1, <2>3, <3>2
    <3>4. \A m \in DOMAIN r : r[m] = DontCare
      BY <3>2 DEF RootCube
    <3>5. p \in CompactRegion(queue[1])'
      BY <2>3, <3>3, <3>4 DEF CompactRegion
    <3> QED BY <3>3, <3>5
  <2>4. Complete'
    BY <2>1, <2>3 DEF Complete, Exhaustive, Searching
  <2> QED BY <2>2, <2>4
<1>4. ASSUME UNCHANGED <<groups, isGrouped, answers, tendency, built, queue, comcubes>>,
             pc # "group" \/ pc' = pc
      PROVE  Sound' /\ Complete'
  BY <1>1, <1>4, SettledStays DEF Sound, Complete, Exhaustive, Searching
<1>5. CASE Finish \/ Stopped \/ UNCHANGED vars
  BY <1>4, <1>5 DEF Finish, Stopped, vars, found, built
<1>6. ASSUME Exhaustive, queue # <<>>
      PROVE  /\ answers \in [CompactPattern -> (SUBSET BOOLEAN) \ {{}}]
             /\ Front \in CompactCube /\ tendency \in BOOLEAN
             /\ CanDisagree(answers, Front) => FreeBits(Front) # {}
             /\ \A val \in BOOLEAN : CanConverge(answers, Front, val) =>
                  Tolerant(Front) \/ \A p \in CompactRegion(Front) : answers[p] = {val}
  <2>1. answers = Answers /\ oracle \in [Point -> BOOLEAN]
    BY <1>1, <1>6 DEF Exhaustive, Searching, Kept, TypeOK
  <2>2. answers \in [CompactPattern -> (SUBSET BOOLEAN) \ {{}}]
    BY <1>1, <2>1, AnswersAre
  <2>3. Front \in CompactCube
    BY <1>1, <1>6, QueueOf
  <2> QED BY <1>1, <1>6, <2>2, <2>3, SampledIsSo DEF Exhaustive, TypeOK
<1>7. ASSUME UNCHANGED <<groups, isGrouped, answers, tendency, built, pc>>,
             queue # <<>>, queue' = Tail(queue),
             NEW val \in BOOLEAN,
             comcubes' = IF val # tendency THEN comcubes \cup {Front} ELSE comcubes,
             Exhaustive =>
               \/ Believed(Front)
               \/ \A p \in CompactRegion(Front) : answers[p] = {val}
      PROVE  Sound' /\ Complete'
  <2>1. /\ Determined' = Determined /\ Capacity' = Capacity
        /\ CompactPattern' = CompactPattern
        /\ \A s : CompactRegion(s)' = CompactRegion(s)
        /\ \A p : Settled(p)' = Settled(p)
        /\ \A s : Believed(s)' = Believed(s)
        /\ NeverBelieved' = NeverBelieved
    BY <1>7, SettledStays
  <2>2. Exhaustive' = Exhaustive
    BY <1>7, <2>1 DEF Exhaustive, Searching
  <2>3. tendency \in BOOLEAN
    BY <1>1 DEF TypeOK
  <2>4. Sound'
    <3>2. ASSUME Exhaustive, NEW s \in comcubes'
          PROVE  \/ Believed(s)
                 \/ \A p \in CompactRegion(s) : Settled(p)
      <4>1. CASE s \in comcubes
        BY <1>1, <3>2, <4>1 DEF Sound
      <4>2. CASE s \notin comcubes
        <5>1. s = Front /\ val = ~tendency
          BY <1>7, <2>3, <3>2, <4>2
        <5> QED BY <1>7, <3>2, <5>1 DEF Settled
      <4> QED BY <4>1, <4>2
    <3> QED BY <1>7, <2>1, <2>2, <3>2 DEF Sound
  <2>5. Complete'
    <3>1. ASSUME Exhaustive, NeverBelieved, NEW p \in CompactPattern, Settled(p)
          PROVE  \/ \E s \in comcubes' : p \in CompactRegion(s)
                 \/ \E n \in 1 .. Len(queue') : p \in CompactRegion(queue'[n])
      <4>1. PICK L \in Nat \ {0} : L = Len(queue)
        BY <1>1, <1>7, QueueOf
      <4>2. /\ Len(queue') = L - 1 /\ Front = queue[1]
            /\ \A n \in 1 .. L - 1 : queue'[n] = queue[n + 1]
        BY <1>1, <1>7, <4>1, QueueOf
      <4>3. CASE \E s \in comcubes : p \in CompactRegion(s)
        BY <1>7, <4>3
      <4>4. CASE \E n \in 1 .. L : n # 1 /\ p \in CompactRegion(queue[n])
        <5>1. PICK n \in 1 .. L : n # 1 /\ p \in CompactRegion(queue[n])
          BY <4>4
        <5>2. n - 1 \in 1 .. L - 1 /\ (n - 1) + 1 = n
          BY <5>1
        <5> QED BY <4>2, <5>1, <5>2
      <4>5. CASE p \in CompactRegion(Front)
        <5>1. ~Believed(Front)
          BY <1>1, <1>6, <1>7, <3>1, NotBelieved
        <5>2. answers[p] = {val} /\ answers[p] = {~tendency}
          BY <1>7, <3>1, <4>5, <5>1 DEF Settled
        <5>3. val = ~tendency
          BY <5>2, Zenon
        <5> QED BY <1>7, <2>3, <4>5, <5>3
      <4> QED BY <1>1, <3>1, <4>1, <4>2, <4>3, <4>4, <4>5 DEF Complete
    <3> QED BY <1>7, <2>1, <2>2, <3>1 DEF Complete
  <2> QED BY <2>4, <2>5
<1>8. CASE Converge
  <2>1. /\ UNCHANGED <<groups, isGrouped, answers, tendency, built, pc>>
        /\ queue # <<>> /\ queue' = Tail(queue)
    BY <1>8 DEF Converge, found
  <2>2. PICK val \in BOOLEAN : CanConverge(answers, Front, val) /\ Record(val)
    BY <1>8 DEF Converge
  <2>3. Tolerant(Front) => Believed(Front)
    BY DEF Tolerant, Believed
  <2> QED BY <1>6, <1>7, <2>1, <2>2, <2>3 DEF Record
<1>9. CASE Cut
  <2>1. /\ UNCHANGED <<groups, isGrouped, answers, tendency, built, pc>>
        /\ queue # <<>> /\ queue' = Tail(queue)
        /\ CanDisagree(answers, Front) /\ Size(Front) >= max_depth
    BY <1>9 DEF Cut, found
  <2>2. PICK val \in BOOLEAN : Record(val)
    BY <1>9 DEF Cut
  <2> QED BY <1>6, <1>7, <2>1, <2>2 DEF Record, Believed
<1>10. CASE Split
  <2>1. /\ UNCHANGED <<groups, isGrouped, answers, tendency, built, comcubes>>
        /\ queue # <<>> /\ pc = "explore" /\ pc' \in {"explore", "flooded"}
        /\ \/ \E n \in Critical(answers, Front) : queue' = RestOfQueue \o Cofactors(n)
           \/ UNCHANGED queue
    BY <1>10 DEF Split, found
  <2>2. CASE UNCHANGED queue
    BY <1>4, <2>1, <2>2
  <2>3. CASE \E n \in Critical(answers, Front) : queue' = RestOfQueue \o Cofactors(n)
    <3>1. PICK n \in Critical(answers, Front) : queue' = RestOfQueue \o Cofactors(n)
      BY <2>3
    <3>2. /\ Determined' = Determined /\ Capacity' = Capacity
          /\ CompactPattern' = CompactPattern
          /\ \A s : CompactRegion(s)' = CompactRegion(s)
          /\ \A p : Settled(p)' = Settled(p)
          /\ \A s : Believed(s)' = Believed(s)
          /\ NeverBelieved' = NeverBelieved
      BY <2>1, SettledStays
    <3>3. Exhaustive' = Exhaustive
      BY <2>1, <3>2 DEF Exhaustive, Searching
    <3>4. Sound'
      BY <1>1, <2>1, <3>2, <3>3 DEF Sound
    <3>5. ASSUME Exhaustive, NeverBelieved, NEW p \in CompactPattern, Settled(p)
          PROVE  \/ \E s \in comcubes' : p \in CompactRegion(s)
                 \/ \E m \in 1 .. Len(queue') : p \in CompactRegion(queue'[m])
      <4>1. PICK L \in Nat \ {0} : L = Len(queue)
        BY <1>1, <2>1, QueueOf
      <4>2. /\ Len(queue') = L + 1 /\ Front = queue[1]
            /\ \A m \in 1 .. L - 1 : queue'[m] = queue[m + 1]
            /\ queue'[L] = [Front EXCEPT ![n] = "0"]
            /\ queue'[L + 1] = [Front EXCEPT ![n] = "1"]
        BY <1>1, <2>1, <3>1, <4>1, QueueOf, CofactorsOf
      <4>3. CASE \E s \in comcubes : p \in CompactRegion(s)
        BY <2>1, <4>3
      <4>4. CASE \E m \in 1 .. L : m # 1 /\ p \in CompactRegion(queue[m])
        <5>1. PICK m \in 1 .. L : m # 1 /\ p \in CompactRegion(queue[m])
          BY <4>4
        <5>2. m - 1 \in 1 .. L - 1 /\ (m - 1) + 1 = m /\ m - 1 \in 1 .. L + 1
          BY <5>1
        <5> QED BY <4>2, <5>1, <5>2
      <4>5. CASE p \in CompactRegion(Front)
        <5>1. n \in 1 .. Capacity
          <6>1. n \in FreeBits(Front) \/ n = 1
            BY <3>1 DEF Critical
          <6>2. FreeBits(Front) \subseteq 1 .. Capacity
            BY <1>6, <2>1, <3>5 DEF FreeBits, CompactCube
          <6>3. Len(groups) \in Nat \ {0}
            BY <1>1, <3>5 DEF Exhaustive, Searching, Grouping, Fit
          <6>4. 1 \in 1 .. Capacity
            BY <1>1, <6>3, CompactIs
          <6> QED BY <6>1, <6>2, <6>4
        <5>2. \/ p \in CompactRegion([Front EXCEPT ![n] = "0"])
              \/ p \in CompactRegion([Front EXCEPT ![n] = "1"])
          BY <1>6, <2>1, <3>5, <4>5, <5>1, CofactorsCover
        <5>3. L \in 1 .. L + 1 /\ L + 1 \in 1 .. L + 1
          OBVIOUS
        <5> QED BY <4>2, <5>2, <5>3
      <4> QED BY <1>1, <3>5, <4>1, <4>2, <4>3, <4>4, <4>5 DEF Complete
    <3>6. Complete'
      BY <2>1, <3>2, <3>3, <3>5 DEF Complete
    <3> QED BY <3>4, <3>6
  <2> QED BY <2>1, <2>2, <2>3
<1> QED BY <1>2, <1>3, <1>5, <1>8, <1>9, <1>10 DEF Next

\* The invariant holds in all reachable states.
LEMMA Inductive == Spec => []IInv
<1>1. Init => IInv
  <2>1. Init => Sound /\ Complete
    BY DEF Init, Sound, Complete, Exhaustive, Searching
  <2> QED BY <2>1, InitFits DEF IInv
<1>2. IInv /\ [Next]_vars => IInv'
  BY GroupsStep, TypeStep, SearchStep DEF IInv
<1> QED BY <1>1, <1>2, PTL DEF Spec

-----------------------------------------------------------------------------
(* The properties.                                                         *)

\* The cubes in the queue and the recorded ones are as long as compact patterns, and
\* every compact pattern has been given some answer.
THEOREM TypeCorrect == Spec => []TypeOK
<1>1. IInv => TypeOK
  BY DEF IInv
<1> QED BY <1>1, Inductive, PTL

\* The inputs of the second variable of a group are in no other group, for any number
\* of variables of any lengths.
THEOREM SecondsGroupedOnceCorrect == Spec => []SecondsGroupedOnce
<1>1. IInv => SecondsGroupedOnce
  BY DEF IInv, GroupsFit, Grouping, Fit, SecondsGroupedOnce, Second, Both
<1> QED BY <1>1, Inductive, PTL

\* The black box is asked about the input patterns for which the network gives the bits
\* of a compact pattern, whichever groups there are and whichever variables they share,
\* but for the bits of the groups written over.
THEOREM AskedIsBuiltCorrect == Spec => []AskedIsBuilt
<1>1. IInv => AskedIsBuilt
  BY ImagesShow DEF IInv, GroupsFit, AskedIsBuilt
<1> QED BY <1>1, Inductive, PTL

\* In a determined output the answer of a compact pattern is the value of every input
\* pattern with its bits.
LEMMA AnswerIs ==
  ASSUME IInv, Searching, Determined, NEW x \in Point
  PROVE  /\ CompactBits(x) \in CompactPattern
         /\ oracle[x] \in BOOLEAN /\ answers[CompactBits(x)] = {oracle[x]}
<1>1. /\ Grouping /\ oracle \in [Point -> BOOLEAN] /\ answers = Answers
  BY DEF IInv, GroupsFit, TypeOK, Kept, Searching
<1>2. CompactBits(x) \in CompactPattern
  BY <1>1, BitsType
<1>3. oracle[x] \in answers[CompactBits(x)]
  BY <1>1, AnswersAre
<1>4. /\ answers[CompactBits(x)] \in SUBSET BOOLEAN
      /\ Cardinality(answers[CompactBits(x)]) = 1
  <2>1. Answers \in [CompactPattern -> (SUBSET BOOLEAN) \ {{}}]
    BY <1>1, AnswersAre
  <2> QED BY <1>1, <1>2, <2>1 DEF Determined
<1> QED BY <1>1, <1>2, <1>3, <1>4, OneAnswer

\* A recorded cube has a literal: without one it would say that the black box is
\* constant, and then no group was found.
LEMMA HasLiteral ==
  ASSUME IInv, Exhaustive, NEW s \in comcubes
  PROVE  Size(s) > 0
<1>1. Grouping /\ s \in CompactCube /\ tendency \in BOOLEAN
  BY DEF IInv, GroupsFit, TypeOK, CompactCube
<1>2. Size(s) \in Nat /\ (Size(s) = 0 => CompactRegion(s) = CompactPattern)
  BY <1>1, SizeIs
<1>3. max_depth \in Nat \ {0} /\ exact_depth \in Nat \ {0}
  BY DEF IInv, TypeOK
<1>4. ASSUME Size(s) = 0 PROVE FALSE
  <2>1. \A p \in CompactPattern : answers[p] = {~tendency}
    BY <1>2, <1>3, <1>4 DEF IInv, Sound, Settled, Believed
  <2>2. PICK x \in Point, y \in Point : oracle[x] # oracle[y]
    BY DEF IInv, GroupsFit, Exhaustive, Searching
  <2>3. {oracle[x]} = {~tendency} /\ {oracle[y]} = {~tendency}
    BY <2>1, AnswerIs DEF Exhaustive
  <2> QED BY <2>2, <2>3
<1> QED BY <1>2, <1>4

\* add_cone is never called without a fanin for a cube of a determined output, whatever
\* the depth at which the search is cut.
THEOREM LiteralsCorrect == Spec => []LiteralsWhenDetermined
<1>1. IInv => LiteralsWhenDetermined
  BY HasLiteral DEF LiteralsWhenDetermined, Searched, Exhaustive, Searching
<1> QED BY <1>1, Inductive, PTL

\* A point meets the literals of a cube when its compact pattern is in the cube.
LEMMA MeetsIs ==
  ASSUME Grouping, NEW s \in CompactCube
  PROVE  Meets(Info, s) = {x \in Point : CompactBits(x) \in CompactRegion(s)}
<1>1. ASSUME NEW x \in Point
      PROVE  (\A k \in DOMAIN s :
                s[k] # DontCare => (x \in CompactFanin(Info, k) <=> s[k] = "1"))
               <=> CompactBits(x) \in CompactRegion(s)
  <2>1. DOMAIN s = 1 .. Capacity /\ \A k \in 1 .. Capacity : s[k] \in Bit \cup {DontCare}
    BY DEF CompactCube
  <2>2. CompactBits(x) \in CompactPattern
    BY BitsType
  <2>3. \A k \in 1 .. Capacity : CompactBits(x)[k] \in Bit
    BY <2>2 DEF CompactPattern
  <2>4. ASSUME NEW k \in 1 .. Capacity
        PROVE  x \in CompactFanin(Info, k) <=> CompactBits(x)[k] = "1"
    <3>1. CompactBits(x)[k] = CompactBit(Info, k, x)
      BY DEF CompactBits
    <3> QED BY <3>1 DEF CompactFanin, CompactBit, On
  <2> QED BY <2>1, <2>2, <2>3, <2>4 DEF CompactRegion, Bit
<1> QED BY <1>1 DEF Meets

\* The output of the network, when nothing is left in the queue.
LEMMA CircuitIs ==
  ASSUME IInv, Exhaustive, NeverBelieved, queue = <<>>
  PROVE  Circuit = {x \in Point : oracle[x]}
<1>1. /\ Grouping /\ info = Info /\ Info \in ComcubeInfo /\ IsFiniteSet(comcubes)
      /\ comcubes \subseteq CompactCube /\ tendency \in BOOLEAN
  BY CompactIs DEF IInv, GroupsFit, Kept, TypeOK, Exhaustive, Searching, CompactCube
<1>2. PICK S : S = comcubes
  OBVIOUS
<1>3. PICK c \in Nat : c = Cardinality(S) /\ InSomeOrder(S) \in [1 .. c -> S]
                       /\ \A s \in S : \E n \in 1 .. c : InSomeOrder(S)[n] = s
  BY <1>1, <1>2, SomeOrderLists
<1>4. PICK pats : pats = InSomeOrder(S)
  OBVIOUS
<1>5. \A s \in S : s \in CompactString /\ Literal(s)
  <2> SUFFICES ASSUME NEW s \in S PROVE s \in CompactString /\ Literal(s)
    OBVIOUS
  <2>1. s \in CompactCube /\ Size(s) > 0 /\ Size(s) \in Nat
    BY <1>1, <1>2, HasLiteral, SizeIs
  <2>2. s \in CompactString
    <3>1. PICK C \in Nat : C = Capacity
      BY <1>1, CompactIs
    <3> QED BY <2>1, <3>1 DEF CompactCube, CompactString
  <2>3. DOMAIN s \ FreeBits(s) # {}
    <3>1. PICK A : A = DOMAIN s \ FreeBits(s)
      OBVIOUS
    <3>2. Size(s) = Cardinality(A)
      BY <3>1 DEF Size
    <3>3. Cardinality({}) = 0
      BY FS_EmptySet
    <3>4. Cardinality(A) > 0
      BY <2>1, <3>2
    <3>5. ASSUME A = {} PROVE FALSE
      <4>1. Cardinality(A) = 0
        BY <3>3, <3>5, Zenon
      <4> QED BY <3>4, <4>1
    <3> QED BY <3>1, <3>5
  <2> QED BY <2>2, <2>3 DEF Literal, FreeBits
<1>6. pats \in Seq(CompactString) /\ DOMAIN pats = 1 .. c /\ \A n \in 1 .. c : pats[n] \in S
  BY <1>3, <1>4, <1>5
<1>7. AddCompact({}, Info, pats) = {} \cup UNION {Meets(Info, pats[n]) : n \in DOMAIN pats}
  <2>1. {} \in OnSet
    BY DEF OnSet
  <2>2. PICK ci \in ComcubeInfo : ci = Info
    BY <1>1
  <2>3. AddCompact({}, ci, pats) = {} \cup UNION {Meets(ci, pats[n]) : n \in DOMAIN pats}
    BY <1>5, <1>6, <2>1, AddCompactIs
  <2> QED BY <2>2, <2>3
<1>8. ASSUME NEW x \in Point
      PROVE  x \in AddCompact({}, Info, pats) <=> oracle[x] = ~tendency
  <2>1. x \in AddCompact({}, Info, pats) <=> \E n \in 1 .. c : x \in Meets(Info, pats[n])
    BY <1>6, <1>7
  <2>2. (\E n \in 1 .. c : x \in Meets(Info, pats[n])) <=> \E s \in S : x \in Meets(Info, s)
    BY <1>3, <1>4, <1>6
  <2>3. \A s \in S : x \in Meets(Info, s) <=> CompactBits(x) \in CompactRegion(s)
    BY <1>1, <1>2, MeetsIs
  <2>4. /\ CompactBits(x) \in CompactPattern /\ oracle[x] \in BOOLEAN
        /\ answers[CompactBits(x)] = {oracle[x]}
    BY AnswerIs DEF Exhaustive
  <2>5. ASSUME NEW s \in S, CompactBits(x) \in CompactRegion(s) PROVE oracle[x] = ~tendency
    <3>1. ~Believed(s)
      BY <1>1, <1>2, NotBelieved DEF IInv
    <3>2. answers[CompactBits(x)] = {~tendency}
      BY <1>2, <2>5, <3>1 DEF IInv, Sound, Settled
    <3>3. {oracle[x]} = {~tendency}
      BY <2>4, <3>2
    <3> QED BY <3>3, Zenon
  <2>6. ASSUME oracle[x] = ~tendency PROVE \E s \in S : CompactBits(x) \in CompactRegion(s)
    <3>1. Settled(CompactBits(x))
      BY <2>4, <2>6 DEF Settled
    <3>2. 1 .. Len(queue) = {}
      OBVIOUS
    <3> QED BY <1>2, <2>4, <3>1, <3>2 DEF IInv, Complete
  <2> QED BY <2>1, <2>2, <2>3, <2>5, <2>6
<1>9. PICK on : on = AddCompact({}, Info, pats)
  OBVIOUS
<1>10. on \subseteq Point
  BY <1>7, <1>9 DEF Meets
<1>11. Circuit = IF tendency THEN Point \ on ELSE on
  BY <1>1, <1>2, <1>4, <1>9 DEF Circuit, InvertIf
<1>12. \A x \in Point : x \in on <=> oracle[x] = ~tendency
  BY <1>8, <1>9
<1>13. \A x \in Point : oracle[x] \in BOOLEAN
  BY DEF IInv, TypeOK
<1> QED BY <1>1, <1>10, <1>11, <1>12, <1>13

\* The network of a determined output is the black box, for any number of inputs and of
\* variables of any length that leave at most three compact inputs, when the search
\* may go as deep.
THEOREM ExactCorrect == Spec => []ExactWhenDetermined
<1>1. IInv => ExactWhenDetermined
  BY CircuitIs DEF ExactWhenDetermined, Searched, Exhaustive, Searching
<1> QED BY <1>1, Inductive, PTL

-----------------------------------------------------------------------------
(* Splits where the samples of a cube are all of it.                       *)

\* A set with at most two elements has no third one.
LEMMA NoThird ==
  ASSUME NEW F, IsFiniteSet(F), Cardinality(F) <= 2, NEW a \in F, NEW b \in F, a # b,
         NEW c \in F
  PROVE  c = a \/ c = b
<1>1. PICK G : G = F \ {a}
  OBVIOUS
<1>2. IsFiniteSet(G) /\ Cardinality(G) = Cardinality(F) - 1
  BY <1>1, FS_RemoveElement
<1>3. PICK H : H = G \ {b}
  OBVIOUS
<1>4. IsFiniteSet(H) /\ Cardinality(H) = Cardinality(G) - 1
  BY <1>1, <1>2, <1>3, FS_RemoveElement
<1>5. Cardinality(H) \in Nat /\ Cardinality(F) \in Nat /\ Cardinality(G) \in Nat
  BY <1>2, <1>4, FS_CardinalityType
<1>6. Cardinality(H) = 0
  BY <1>2, <1>4, <1>5
<1>7. H = {}
  BY <1>4, <1>6, FS_EmptySet
<1> QED BY <1>1, <1>3, <1>7

\* Of a cube with at most two free bits, every pattern is near the corner of zeros or is
\* the corner of ones, which has a neighbour that is near the corner of zeros: where
\* nothing changes around both corners, the cube is constant.
LEMMA QuietIsConstant ==
  ASSUME Grouping, NEW s \in CompactCube, Plain(s),
         answers \in [CompactPattern -> (SUBSET BOOLEAN) \ {{}}],
         \A c \in Corners(s) : Quiet(answers, s, c)
  PROVE  ~CanDisagree(answers, s)
<1>1. PICK C \in Nat : C = Capacity
  BY CompactIs
<1>2. CompactPattern = [1 .. C -> Bit] /\ s \in [1 .. C -> Bit \cup {DontCare}]
  BY <1>1 DEF CompactPattern, CompactCube
<1>3. PICK F : F = FreeBits(s)
  OBVIOUS
<1>4. F \subseteq 1 .. C /\ IsFiniteSet(F) /\ Cardinality(F) <= 2
  <2>1. F \subseteq 1 .. C /\ Cardinality(F) <= 2
    BY <1>2, <1>3 DEF FreeBits, Plain
  <2>2. IsFiniteSet(1 .. C)
    BY FS_Interval
  <2> QED BY <2>1, <2>2, FS_Subset
<1>5. PICK zero, one : zero = CompactCorner(s, "0") /\ one = CompactCorner(s, "1")
  OBVIOUS
<1>6. /\ zero \in CompactRegion(s) /\ one \in CompactRegion(s)
      /\ zero \in Corners(s) /\ one \in Corners(s)
      /\ \A n \in 1 .. C : one[n] = IF n \in F THEN "1" ELSE s[n]
  <2>1. zero \in CompactPattern /\ one \in CompactPattern
    BY <1>2, <1>5 DEF CompactCorner, Bit
  <2>2. DOMAIN s = 1 .. C
    BY <1>2
  <2> QED BY <1>3, <1>5, <2>1, <2>2 DEF CompactRegion, CompactCorner, Corners, Bit, FreeBits
<1>7. \A p \in CompactRegion(s) :
        /\ p \in CompactPattern
        /\ \A v \in answers[p] : v \in BOOLEAN /\ answers[p] = {v}
  <2> SUFFICES ASSUME NEW p \in CompactRegion(s), NEW v \in answers[p]
               PROVE  p \in CompactPattern /\ v \in BOOLEAN /\ answers[p] = {v}
    BY DEF CompactRegion
  <2>1. p \in CompactPattern /\ answers[p] \in SUBSET BOOLEAN /\ Cardinality(answers[p]) = 1
    BY DEF Plain, CompactRegion
  <2> QED BY <2>1, OneAnswer
<1>8. PICK v \in answers[zero] : \A n \in F : v \in answers[Neighbour(zero, n)]
  BY <1>3, <1>6 DEF Quiet
<1>9. PICK w \in answers[one] : \A n \in F : w \in answers[Neighbour(one, n)]
  BY <1>3, <1>6 DEF Quiet
<1>10. ASSUME NEW p \in CompactRegion(s),
              \A m, n \in F : p[m] = "1" /\ p[n] = "1" => m = n
       PROVE  v \in answers[p]
  BY <1>3, <1>5, <1>8, <1>10, NearZeros
<1>11. ASSUME NEW p \in CompactRegion(s), NEW m \in F, NEW n \in F,
              p[m] = "1", p[n] = "1", m # n
       PROVE  v \in answers[p]
  <2>1. \A k \in F : k = m \/ k = n
    BY <1>4, <1>11, NoThird
  <2>2. p = one
    <3>1. \A k \in 1 .. C : p[k] = one[k]
      <4>1. \A k \in (1 .. C) \ F : s[k] = p[k]
        BY <1>2, <1>3 DEF CompactRegion, FreeBits
      <4> QED BY <1>6, <1>11, <2>1, <4>1
    <3>2. p \in [1 .. C -> Bit] /\ one \in [1 .. C -> Bit]
      BY <1>2, <1>6, <1>7
    <3> QED BY <3>1, <3>2
  <2>3. PICK q : q = Neighbour(one, m)
    OBVIOUS
  <2>4. q = [one EXCEPT ![m] = "0"]
    BY <1>11, <2>2, <2>3 DEF Neighbour, Flip
  <2>5. q \in CompactRegion(s) /\ q[m] = "0"
    <3>1. m \in 1 .. C /\ s[m] = DontCare /\ one \in [1 .. C -> Bit]
      BY <1>2, <1>3, <1>4, <1>6, <1>7 DEF FreeBits
    <3>2. q \in [1 .. C -> Bit] /\ q[m] = "0" /\ \A k \in 1 .. C : k # m => q[k] = one[k]
      BY <2>4, <3>1 DEF Bit
    <3>3. \A k \in 1 .. C : s[k] \in {DontCare, q[k]}
      BY <1>2, <1>6, <3>1, <3>2 DEF CompactRegion
    <3>4. DOMAIN s = 1 .. C
      BY <1>2
    <3> QED BY <1>2, <3>2, <3>3, <3>4 DEF CompactRegion
  <2>6. v \in answers[q]
    <3>1. \A k, l \in F : q[k] = "1" /\ q[l] = "1" => k = l
      BY <2>1, <2>5
    <3> QED BY <1>10, <2>5, <3>1
  <2>7. w \in answers[q]
    BY <1>9, <2>3
  <2>8. v = w
    BY <1>7, <2>5, <2>6, <2>7
  <2> QED BY <1>9, <2>2, <2>8
<1>12. \A p \in CompactRegion(s) : answers[p] = {v}
  BY <1>7, <1>10, <1>11
<1> QED BY <1>12, Zenon DEF CanDisagree

\* A cube that is split into itself is one that the search knows only in part: with at
\* most two free bits and answers that do not contradict each other, it takes a free bit.
THEOREM SplitsFreshCorrect == Spec => SplitsFresh
<1>1. ASSUME IInv, [Next]_vars, Len(queue') > Len(queue), queue # <<>>, Plain(Front)
      PROVE  \E n \in FreeBits(Front) : queue' = RestOfQueue \o Cofactors(n)
  <2>1. PICK L \in Nat : L = Len(queue)
    BY <1>1, QueueOf DEF IInv
  <2>2. queue' # queue /\ queue' # Tail(queue)
    BY <1>1, QueueOf DEF IInv
  <2>3. pc # "group" /\ groups # <<>>
    BY <1>1 DEF IInv, Kept
  <2>4. CanDisagree(answers, Front)
        /\ \E n \in Critical(answers, Front) : queue' = RestOfQueue \o Cofactors(n)
    BY <1>1, <2>2, <2>3 DEF Next, NextPair, TryPair, StartExploring, Converge, Cut, Split,
                            Finish, Stopped, vars
  <2>5. PICK n \in Critical(answers, Front) : queue' = RestOfQueue \o Cofactors(n)
    BY <2>4
  <2>6. /\ Grouping /\ Front \in CompactCube
        /\ answers \in [CompactPattern -> (SUBSET BOOLEAN) \ {{}}]
    BY <1>1, <2>3, QueueOf, AnswersAre DEF IInv, GroupsFit, Kept, TypeOK
  <2>7. ~ \A c \in Corners(Front) : Quiet(answers, Front, c)
    BY <1>1, <2>4, <2>6, QuietIsConstant
  <2>8. n \in FreeBits(Front)
    BY <2>7 DEF Critical
  <2> QED BY <2>5, <2>8
<1> QED BY <1>1, Inductive, PTL DEF Spec, SplitsFresh
=============================================================================
