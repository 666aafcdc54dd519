------------------------------- MODULE Parser -------------------------------
(***************************************************************************)
(* How names become variables: Parser::find_vars (src/src/parser.cpp) and  *)
(* class Variable (variable.h). A variable is the sequence of the inputs,  *)
(* or outputs, whose names share all but the last part.                    *)
(*                                                                         *)
(* A name is the sequence of its parts, which '_' separates; of a part, its*)
(* length and its rank among the parts of that length are kept. Digits are *)
(* smaller than letters: the rank of a number is the number.               *)
(***************************************************************************)
EXTENDS Integers, Sequences, FiniteSets

Part == [len : Nat, val : Nat]
Name == {name \in Seq(Part) : name # <<>>}
NoPart == [len |-> 0, val |-> 0]

\* ltrim: all up to the last delimiter, a part of its own, is erased.
Ltrim(name, del) ==
  LET ends == {n \in 1 .. Len(name) - 1 : name[n] = del}
      last == CHOOSE n \in ends : \A m \in ends : m <= n
  IN  IF ends = {} THEN name ELSE SubSeq(name, last + 1, Len(name))

\* rtrim: one '_' at the end is dropped.
Rtrim(name) ==
  IF Len(name) > 1 /\ name[Len(name)] = NoPart
  THEN SubSeq(name, 1, Len(name) - 1)
  ELSE name

Trim(name, del) == Rtrim(Ltrim(name, del))

\* The name of the variable, and what is left to sort by. A name without '_' is
\* both.
VarName(trimmed) ==
  IF Len(trimmed) = 1 THEN trimmed ELSE SubSeq(trimmed, 1, Len(trimmed) - 1)
Index(trimmed) == trimmed[Len(trimmed)]

\* Mutant of Compare: as strings are usually compared.
CompareFirstDigits(a, b) ==
  LET digits(p, n) == p.val \div 10 ^ (IF p.len > n THEN p.len - n ELSE 0)
      n == IF a.len < b.len THEN a.len ELSE b.len
  IN  digits(a, n) > digits(b, n) \/ (digits(a, n) = digits(b, n) /\ a.len > b.len)

\* Variable::compare: longer first, then larger first.
Compare(a, b) == a.len > b.len \/ (a.len = b.len /\ a.val > b.val)

\* The names of the variables, and the positions in names of those of one.
VarNames(names, del) == {VarName(Trim(names[i], del)) : i \in DOMAIN names}
Members(names, del, v) == {i \in DOMAIN names : VarName(Trim(names[i], del)) = v}

\* The sequences sort() may leave in _pis; the order of equal parts is open.
Sorted(names, del, v) ==
  LET members == Members(names, del, v)
      key(i)  == Index(Trim(names[i], del))
  IN  {s \in [1 .. Cardinality(members) -> members] :
         \A m, n \in DOMAIN s :
           m < n => s[m] # s[n] /\ ~Compare(key(s[n]), key(s[m]))}

\* What the hash of variables may hold at the end of the loop over the names.
Variables(names, del) ==
  {f \in [VarNames(names, del) -> UNION {Sorted(names, del, v) : v \in VarNames(names, del)}] :
     \A v \in DOMAIN f : f[v] \in Sorted(names, del, v)}

-----------------------------------------------------------------------------
(* Numbers as indices, which have no leading zeros.                        *)

\* 10^n, as a product the provers can follow.
Tens(n) == LET up[i \in 0 .. n] == IF i = 0 THEN 1 ELSE 10 * up[i - 1] IN up[n]

IsNumber(p) ==
  /\ p.len >= 1
  /\ p.val < Tens(p.len)
  /\ p.len = 1 \/ p.val >= Tens(p.len - 1)

\* Bits with numbers are in falling order of these.
NumbersFall(names, del, v) ==
  \A m, n \in DOMAIN v :
    LET a == Index(Trim(names[v[m]], del))
        b == Index(Trim(names[v[n]], del))
    IN  m < n /\ IsNumber(a) /\ IsNumber(b) => a.val >= b.val
=============================================================================
