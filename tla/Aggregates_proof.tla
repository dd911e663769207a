--------------------------- MODULE Aggregates_proof ---------------------------
(***************************************************************************)
(* What Total and Selected compute, for sequences of any length.           *)
(*                                                                         *)
(* Induction takes the form of the least counterexample (Least,            *)
(* Induction).  A recursive function is a CHOOSE of one that satisfies its *)
(* equations; that there is one is Recursion.                              *)
(***************************************************************************)
EXTENDS Aggregates, SequenceTheorems, WellFoundedInduction, TLAPS

-----------------------------------------------------------------------------
(* Induction, with sets in the place of predicates.                        *)

\* Every set of naturals with a member has a least one.
LEMMA Least ==
    ASSUME NEW S \in SUBSET Nat, S # {}
    PROVE  \E m \in S : \A k \in S : m <= k
<1> DEFINE R == OpToRel(<, Nat)
<1>1. IsWellFoundedOn(R, Nat)
  BY NatLessThanWellFounded
<1>2. R = {ss \in Nat \X Nat : ss[1] < ss[2]}
  BY DEF OpToRel
<1> HIDE DEF R
<1>3. PICK x \in S : \A y \in S : ~ (<<y, x>> \in R)
  BY <1>1, WFMin
<1>4. ASSUME NEW y \in S PROVE x <= y
  <2>1. <<y, x>> \in Nat \X Nat
    OBVIOUS
  <2>2. ~ (y < x)
    BY <1>2, <1>3, <2>1
  <2> QED
    BY <2>2
<1> QED
  BY <1>4

\* Induction up to n.
LEMMA Induction ==
    ASSUME NEW n \in Nat, NEW G,
           0 \in G, \A i \in 1..n : i - 1 \in G => i \in G
    PROVE  0..n \subseteq G
<1> DEFINE B == {i \in 0..n : i \notin G}
<1>1. SUFFICES ASSUME B # {} PROVE FALSE
  OBVIOUS
<1>2. B \in SUBSET Nat
  OBVIOUS
<1>3. PICK m \in B : \A k \in B : m <= k
  BY <1>1, <1>2, Least
<1>4. m \in 1..n /\ m - 1 \in 0..n
  OBVIOUS
<1>5. m - 1 \notin B
  BY <1>3, <1>4
<1> QED
  BY <1>4, <1>5

\* f has the first value and goes on with the next step up to n.
Solution(f, n, S, first, next) ==
    f \in [0..n -> S] /\ f[0] = first /\ \A i \in 1..n : f[i] = next[i][f[i - 1]]
Steps(n, S) == [1..n -> [S -> S]]

\* A recursion up to n has a solution.
LEMMA Recursion ==
    ASSUME NEW n \in Nat, NEW S, NEW first \in S, NEW next \in Steps(n, S)
    PROVE  \E f : Solution(f, n, S, first, next)
<1> USE DEF Steps
<1> DEFINE Solves(f, k) == f[0] = first /\ \A i \in 1..k : f[i] = next[i][f[i - 1]]
           G == {k \in 0..n : \E f \in [0..k -> S] : Solves(f, k)}
<1>1. 0 \in G
  <2> DEFINE f == [i \in 0..0 |-> first]
  <2>1. f \in [0..0 -> S] /\ Solves(f, 0)
    OBVIOUS
  <2> HIDE DEF f, Solves
  <2>2. \E h \in [0..0 -> S] : Solves(h, 0)
    BY <2>1
  <2> QED
    BY <2>2
<1>2. ASSUME NEW k \in 1..n, k - 1 \in G
      PROVE  k \in G
  <2>1. PICK f \in [0..(k - 1) -> S] : Solves(f, k - 1)
    BY <1>2
  <2> DEFINE g == [i \in 0..k |-> IF i = k THEN next[k][f[k - 1]] ELSE f[i]]
  <2>2. f[k - 1] \in S
    BY <1>2
  <2>3. next[k][f[k - 1]] \in S
    BY <1>2, <2>2
  <2>4. g \in [0..k -> S]
    BY <1>2, <2>3
  <2>5. g[0] = first
    BY <1>2, <2>1
  <2>6. ASSUME NEW i \in 1..k PROVE g[i] = next[i][g[i - 1]]
    <3>1. CASE i = k
      BY <1>2, <3>1
    <3>2. CASE i # k
      BY <1>2, <2>1, <3>2
    <3> QED
      BY <3>1, <3>2
  <2>7. Solves(g, k)
    BY <2>5, <2>6
  <2> HIDE DEF g, Solves
  <2>8. \E h \in [0..k -> S] : Solves(h, k)
    BY <2>4, <2>7
  <2> QED
    BY <1>2, <2>8
<1> HIDE DEF G, Solves
<1>3. 0..n \subseteq G
  BY <1>1, <1>2, Induction
<1>4. n \in G
  BY <1>3
<1> QED
  BY <1>4 DEF G, Solves, Solution

-----------------------------------------------------------------------------
(* Totals.                                                                 *)

\* The sums of the first numbers, one after the other.
Sums(v, t) ==
    /\ t \in [0..Len(v) -> Nat] /\ t[0] = 0
    /\ \A i \in 1..Len(v) : t[i] = t[i - 1] + v[i]

\* A total is the last of the sums.
LEMMA TotalDef ==
    ASSUME NEW v \in Seq(Nat)
    PROVE  \E t : Sums(v, t) /\ Total(v) = t[Len(v)]
<1> DEFINE n == Len(v)
    Def(t) == [i \in 0..n |-> IF i = 0 THEN 0 ELSE t[i - 1] + v[i]]
    u == CHOOSE t : t = Def(t)
<1>1. n \in Nat /\ 0 <= n /\ \A i \in 1..n : v[i] \in Nat
  OBVIOUS
<1> HIDE DEF n, u
<1>2. \E t : t = Def(t)
  <2> DEFINE next == [i \in 1..n |-> [x \in Nat |-> x + v[i]]]
  <2>1. next \in Steps(n, Nat)
    BY <1>1 DEF Steps
  <2> HIDE DEF next
  <2>2. PICK t : Solution(t, n, Nat, 0, next)
    BY <1>1, <2>1, Recursion
  <2>3. ASSUME NEW i \in 1..n
        PROVE  t[i] = t[i - 1] + v[i]
    <3>1. i \in 1..n /\ t[i - 1] \in Nat
      BY <1>1, <2>2 DEF Solution
    <3> QED
      BY <2>2, <3>1 DEF next, Solution
  <2>4. t = Def(t)
    BY <1>1, <2>2, <2>3 DEF Solution
  <2> QED
    BY <2>4
<1>3. u = Def(u)
  BY <1>2 DEF u
<1>4. u[0] = 0 /\ \A i \in 1..n : u[i] = u[i - 1] + v[i]
  BY <1>1, <1>3
<1>5. \A i \in 0..n : u[i] \in Nat
  <2> DEFINE G == {i \in 0..n : u[i] \in Nat}
  <2>1. 0 \in G
    BY <1>1, <1>4
  <2>3. ASSUME NEW i \in 1..n, i - 1 \in G PROVE i \in G
    <3>1. u[i] = u[i - 1] + v[i] /\ u[i - 1] \in Nat /\ v[i] \in Nat
      BY <1>1, <1>4, <2>3
    <3> QED
      BY <1>1, <3>1
  <2> HIDE DEF G
  <2>2. 0..n \subseteq G
    BY <1>1, <2>1, <2>3, Induction
  <2> QED
    BY <2>2 DEF G
<1>6. Sums(v, u)
  BY <1>3, <1>4, <1>5 DEF Sums, n
<1>7. Total(v) = u[n]
  BY DEF Total, u, n
<1> QED
  BY <1>6, <1>7 DEF n

\* The total of two sequences is that of both.
LEMMA TotalConcat ==
    ASSUME NEW v \in Seq(Nat), NEW w \in Seq(Nat)
    PROVE  /\ Total(v) \in Nat /\ Total(w) \in Nat
           /\ Total(v \o w) = Total(v) + Total(w)
<1>1. v \o w \in Seq(Nat)
  BY ConcatProperties
<1>2. PICK s : Sums(v, s) /\ Total(v) = s[Len(v)]
  BY TotalDef
<1>3. PICK t : Sums(w, t) /\ Total(w) = t[Len(w)]
  BY TotalDef
<1>4. PICK u : Sums(v \o w, u) /\ Total(v \o w) = u[Len(v \o w)]
  BY <1>1, TotalDef
<1> DEFINE m == Len(v)
           n == Len(w)
<1>5. /\ m \in Nat /\ n \in Nat /\ Len(v \o w) = m + n
      /\ \A i \in 1..m : (v \o w)[i] = v[i]
      /\ \A i \in 1..n : (v \o w)[m + i] = w[i]
  BY ConcatProperties
<1>6. /\ s \in [0..m -> Nat] /\ s[0] = 0 /\ \A i \in 1..m : s[i] = s[i - 1] + v[i]
      /\ t \in [0..n -> Nat] /\ t[0] = 0 /\ \A i \in 1..n : t[i] = t[i - 1] + w[i]
      /\ u[0] = 0
      /\ \A i \in 1..(m + n) : u[i] = u[i - 1] + (v \o w)[i]
  BY <1>2, <1>3, <1>4, <1>5 DEF Sums
<1> HIDE DEF m, n
<1>7. \A i \in 0..m : u[i] = s[i]
  <2> DEFINE G == {i \in 0..m : u[i] = s[i]}
  <2>1. 0 \in G
    BY <1>5, <1>6
  <2>2. ASSUME NEW i \in 1..m, i - 1 \in G PROVE i \in G
    <3>1. i \in 1..(m + n) /\ i \in 0..m
      BY <1>5
    <3>2. u[i] = u[i - 1] + v[i] /\ s[i] = s[i - 1] + v[i]
      BY <1>5, <1>6, <3>1
    <3>3. u[i - 1] = s[i - 1]
      BY <2>2
    <3> QED
      BY <3>1, <3>2, <3>3
  <2> HIDE DEF G
  <2>3. 0..m \subseteq G
    BY <1>5, <2>1, <2>2, Induction
  <2> QED
    BY <2>3 DEF G
<1>8. \A i \in 0..n : u[m + i] = s[m] + t[i]
  <2> DEFINE G == {i \in 0..n : u[m + i] = s[m] + t[i]}
  <2>1. 0 \in G
    BY <1>5, <1>6, <1>7
  <2>2. ASSUME NEW i \in 1..n, i - 1 \in G PROVE i \in G
    <3>0. m + i \in 1..(m + n) /\ (m + i) - 1 = m + (i - 1)
      BY <1>5
    <3>1. s[m] \in Nat /\ t[i - 1] \in Nat /\ w[i] \in Nat
      <4>1. m \in 0..m /\ i - 1 \in 0..n
        BY <1>5
      <4>2. w[i] \in Nat
        BY DEF n
      <4> QED
        BY <1>6, <4>1, <4>2
    <3>2. u[m + i] = u[m + (i - 1)] + w[i] /\ t[i] = t[i - 1] + w[i]
      BY <1>5, <1>6, <3>0
    <3>3. u[m + (i - 1)] = s[m] + t[i - 1]
      BY <2>2
    <3>4. u[m + i] = s[m] + t[i]
      BY <3>1, <3>2, <3>3
    <3> QED
      BY <1>5, <3>0, <3>4
  <2> HIDE DEF G
  <2>3. 0..n \subseteq G
    BY <1>5, <2>1, <2>2, Induction
  <2> QED
    BY <2>3 DEF G
<1>9. u[m + n] = s[m] + t[n] /\ s[m] \in Nat /\ t[n] \in Nat
  BY <1>5, <1>6, <1>8
<1> QED
  BY <1>2, <1>3, <1>4, <1>5, <1>9 DEF m, n

\* One number more adds itself.
LEMMA TotalAppend ==
    ASSUME NEW v \in Seq(Nat), NEW x \in Nat
    PROVE  Total(Append(v, x)) = Total(v) + x /\ Total(v) \in Nat
<1>0. PICK w : w = <<x>>
  OBVIOUS
<1>1. w \in Seq(Nat) /\ w = <<x>> /\ Len(w) = 1 /\ w[1] = x
  BY <1>0
<1>2. PICK t : Sums(w, t) /\ Total(w) = t[Len(w)]
  BY <1>1, TotalDef
<1>3. t[0] = 0 /\ t[1] = t[0] + w[1]
  BY <1>1, <1>2 DEF Sums
<1>4. Total(w) = x
  BY <1>1, <1>2, <1>3
<1>5. Append(v, x) = v \o w
  BY <1>1, AppendIsConcat
<1> QED
  BY <1>1, <1>4, <1>5, TotalConcat

\* The total of n times the same number.
LEMMA TotalOfSame ==
    ASSUME NEW v \in Seq(Nat), NEW c \in {0, 1}, \A i \in 1..Len(v) : v[i] = c
    PROVE  Total(v) = IF c = 0 THEN 0 ELSE Len(v)
<1> DEFINE n == Len(v)
<1>1. PICK s : Sums(v, s) /\ Total(v) = s[n]
  BY TotalDef
<1>2. n \in Nat /\ s[0] = 0 /\ \A i \in 1..n : s[i] = s[i - 1] + c
  BY <1>1, SMTT(60) DEF Sums
<1> HIDE DEF n
<1> DEFINE G == {i \in 0..n : s[i] = IF c = 0 THEN 0 ELSE i}
<1>3. 0 \in G
  BY <1>2
<1>4. ASSUME NEW i \in 1..n, i - 1 \in G PROVE i \in G
  BY <1>2, <1>4
<1> HIDE DEF G
<1>5. 0..n \subseteq G
  BY <1>2, <1>3, <1>4, Induction
<1> QED
  BY <1>1, <1>2, <1>5 DEF G, n

-----------------------------------------------------------------------------
(* Selections.                                                             *)

\* What is selected of the first elements, one after the other.
Selects(s, S, T, o) ==
    /\ o \in [0..Len(s) -> Seq(S \cap T)] /\ o[0] = <<>>
    /\ \A i \in 1..Len(s) :
         o[i] = IF s[i] \in S THEN Append(o[i - 1], s[i]) ELSE o[i - 1]

\* A selection is the last of them.
LEMMA SelectedDef ==
    ASSUME NEW S, NEW T, NEW s \in Seq(T)
    PROVE  \E o : Selects(s, S, T, o) /\ Selected(s, S) = o[Len(s)]
<1> DEFINE R == S \cap T
           n == Len(s)
           Def(o) == [i \in 0..n |-> IF i = 0 THEN <<>>
                                     ELSE IF s[i] \in S THEN Append(o[i - 1], s[i])
                                     ELSE o[i - 1]]
           u == CHOOSE o : o = Def(o)
<1>1. /\ n \in Nat /\ 0 <= n /\ <<>> \in Seq(R)
      /\ \A i \in 1..n : s[i] \in T /\ (s[i] \in S => s[i] \in R)
  OBVIOUS
<1> HIDE DEF n, u, R
<1>2. \E o : o = Def(o)
  <2> DEFINE next == [i \in 1..n |-> [x \in Seq(R) |->
                        IF s[i] \in S THEN Append(x, s[i]) ELSE x]]
  <2>1. next \in Steps(n, Seq(R))
    <3>1. ASSUME NEW i \in 1..n, NEW x \in Seq(R)
          PROVE  (IF s[i] \in S THEN Append(x, s[i]) ELSE x) \in Seq(R)
      BY <1>1, AppendProperties
    <3> QED
      BY <3>1 DEF Steps
  <2> HIDE DEF next
  <2>2. PICK o : Solution(o, n, Seq(R), <<>>, next)
    BY <1>1, <2>1, Recursion
  <2>3. ASSUME NEW i \in 1..n
        PROVE  o[i] = IF s[i] \in S THEN Append(o[i - 1], s[i]) ELSE o[i - 1]
    <3>1. i \in 1..n /\ o[i - 1] \in Seq(R)
      BY <1>1, <2>2 DEF Solution
    <3> QED
      BY <2>2, <3>1 DEF next, Solution
  <2> DEFINE d == Def(o)
  <2>4. d = [i \in 0..n |-> d[i]]
    OBVIOUS
  <2>5. o = [i \in 0..n |-> o[i]] /\ o[0] = <<>>
    BY <2>2 DEF Solution
  <2>6. \A i \in 0..n : d[i] = o[i]
    <3>1. \A i \in 0..n : d[i] = IF i = 0 THEN <<>>
                                  ELSE IF s[i] \in S THEN Append(o[i - 1], s[i])
                                  ELSE o[i - 1]
      OBVIOUS
    <3> HIDE DEF d
    <3>2. \A i \in 0..n : i = 0 \/ i \in 1..n
      BY <1>1
    <3> QED
      BY <2>3, <2>5, <3>1, <3>2
  <2> HIDE DEF d
  <2>7. d = o
    BY <2>4, <2>5, <2>6
  <2> QED
    BY <2>7 DEF d
<1>3. u = Def(u)
  BY <1>2 DEF u
<1>4. /\ u[0] = <<>>
      /\ \A i \in 1..n :
           u[i] = IF s[i] \in S THEN Append(u[i - 1], s[i]) ELSE u[i - 1]
  <2>1. ASSUME NEW i \in 0..n
        PROVE  u[i] = IF i = 0 THEN <<>>
                      ELSE IF s[i] \in S THEN Append(u[i - 1], s[i])
                      ELSE u[i - 1]
    <3>1. Def(u)[i] = IF i = 0 THEN <<>>
                      ELSE IF s[i] \in S THEN Append(u[i - 1], s[i])
                      ELSE u[i - 1]
      OBVIOUS
    <3> HIDE DEF Def
    <3> QED
      BY <1>3, <3>1
  <2>2. 0 \in 0..n /\ \A i \in 1..n : i \in 0..n /\ i # 0
    BY <1>1
  <2> QED
    BY <2>1, <2>2
<1>5. \A i \in 0..n : u[i] \in Seq(R)
  <2> DEFINE G == {i \in 0..n : u[i] \in Seq(R)}
  <2>1. 0 \in G
    <3>1. u[0] \in Seq(R)
      BY <1>1, <1>4
    <3> QED
      BY <1>1, <3>1
  <2>2. ASSUME NEW i \in 1..n, i - 1 \in G PROVE i \in G
    <3>1. u[i - 1] \in Seq(R)
      BY <2>2
    <3>2. u[i] \in Seq(R)
      <4>1. CASE s[i] \in S
        <5>1. s[i] \in R /\ u[i] = Append(u[i - 1], s[i])
          BY <1>1, <1>4, <4>1
        <5> QED
          BY <3>1, <5>1, AppendProperties
      <4>2. CASE s[i] \notin S
        BY <1>4, <3>1, <4>2
      <4> QED
        BY <4>1, <4>2
    <3> QED
      BY <1>1, <3>2
  <2> HIDE DEF G
  <2>3. 0..n \subseteq G
    BY <1>1, <2>1, <2>2, Induction
  <2> QED
    BY <2>3 DEF G
<1>6. Selects(s, S, T, u)
  BY <1>3, <1>4, <1>5 DEF Selects, n, R
<1>7. Selected(s, S) = u[n]
  BY DEF Selected, u, n
<1> QED
  BY <1>6, <1>7 DEF n

\* An element behind two sequences is behind the second.  The operators have
\* names so that the lemma can be cited without the provers rewriting them.
Join(v, w) == v \o w
Added(v, x) == Append(v, x)

\* Appending to a joined sequence appends to its second part.
LEMMA AddedJoin ==
    ASSUME NEW S, NEW v \in Seq(S), NEW w \in Seq(S), NEW x \in S
    PROVE  Added(Join(v, w), x) = Join(v, Added(w, x))
  BY DEF Added, Join

\* What is selected of two parts is what is selected of each.
LEMMA SelectedConcat ==
    ASSUME NEW S, NEW T, NEW v \in Seq(T), NEW w \in Seq(T)
    PROVE  /\ Selected(v, S) \in Seq(S \cap T) /\ Selected(w, S) \in Seq(S \cap T)
           /\ Selected(v \o w, S) = Selected(v, S) \o Selected(w, S)
<1>0. PICK R : R = S \cap T
  OBVIOUS
<1> DEFINE m == Len(v)
           n == Len(w)
<1>1. v \o w \in Seq(T)
  BY ConcatProperties
<1>2. PICK s : Selects(v, S, T, s) /\ Selected(v, S) = s[m]
  BY SelectedDef
<1>3. PICK t : Selects(w, S, T, t) /\ Selected(w, S) = t[n]
  BY SelectedDef
<1>4. PICK u : Selects(v \o w, S, T, u) /\ Selected(v \o w, S) = u[Len(v \o w)]
  BY <1>1, SelectedDef
<1>5. /\ m \in Nat /\ n \in Nat /\ Len(v \o w) = m + n
      /\ \A i \in 1..m : (v \o w)[i] = v[i]
      /\ \A i \in 1..n : (v \o w)[m + i] = w[i] /\ w[i] \in T
  BY ConcatProperties
<1> HIDE DEF m, n
<1>6. /\ s \in [0..m -> Seq(R)] /\ s[0] = <<>>
      /\ \A i \in 1..m :
           s[i] = IF v[i] \in S THEN Append(s[i - 1], v[i]) ELSE s[i - 1]
  BY <1>0, <1>2, <1>5 DEF Selects, m
<1>7. /\ t \in [0..n -> Seq(R)] /\ t[0] = <<>>
      /\ \A i \in 1..n :
           t[i] = IF w[i] \in S THEN Append(t[i - 1], w[i]) ELSE t[i - 1]
  BY <1>0, <1>3, <1>5 DEF Selects, n
<1>8. /\ u[0] = <<>>
      /\ \A i \in 1..(m + n) :
           u[i] = IF (v \o w)[i] \in S THEN Append(u[i - 1], (v \o w)[i])
                  ELSE u[i - 1]
  BY <1>4, <1>5 DEF Selects
<1>9. \A i \in 0..m : u[i] = s[i]
  <2> DEFINE G == {i \in 0..m : u[i] = s[i]}
  <2>1. 0 \in G
    BY <1>5, <1>6, <1>8
  <2>2. ASSUME NEW i \in 1..m, i - 1 \in G PROVE i \in G
    <3>1. i \in 1..(m + n) /\ i \in 0..m
      BY <1>5
    <3>2. u[i] = IF v[i] \in S THEN Append(u[i - 1], v[i]) ELSE u[i - 1]
      BY <1>5, <1>8, <3>1
    <3>3. u[i - 1] = s[i - 1]
      BY <2>2
    <3> QED
      BY <1>6, <3>1, <3>2, <3>3
  <2> HIDE DEF G
  <2>3. 0..m \subseteq G
    BY <1>5, <2>1, <2>2, Induction
  <2> QED
    BY <2>3 DEF G
<1>10. s[m] \in Seq(R) /\ u[m] = s[m]
  BY <1>5, <1>6, <1>9
<1>11. \A i \in 0..n : u[m + i] = s[m] \o t[i]
  <2> DEFINE G == {i \in 0..n : u[m + i] = s[m] \o t[i]}
  <2>1. 0 \in G
    <3>1. m + 0 = m /\ 0 \in 0..n
      BY <1>5
    <3>2. s[m] \o t[0] = s[m]
      BY <1>7, <1>10, ConcatEmptySeq
    <3>3. u[m + 0] = s[m] \o t[0]
      BY <1>10, <3>1, <3>2
    <3> QED
      BY <3>1, <3>3
  <2>2. ASSUME NEW i \in 1..n, i - 1 \in G PROVE i \in G
    <3>1. /\ m + i \in 1..(m + n)
          /\ (m + i) - 1 = m + (i - 1)
          /\ i \in 0..n
          /\ i - 1 \in 0..n
      BY <1>5
    <3>2. u[m + i] = IF w[i] \in S THEN Append(u[m + (i - 1)], w[i])
                     ELSE u[m + (i - 1)]
      BY <1>5, <1>8, <3>1
    <3>3. u[m + (i - 1)] = s[m] \o t[i - 1] /\ t[i - 1] \in Seq(R)
      BY <1>7, <2>2, <3>1
    <3>4. CASE w[i] \notin S
      BY <1>7, <3>1, <3>2, <3>3, <3>4
    <3>5. CASE w[i] \in S
      <4>1. w[i] \in R
        BY <1>0, <1>5, <3>5
      <4>2. t[i] = Append(t[i - 1], w[i])
        BY <1>7, <3>5
      <4>3. Append(s[m] \o t[i - 1], w[i]) = s[m] \o Append(t[i - 1], w[i])
        <5>1. Added(Join(s[m], t[i - 1]), w[i]) = Join(s[m], Added(t[i - 1], w[i]))
          BY <1>10, <3>3, <4>1, AddedJoin
        <5> QED
          BY <5>1 DEF Added, Join
      <4> QED
        BY <3>1, <3>2, <3>3, <3>5, <4>2, <4>3
    <3> QED
      BY <3>4, <3>5
  <2> HIDE DEF G
  <2>3. 0..n \subseteq G
    BY <1>5, <2>1, <2>2, Induction
  <2> QED
    BY <2>3 DEF G
<1>12. u[m + n] = s[m] \o t[n] /\ t[n] \in Seq(R)
  <2>1. n \in 0..n
    BY <1>5
  <2> QED
    BY <1>7, <1>11, <2>1
<1> QED
  BY <1>0, <1>2, <1>3, <1>4, <1>5, <1>10, <1>12

\* All elements are selected, or none.
LEMMA SelectedAll ==
    ASSUME NEW S, NEW T, NEW s \in Seq(T)
    PROVE  /\ (\A i \in 1..Len(s) : s[i] \in S) => Selected(s, S) = s
           /\ (\A i \in 1..Len(s) : s[i] \notin S) => Selected(s, S) = <<>>
<1> DEFINE n == Len(s)
<1>1. PICK o : Selects(s, S, T, o) /\ Selected(s, S) = o[n]
  BY SelectedDef
<1>2. n \in Nat /\ o[0] = <<>>
  BY <1>1 DEF Selects
<1>7. ASSUME NEW i \in 1..n
      PROVE  o[i] = IF s[i] \in S THEN Append(o[i - 1], s[i]) ELSE o[i - 1]
  BY <1>1 DEF Selects
<1>3. \A i \in 1..n : SubSeq(s, 1, i) = Append(SubSeq(s, 1, i - 1), s[i])
  OBVIOUS
<1>4. SubSeq(s, 1, 0) = <<>> /\ SubSeq(s, 1, n) = s
  OBVIOUS
<1> HIDE DEF n
<1>5. ASSUME \A i \in 1..n : s[i] \in S PROVE o[n] = s
  <2> DEFINE G == {i \in 0..n : o[i] = SubSeq(s, 1, i)}
  <2>1. 0 \in G
    <3>1. o[0] = SubSeq(s, 1, 0)
      BY <1>2, <1>4
    <3> QED
      BY <1>2, <3>1
  <2>2. ASSUME NEW i \in 1..n, i - 1 \in G PROVE i \in G
    <3>1. o[i - 1] = SubSeq(s, 1, i - 1)
      BY <2>2
    <3>2. o[i] = SubSeq(s, 1, i)
      BY <1>3, <1>5, <1>7, <3>1
    <3> QED
      BY <1>2, <3>2
  <2> HIDE DEF G
  <2>3. 0..n \subseteq G
    BY <1>2, <2>1, <2>2, Induction
  <2>4. n \in 0..n
    BY <1>2
  <2>5. o[n] = SubSeq(s, 1, n)
    BY <2>3, <2>4 DEF G
  <2> QED
    BY <1>4, <2>5
<1>6. ASSUME \A i \in 1..n : s[i] \notin S PROVE o[n] = <<>>
  <2> DEFINE G == {i \in 0..n : o[i] = <<>>}
  <2>1. 0 \in G
    BY <1>2
  <2>2. ASSUME NEW i \in 1..n, i - 1 \in G PROVE i \in G
    <3>1. o[i] = o[i - 1] /\ o[i - 1] = <<>>
      BY <1>6, <1>7, <2>2
    <3> QED
      BY <1>2, <3>1
  <2> HIDE DEF G
  <2>3. 0..n \subseteq G
    BY <1>2, <2>1, <2>2, Induction
  <2>4. n \in 0..n
    BY <1>2
  <2> QED
    BY <2>3, <2>4 DEF G
<1> QED
  BY <1>1, <1>5, <1>6 DEF n

\* An element more is selected or not.
LEMMA SelectedAdded ==
    ASSUME NEW S, NEW T, NEW s \in Seq(T), NEW x \in T
    PROVE  Selected(Added(s, x), S) =
             IF x \in S THEN Added(Selected(s, S), x) ELSE Selected(s, S)
<1>1. PICK w : w = <<x>>
  OBVIOUS
<1>2. w \in Seq(T) /\ Len(w) = 1 /\ w[1] = x
  BY <1>1
<1>3. Append(s, x) = s \o w
  BY <1>1, AppendIsConcat
<1>4. /\ Selected(s, S) \in Seq(S \cap T)
      /\ Selected(s \o w, S) = Selected(s, S) \o Selected(w, S)
  BY <1>2, SelectedConcat
<1>5. Selected(w, S) = IF x \in S THEN w ELSE <<>>
  <2>1. \A i \in 1..Len(w) : w[i] = x
    BY <1>2
  <2> QED
    BY <1>2, <2>1, SelectedAll
<1>6. CASE x \in S
  <2>1. Append(Selected(s, S), x) = Selected(s, S) \o w
    <3>1. PICK R : R = S \cap T
      OBVIOUS
    <3>2. x \in R /\ Selected(s, S) \in Seq(R)
      BY <1>4, <1>6, <3>1
    <3> QED
      BY <1>1, <3>2, AppendIsConcat
  <2> QED
    BY <1>3, <1>4, <1>5, <1>6, <2>1 DEF Added
<1>7. CASE x \notin S
  BY <1>3, <1>4, <1>5, <1>7, ConcatEmptySeq DEF Added
<1> QED
  BY <1>6, <1>7 DEF Added

\* What is selected is in the set.
LEMMA SelectedType ==
    ASSUME NEW S, NEW T, NEW s \in Seq(T)
    PROVE  Selected(s, S) \in Seq(S \cap T)
  BY SelectedConcat

\* Of no elements none is selected.
LEMMA SelectedEmpty == ASSUME NEW S PROVE Selected(<<>>, S) = <<>>
<1>1. PICK s : s = <<>>
  OBVIOUS
<1>2. s \in Seq({}) /\ Len(s) = 0
  BY <1>1
<1>3. \A i \in 1..Len(s) : s[i] \notin S
  BY <1>2
<1>4. Selected(s, S) = <<>>
  BY <1>2, <1>3, SelectedAll
<1> QED
  BY <1>1, <1>4
=============================================================================
