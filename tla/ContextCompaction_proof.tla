----------------------- MODULE ContextCompaction_proof -----------------------
(***************************************************************************)
(* Every history that tasks, compactions and restores produce satisfies    *)
(* IInv, for any budget, number of prompts and sizes, and with it the five *)
(* properties of ContextCompaction.                                        *)
(*                                                                         *)
(* The totals, the kept messages and the cut are recursive functions of a  *)
(* history.  What they compute is proved by induction over its length; the *)
(* lemmas of Aggregates_proof do it for the first two.  The rest divides a *)
(* history into what is never summarized and the turns behind it (Parted), *)
(* says which parts a step adds, drops or replaces, and follows the        *)
(* histories of the agent and of the session side by side.                 *)
(***************************************************************************)
EXTENDS ContextCompaction, Aggregates_proof, FiniteSetTheorems, SequenceTheorems,
        WellFoundedInduction, TLAPS

-----------------------------------------------------------------------------
(* Messages.                                                               *)

\* A sum of sizes is a number.
LEMMA SumType ==
    ASSUME NEW ms \in Seq(MessageSet)
    PROVE  Sum(ms) \in Nat
<1> DEFINE v == [i \in 1..Len(ms) |-> ms[i].size]
<1>1. \A m \in MessageSet : m.size \in Nat
  BY DEF MessageSet
<1>2. v \in Seq(Nat)
  BY <1>1
<1> QED
  BY <1>2, TotalConcat DEF Sum

Weights(ms) ==
    [i \in 1..Len(ms) |-> IF ms[i].role \in CompactableRoles THEN 1 ELSE 0]

\* How many messages may be summarized: none, all, or those of two parts.
LEMMA CompactableParts ==
    ASSUME NEW S, NEW ms \in Seq(S), NEW ns \in Seq(S)
    PROVE  /\ Compactable(ms) \in Nat
           /\ Compactable(ms \o ns) = Compactable(ms) + Compactable(ns)
           /\ (\A i \in 1..Len(ms) : ms[i].role \notin CompactableRoles)
                 => Compactable(ms) = 0
           /\ (\A i \in 1..Len(ms) : ms[i].role \in CompactableRoles)
                 => Compactable(ms) = Len(ms)
<1>1. Weights(ms) \in Seq(Nat) /\ Weights(ns) \in Seq(Nat)
  BY DEF Weights
<1>2. Len(Weights(ms)) = Len(ms)
  BY DEF Weights
<1>3. Weights(ms \o ns) = Weights(ms) \o Weights(ns)
  BY DEF Weights
<1>4. \A x : Compactable(x) = Total(Weights(x))
  BY DEF Compactable, Weights
<1>5. ASSUME \A i \in 1..Len(ms) : ms[i].role \notin CompactableRoles
      PROVE  Total(Weights(ms)) = 0
  <2>1. \A i \in 1..Len(Weights(ms)) : Weights(ms)[i] = 0
    BY <1>2, <1>5 DEF Weights
  <2> QED
    BY <1>1, <2>1, TotalOfSame
<1>6. ASSUME \A i \in 1..Len(ms) : ms[i].role \in CompactableRoles
      PROVE  Total(Weights(ms)) = Len(ms)
  <2>1. \A i \in 1..Len(Weights(ms)) : Weights(ms)[i] = 1
    BY <1>2, <1>6 DEF Weights
  <2>2. Total(Weights(ms)) = IF 1 = 0 THEN 0 ELSE Len(Weights(ms))
    BY <1>1, <2>1, TotalOfSame
  <2> QED
    BY <1>2, <2>2
<1> QED
  BY <1>1, <1>3, <1>4, <1>5, <1>6, TotalConcat

-----------------------------------------------------------------------------
(* Leaving summaries out.                                                  *)

\* What is left of the first messages, one after the other.
Lefts(ms, S, o) ==
    /\ o \in [0..Len(ms) -> Seq(S)] /\ o[0] = <<>>
    /\ \A i \in 1..Len(ms) :
         o[i] = IF IsSummary(ms[i]) THEN o[i - 1] ELSE Append(o[i - 1], ms[i])

\* What is left are messages of the sequence that are no summaries.
LEMMA LeftDef ==
    ASSUME NEW S \in SUBSET MessageSet, NEW ms \in Seq(S)
    PROVE  \E o : /\ Lefts(ms, {m \in S : ~IsSummary(m)}, o)
                  /\ WithoutSummaries(ms) = o[Len(ms)]
<1>1. PICK N : N = {m \in MessageSet : ~IsSummary(m)}
  OBVIOUS
<1>2. PICK o : Selects(ms, N, S, o) /\ Selected(ms, N) = o[Len(ms)]
  BY SelectedDef
<1>3. N \cap S = {m \in S : ~IsSummary(m)}
  BY <1>1
<1>4. \A i \in 1..Len(ms) : ms[i] \in N <=> ~IsSummary(ms[i])
  BY <1>1
<1>5. ASSUME NEW i \in 1..Len(ms)
      PROVE  o[i] = IF IsSummary(ms[i]) THEN o[i - 1] ELSE Append(o[i - 1], ms[i])
  BY <1>2, <1>4 DEF Selects
<1>6. Lefts(ms, {m \in S : ~IsSummary(m)}, o)
  BY <1>2, <1>3, <1>5 DEF Lefts, Selects
<1>7. WithoutSummaries(ms) = Selected(ms, N)
  BY <1>1 DEF WithoutSummaries
<1> QED
  BY <1>2, <1>6, <1>7

\* What is left of two parts is what is left of each.
LEMMA LeftConcat ==
    ASSUME NEW S \in SUBSET MessageSet, NEW v \in Seq(S), NEW w \in Seq(S)
    PROVE  /\ WithoutSummaries(v) \in Seq({m \in S : ~IsSummary(m)})
           /\ WithoutSummaries(v \o w) = WithoutSummaries(v) \o WithoutSummaries(w)
<1>1. PICK N : N = {m \in MessageSet : ~IsSummary(m)}
  OBVIOUS
<1>2. N \cap S = {m \in S : ~IsSummary(m)}
  BY <1>1
<1>3. /\ Selected(v, N) \in Seq(N \cap S)
      /\ Selected(v \o w, N) = Selected(v, N) \o Selected(w, N)
  BY SelectedConcat
<1>4. \A x : WithoutSummaries(x) = Selected(x, N)
  BY <1>1 DEF WithoutSummaries
<1> QED
  BY <1>2, <1>3, <1>4

\* Nothing is left out of messages that are no summaries.
LEMMA NothingLeftOut ==
    ASSUME NEW S \in SUBSET MessageSet, NEW ms \in Seq(S),
           \A i \in 1..Len(ms) : ~IsSummary(ms[i])
    PROVE  WithoutSummaries(ms) = ms
<1>1. PICK N : N = {m \in MessageSet : ~IsSummary(m)}
  OBVIOUS
<1>2. \A i \in 1..Len(ms) : ms[i] \in N
  BY <1>1
<1>3. Selected(ms, N) = ms
  BY <1>2, SelectedAll
<1> QED
  BY <1>1, <1>3 DEF WithoutSummaries

-----------------------------------------------------------------------------
(* Extremes, leading system messages and the start of the history.         *)

\* A set of numbers up to n with a member has a greatest and a least one.
LEMMA Extremes ==
    ASSUME NEW n \in Nat, NEW S \in SUBSET (0..n), S # {}
    PROVE  /\ Max(S) \in S /\ \A k \in S : k <= Max(S)
           /\ Min(S) \in S /\ \A k \in S : Min(S) <= k
<1>1. \E m \in S : \A k \in S : m >= k
  <2> DEFINE B == {n - k : k \in S}
  <2>0. \A k \in S : k \in 0..n
    OBVIOUS
  <2>1. B \in SUBSET Nat /\ B # {}
    <3>1. \A k \in 0..n : n - k \in Nat
      OBVIOUS
    <3> QED
      BY <2>0, <3>1
  <2>2. PICK b \in B : \A k \in B : b <= k
    BY <2>1, Least
  <2>3. PICK m \in S : b = n - m
    BY <2>2
  <2>4. ASSUME NEW k \in S PROVE m >= k
    <3>1. b <= n - k
      BY <2>2
    <3>2. k \in 0..n /\ m \in 0..n
      BY <2>0
    <3> QED
      BY <2>3, <3>1, <3>2
  <2> QED
    BY <2>4
<1>2. \E m \in S : \A k \in S : m <= k
  <2>1. S \in SUBSET Nat
    OBVIOUS
  <2> QED
    BY <2>1, Least
<1>3. \A m, k \in S : m >= k => k <= m
  OBVIOUS
<1> QED
  BY <1>1, <1>2, <1>3 DEF Max, Min

\* n messages lead, all of role system, and the next one is of another role.
Leads(ms, n) ==
    /\ n \in 0..Len(ms) /\ \A i \in 1..n : ms[i].role = "system"
    /\ n < Len(ms) => ms[n + 1].role # "system"

\* There is one number of leading system messages.
LEMMA Leading ==
    ASSUME NEW S, NEW ms \in Seq(S)
    PROVE  /\ Leads(ms, LeadingSystem(ms))
           /\ \A n : Leads(ms, n) => LeadingSystem(ms) = n
<1> DEFINE B == {k \in 0..Len(ms) : k < Len(ms) => ms[k + 1].role # "system"}
<1>1. Len(ms) \in B /\ B \in SUBSET Nat
  OBVIOUS
<1>2. PICK n \in B : \A k \in B : n <= k
  BY <1>1, Least
<1>3. Leads(ms, n)
  <2>1. ASSUME NEW i \in 1..n PROVE ms[i].role = "system"
    <3>1. i - 1 \notin B /\ i - 1 \in 0..Len(ms) /\ i - 1 < Len(ms) /\ (i - 1) + 1 = i
      BY <1>2
    <3> QED
      BY <3>1
  <2> QED
    BY <1>2, <2>1 DEF Leads
<1>4. ASSUME NEW a, NEW b, Leads(ms, a), Leads(ms, b) PROVE a = b
  <2>1. a \in Nat /\ b \in Nat /\ Len(ms) \in Nat /\ a <= Len(ms) /\ b <= Len(ms)
    BY <1>4 DEF Leads
  <2>2. ~(a < b)
    BY <1>4, <2>1 DEF Leads
  <2>3. ~(b < a)
    BY <1>4, <2>1 DEF Leads
  <2> QED
    BY <2>1, <2>2, <2>3
<1>5. LeadingSystem(ms) = CHOOSE k : Leads(ms, k)
  <2>1. LeadingSystem(ms) = CHOOSE k \in 0..Len(ms) : Leads(ms, k)
    BY DEF LeadingSystem, Leads
  <2>2. \A k : Leads(ms, k) => k \in 0..Len(ms)
    BY DEF Leads
  <2> QED
    BY <1>3, <1>4, <2>1, <2>2
<1> QED
  BY <1>3, <1>4, <1>5

\* What a history may hold behind the messages that are not summarized.
Starts(ms, h) ==
    /\ h \in 1..Len(ms) + 1
    /\ \A i \in h..Len(ms) : ms[i].role \in CompactableRoles
    /\ h > 1 => ms[h - 1].role \notin CompactableRoles

\* The start of the history is behind the last message of another role.
LEMMA StartDef ==
    ASSUME NEW S, NEW ms \in Seq(S)
    PROVE  /\ Starts(ms, HistoryStart(ms))
           /\ \A h : Starts(ms, h) => HistoryStart(ms) = h
<1> DEFINE others == {i \in 1..Len(ms) : ms[i].role \notin CompactableRoles}
<1>1. Len(ms) \in Nat /\ others \in SUBSET (0..Len(ms))
  OBVIOUS
<1>2. HistoryStart(ms) = IF others = {} THEN 1 ELSE Max(others) + 1
  BY DEF HistoryStart
<1>3. CASE others = {}
  <2>1. HistoryStart(ms) = 1 /\ Starts(ms, 1)
    BY <1>1, <1>2, <1>3 DEF Starts
  <2>2. ASSUME NEW h, Starts(ms, h) PROVE h = 1
    BY <1>1, <1>3, <2>2 DEF Starts
  <2> QED
    BY <2>1, <2>2
<1>4. CASE others # {}
  <2>1. Max(others) \in others /\ \A k \in others : k <= Max(others)
    BY <1>1, <1>4, Extremes
  <2>2. PICK m : m = Max(others)
    OBVIOUS
  <2>3. HistoryStart(ms) = m + 1 /\ m \in others /\ \A k \in others : k <= m
    BY <1>2, <1>4, <2>1, <2>2
  <2>4. Starts(ms, m + 1)
    BY <1>1, <2>3 DEF Starts
  <2>5. ASSUME NEW h, Starts(ms, h) PROVE h = m + 1
    <3>1. ~(m >= h)
      BY <1>1, <2>3, <2>5 DEF Starts
    <3>2. ~(h > m + 1)
      BY <1>1, <2>3, <2>5 DEF Starts
    <3> QED
      BY <1>1, <2>3, <2>5, <3>1, <3>2 DEF Starts
  <2> QED
    BY <2>3, <2>4, <2>5
<1> QED
  BY <1>3, <1>4

-----------------------------------------------------------------------------
(* The cut.                                                                *)

\* A turn from i on that keeps enough begins with a user message behind h.
Enough(ms, h, i) == i > h /\ ms[i].role = "user" /\ KeepsEnough(ms, i)

\* c is the last of these turns, or the start of the history.
Cuts(ms, h, c) ==
    /\ c = h \/ (c \in 1..Len(ms) /\ Enough(ms, h, c))
    /\ \A j \in 1..Len(ms) : Enough(ms, h, j) => j <= c

\* What the recursion of FirstKept computes is the last turn that keeps enough.
LEMMA CutDef ==
    ASSUME NEW S, NEW ms \in Seq(S)
    PROVE  Cuts(ms, HistoryStart(ms), FirstKept(ms))
<1>0. PICK h : h = HistoryStart(ms)
  OBVIOUS
<1>1. h \in 1..Len(ms) + 1 /\ Len(ms) \in Nat
  BY <1>0, StartDef DEF Starts
<1>2. CASE h > Len(ms)
  <2>1. FirstKept(ms) = h
    BY <1>0, <1>2 DEF FirstKept
  <2>2. \A j \in 1..Len(ms) : ~(j > h)
    BY <1>1, <1>2
  <2> QED
    BY <1>0, <2>1, <2>2 DEF Cuts, Enough
<1>3. CASE ~(h > Len(ms))
  <2> DEFINE Good == {i \in h..Len(ms) : i = h \/ Enough(ms, h, i)}
      Def(f) == [i \in h..Len(ms) |->
                   IF i = h \/ (BeginsTurn(ms, i) /\ KeepsEnough(ms, i))
                   THEN i ELSE f[i - 1]]
      u == CHOOSE f : f = Def(f)
      n == Len(ms) - h
  <2>1. n \in Nat /\ Good \in SUBSET (h..Len(ms)) /\ h \in Good
    BY <1>1, <1>3
  <2>2. \A f : Def(f) = [i \in h..Len(ms) |-> IF i \in Good THEN i ELSE f[i - 1]]
    <3>1. \A i \in h..Len(ms) : (i = h \/ (BeginsTurn(ms, i) /\ KeepsEnough(ms, i)))
                                  <=> i \in Good
      BY <1>0, <1>1 DEF BeginsTurn, Enough
    <3> QED
      BY <3>1
  <2>3. FirstKept(ms) = u[Len(ms)]
    BY <1>0, <1>3 DEF FirstKept
  <2>4. \A i \in h..Len(ms) : i \in Nat
    BY <1>1
  <2> HIDE DEF Good, Def, u
  <2>5. \E f : f = Def(f)
    <3> DEFINE next == [k \in 1..n |-> [x \in Nat |->
                          IF h + k \in Good THEN h + k ELSE x]]
    <3>1. next \in Steps(n, Nat)
      BY <1>1, <2>1 DEF Steps
    <3>2. h \in Nat
      BY <1>1
    <3> HIDE DEF n, next
    <3>6. PICK t : Solution(t, n, Nat, h, next)
      BY <2>1, <3>1, <3>2, Recursion
    <3> USE DEF n
    <3> DEFINE g == [i \in h..Len(ms) |-> t[i - h]]
    <3>3. ASSUME NEW i \in h..Len(ms)
          PROVE  g[i] = IF i \in Good THEN i ELSE g[i - 1]
      <4>1. CASE i = h
        <5>1. g[i] = t[0] /\ i \in Good
          BY <1>1, <2>1, <4>1
        <5> QED
          BY <3>6, <4>1, <5>1 DEF Solution
      <4>2. CASE i # h
        <5>1. i - h \in 1..n /\ h + (i - h) = i /\ (i - h) - 1 = (i - 1) - h
              /\ i - 1 \in h..Len(ms) /\ (i - h) - 1 \in 0..n
          BY <1>1, <1>3, <4>2
        <5>2. t[(i - h) - 1] \in Nat
          BY <3>6, <5>1 DEF Solution
        <5>3. t[i - h] = next[i - h][t[(i - h) - 1]]
          BY <3>6, <5>1 DEF Solution
        <5>4. next[i - h][t[(i - h) - 1]]
                = IF h + (i - h) \in Good THEN h + (i - h) ELSE t[(i - h) - 1]
          BY <5>1, <5>2 DEF next
        <5>5. g[i] = t[i - h] /\ g[i - 1] = t[(i - 1) - h]
          BY <5>1
        <5> HIDE DEF g
        <5> QED
          BY <5>1, <5>3, <5>4, <5>5
      <4> QED
        BY <4>1, <4>2
    <3>4. g = [i \in h..Len(ms) |-> g[i]]
      OBVIOUS
    <3> HIDE DEF g
    <3>5. g = Def(g)
      BY <2>2, <3>3, <3>4
    <3> QED
      BY <3>5
  <2>6. u = Def(u)
    BY <2>5 DEF u
  <2>7. \A i \in h..Len(ms) : u[i] = IF i \in Good THEN i ELSE u[i - 1]
    BY <2>2, <2>6
  <2> DEFINE Latest(k) == /\ u[h + k] \in Good /\ u[h + k] <= h + k
                         /\ \A j \in Good : j <= h + k => j <= u[h + k]
             G == {k \in 0..n : Latest(k)}
  <2> HIDE DEF n
  <2>8. \A k \in 0..n : h + k \in h..Len(ms)
    BY <1>1, <2>1 DEF n
  <2>9. 0 \in G
    <3>1. h + 0 = h /\ u[h] = h /\ h \in Nat
      BY <1>1, <1>3, <2>1, <2>7
    <3>2. \A j \in Good : j \in Nat
      BY <2>1, <2>4
    <3> QED
      BY <2>1, <3>1, <3>2
  <2>10. ASSUME NEW k \in 1..n, k - 1 \in G PROVE k \in G
    <3>1. h + (k - 1) = (h + k) - 1 /\ h + k \in h..Len(ms) /\ k \in 0..n
      BY <1>1, <2>8
    <3>2. u[h + k] = IF h + k \in Good THEN h + k ELSE u[h + (k - 1)]
      BY <2>7, <3>1
    <3>3. Latest(k - 1)
      BY <2>10
    <3>4. \A j \in Good : j \in Nat
      BY <2>1, <2>4
    <3>5. CASE h + k \in Good
      <4>1. u[h + k] = h + k
        BY <3>2, <3>5
      <4> QED
        BY <1>1, <3>1, <3>5, <4>1
    <3>6. CASE h + k \notin Good
      <4>1. u[h + k] = u[h + (k - 1)]
        BY <3>2, <3>6
      <4>2. \A j \in Good : j <= h + k => j <= h + (k - 1)
        BY <1>1, <3>1, <3>4, <3>6
      <4>3. u[h + (k - 1)] \in Nat /\ u[h + (k - 1)] <= h + k
        BY <1>1, <3>1, <3>3, <3>4
      <4> QED
        BY <3>1, <3>3, <4>1, <4>2, <4>3
    <3> QED
      BY <3>5, <3>6
  <2> HIDE DEF G
  <2>11. 0..n \subseteq G
    BY <2>1, <2>9, <2>10, Induction
  <2>12. n \in 0..n /\ h + n = Len(ms)
    BY <1>1, <2>1 DEF n
  <2>13. u[Len(ms)] \in Good /\ \A j \in Good : j <= u[Len(ms)]
    <3>1. Latest(n)
      BY <2>11, <2>12 DEF G
    <3>2. \A j \in Good : j <= Len(ms)
      BY <2>1
    <3> QED
      BY <2>12, <3>1, <3>2
  <2>14. \A j \in 1..Len(ms) : Enough(ms, h, j) => j \in Good
    BY <1>1 DEF Good, Enough
  <2>15. \A c \in Good : c = h \/ (c \in 1..Len(ms) /\ Enough(ms, h, c))
    BY <1>1 DEF Good
  <2> QED
    BY <1>0, <2>3, <2>13, <2>14, <2>15 DEF Cuts
<1> QED
  BY <1>2, <1>3

\* A history can be compacted when a turn behind its first keeps enough.
LEMMA CanCompactDef ==
    ASSUME NEW S, NEW ms \in Seq(S)
    PROVE  CanCompact(ms) <=> \E j \in 1..Len(ms) : Enough(ms, HistoryStart(ms), j)
<1>1. PICK h : h = HistoryStart(ms)
  OBVIOUS
<1>2. PICK c : c = FirstKept(ms)
  OBVIOUS
<1>3. Cuts(ms, h, c) /\ h \in Nat
  BY <1>1, <1>2, CutDef, StartDef DEF Starts
<1>4. CanCompact(ms) <=> c > h
  BY <1>1, <1>2 DEF CanCompact
<1>5. c = h => ~(c > h)
  BY <1>3
<1>6. \A j \in 1..Len(ms) : j <= c /\ j > h => c > h
  BY <1>3 DEF Cuts
<1> QED
  BY <1>1, <1>3, <1>4, <1>5, <1>6 DEF Cuts, Enough

-----------------------------------------------------------------------------
(* Parts of sequences.                                                     *)

\* Names for parts of sequences, with which the lemmas can be cited without
\* the provers rewriting the terms.
Upto(ms, k) == SubSeq(ms, 1, k)
From(ms, k) == SubSeq(ms, k, Len(ms))

\* c has the elements and the parts of a and then those of b.
Joins(c, a, b) ==
    /\ Len(a) \in Nat /\ Len(b) \in Nat /\ Len(c) = Len(a) + Len(b)
    /\ \A i \in 1..Len(a) : c[i] = a[i]
    /\ \A i \in 1..Len(b) : c[Len(a) + i] = b[i]
    /\ Upto(c, Len(a)) = a
    /\ \A i \in 1..Len(b) + 1 : From(c, Len(a) + i) = From(b, i)

\* Two sequences joined are of the same kind and have these parts.
LEMMA Joined ==
    ASSUME NEW S, NEW a \in Seq(S), NEW b \in Seq(S)
    PROVE  Join(a, b) \in Seq(S) /\ Joins(Join(a, b), a, b)
  BY DEF Join, Joins, Upto, From

\* Joining is associative, and nothing is joined with the empty sequence.
LEMMA JoinedLaws ==
    ASSUME NEW S, NEW a \in Seq(S), NEW b \in Seq(S), NEW c \in Seq(S)
    PROVE  /\ Join(Join(a, b), c) = Join(a, Join(b, c))
           /\ Join(a, <<>>) = a /\ Join(<<>>, a) = a
           /\ From(a, 1) = a
<1>1. Join(Join(a, b), c) = Join(a, Join(b, c))
  BY DEF Join
<1> QED
  BY <1>1, ConcatEmptySeq, SubSeqFull DEF Join, From

\* A sequence is what its parts up to k and behind it are together.
LEMMA Split ==
    ASSUME NEW S, NEW ms \in Seq(S), NEW k \in 0..Len(ms)
    PROVE  /\ Upto(ms, k) \in Seq(S) /\ Len(Upto(ms, k)) = k
           /\ From(ms, k + 1) \in Seq(S) /\ Len(From(ms, k + 1)) = Len(ms) - k
           /\ \A i \in 1..k : Upto(ms, k)[i] = ms[i]
           /\ \A i \in 1..Len(ms) - k : From(ms, k + 1)[i] = ms[k + i]
           /\ ms = Join(Upto(ms, k), From(ms, k + 1))
<1>1. k \in Nat /\ Len(ms) \in Nat /\ k <= Len(ms) /\ k \in Int /\ k + 1 \in Int
  OBVIOUS
<1>2. \A i \in 1..Len(ms) : ms[i] \in S
  OBVIOUS
<1>3. PICK p : p = SubSeq(ms, 1, k)
  OBVIOUS
<1>4. PICK q : q = SubSeq(ms, k + 1, Len(ms))
  OBVIOUS
<1>5. p \in Seq(S) /\ Len(p) = k /\ \A i \in 1..k : p[i] = ms[i]
  BY <1>1, <1>2, <1>3, SubSeqProperties
<1>6. /\ q \in Seq(S) /\ Len(q) = Len(ms) - k
      /\ \A i \in 1..Len(ms) - k : q[i] = ms[k + i]
  BY <1>1, <1>2, <1>4, SubSeqProperties
<1>7. ms = p \o q
  <2>1. /\ p \o q \in Seq(S) /\ Len(p \o q) = Len(ms)
        /\ \A i \in 1..Len(ms) : (p \o q)[i] = IF i <= k THEN p[i] ELSE q[i - k]
    BY <1>1, <1>5, <1>6, ConcatProperties
  <2>2. \A i \in 1..Len(ms) : (p \o q)[i] = ms[i]
    BY <1>1, <1>5, <1>6, <2>1
  <2> QED
    BY <2>1, <2>2, SeqEqual
<1> QED
  BY <1>3, <1>4, <1>5, <1>6, <1>7 DEF Join, Upto, From

\* What follows the leading system messages.
Trim(ms) == From(ms, LeadingSystem(ms) + 1)

\* System messages in front are trimmed.
LEMMA TrimInFront ==
    ASSUME NEW S, NEW a \in Seq(S), NEW b \in Seq(S),
           \A i \in 1..Len(a) : a[i].role = "system"
    PROVE  Trim(Join(a, b)) = Trim(b)
<1>1. PICK n : n = LeadingSystem(b)
  OBVIOUS
<1>2. Leads(b, n)
  BY <1>1, Leading
<1>3. PICK c : c = Join(a, b)
  OBVIOUS
<1>4. PICK k : k = Len(a)
  OBVIOUS
<1>5. /\ c \in Seq(S) /\ Len(c) = k + Len(b) /\ k \in Nat /\ Len(b) \in Nat
      /\ \A i \in 1..k : c[i] = a[i]
      /\ \A i \in 1..Len(b) : c[k + i] = b[i]
      /\ \A i \in 1..Len(b) + 1 : From(c, k + i) = From(b, i)
  <2>1. c \in Seq(S) /\ Joins(c, a, b)
    BY <1>3, Joined
  <2> QED
    BY <1>4, <2>1 DEF Joins
<1>6. n \in 0..Len(b)
  BY <1>2 DEF Leads
<1>7. Leads(c, k + n)
  <2>1. ASSUME NEW i \in 1..(k + n) PROVE c[i].role = "system"
    <3>1. CASE i <= k
      BY <1>4, <1>5, <1>6, <3>1
    <3>2. CASE i > k
      <4>1. i - k \in 1..n /\ i - k \in 1..Len(b) /\ k + (i - k) = i
        BY <1>5, <1>6, <3>2
      <4> QED
        BY <1>2, <1>5, <4>1 DEF Leads
    <3> QED
      BY <1>5, <1>6, <3>1, <3>2
  <2>2. ASSUME k + n < Len(c) PROVE c[k + n + 1].role # "system"
    <3>1. n + 1 \in 1..Len(b) /\ n < Len(b) /\ k + (n + 1) = k + n + 1
      BY <1>5, <1>6, <2>2
    <3>2. c[k + n + 1] = b[n + 1]
      BY <1>5, <3>1
    <3> QED
      BY <1>2, <3>1, <3>2 DEF Leads
  <2>3. k + n \in 0..Len(c)
    BY <1>5, <1>6
  <2> QED
    BY <2>1, <2>2, <2>3 DEF Leads
<1>8. LeadingSystem(c) = k + n
  BY <1>5, <1>7, Leading
<1>9. n + 1 \in 1..Len(b) + 1 /\ (k + n) + 1 = k + (n + 1)
  BY <1>5, <1>6
<1>10. From(c, k + (n + 1)) = From(b, n + 1)
  BY <1>5, <1>9
<1> QED
  BY <1>1, <1>3, <1>8, <1>9, <1>10 DEF Trim

\* Messages of other roles that are added at the end are not trimmed.
LEMMA TrimAtEnd ==
    ASSUME NEW S, NEW a \in Seq(S), NEW b \in Seq(S),
           \A i \in 1..Len(b) : b[i].role # "system"
    PROVE  Trim(Join(a, b)) = Join(Trim(a), b)
<1>1. PICK n : n = LeadingSystem(a)
  OBVIOUS
<1>2. Leads(a, n)
  BY <1>1, Leading
<1>3. n \in 0..Len(a)
  BY <1>2 DEF Leads
<1>4. PICK c : c = Join(a, b)
  OBVIOUS
<1>5. /\ c \in Seq(S) /\ Len(c) = Len(a) + Len(b) /\ Len(a) \in Nat /\ Len(b) \in Nat
      /\ \A i \in 1..Len(a) : c[i] = a[i]
      /\ \A i \in 1..Len(b) : c[Len(a) + i] = b[i]
  <2>1. c \in Seq(S) /\ Joins(c, a, b)
    BY <1>4, Joined
  <2> QED
    BY <2>1 DEF Joins
<1>6. Leads(c, n)
  <2>1. \A i \in 1..n : c[i].role = "system"
    BY <1>2, <1>3, <1>5 DEF Leads
  <2>2. ASSUME n < Len(c) PROVE c[n + 1].role # "system"
    <3>1. CASE n < Len(a)
      BY <1>2, <1>3, <1>5, <3>1 DEF Leads
    <3>2. CASE n = Len(a)
      <4>1. 1 \in 1..Len(b)
        BY <1>5, <2>2, <3>2
      <4> QED
        BY <1>5, <3>2, <4>1
    <3> QED
      BY <1>3, <1>5, <3>1, <3>2
  <2>3. n \in 0..Len(c)
    BY <1>3, <1>5
  <2> QED
    BY <2>1, <2>2, <2>3 DEF Leads
<1>7. LeadingSystem(c) = n
  BY <1>5, <1>6, Leading
<1>8. PICK p \in Seq(S), q \in Seq(S) :
          Len(p) = n /\ q = From(a, n + 1) /\ a = Join(p, q)
  BY <1>3, Split
<1>9. From(c, n + 1) = Join(q, b)
  <2>1. c = Join(p, Join(q, b))
    BY <1>4, <1>8, JoinedLaws
  <2>2. PICK r \in Seq(S) : r = Join(q, b)
    BY Joined
  <2>3. c = Join(p, r) /\ 1 \in 1..Len(r) + 1
    BY <2>1, <2>2
  <2>4. From(c, n + 1) = From(r, 1)
    <3>1. Joins(c, p, r)
      BY <1>8, <2>3, Joined
    <3>2. From(c, Len(p) + 1) = From(r, 1)
      BY <2>3, <3>1 DEF Joins
    <3> QED
      BY <1>8, <3>2
  <2> QED
    BY <2>2, <2>4, JoinedLaws
<1> QED
  BY <1>1, <1>4, <1>7, <1>8, <1>9 DEF Trim

-----------------------------------------------------------------------------
(* The two parts of a history.                                             *)

\* ms is what may not be summarized with the turns behind it.
Parted(ms, pre, rest) ==
    /\ pre \in Seq(Protected) /\ rest \in Seq(OfTurns)
    /\ ms \in Seq(MessageSet) /\ ms = Join(pre, rest) /\ Joins(ms, pre, rest)
    /\ Len(pre) > 0 => pre[Len(pre)].role \notin CompactableRoles

\* None of the turns behind the first has enough behind it.
Calm(rest) ==
    \A i \in 2..Len(rest) :
        rest[i].role = "user" => ~(Sum(From(rest, i)) >= KeepRecent)

\* Subsets of messages.
LEMMA MessageTypes ==
    /\ \A m \in Protected :
         m \in MessageSet /\ m.role # "tool" /\ m.calls = 0
         /\ (IsSummary(m) => m.role = "system")
    /\ \A m \in OfTurns :
         m \in MessageSet /\ m.role \in CompactableRoles /\ ~IsSummary(m)
    /\ \A m \in MessageSet : /\ m.role \in Roles /\ m.size \in Nat /\ m.calls \in Nat
                             /\ m.usage \in Nat /\ m.count \in Nat
    /\ Seq(Protected) \subseteq Seq(MessageSet)
    /\ Seq(OfTurns) \subseteq Seq(MessageSet)
<1>1. Protected \subseteq MessageSet /\ OfTurns \subseteq MessageSet
  BY DEF Protected, OfTurns
<1>2. Seq(Protected) \subseteq Seq(MessageSet) /\ Seq(OfTurns) \subseteq Seq(MessageSet)
  BY <1>1, SeqMonotonic
<1>3. \A m \in MessageSet : /\ m.role \in Roles /\ m.size \in Nat /\ m.calls \in Nat
                            /\ m.usage \in Nat /\ m.count \in Nat
  BY DEF MessageSet
<1> QED
  BY <1>2, <1>3 DEF Protected, OfTurns

\* Joining the two parts makes such a history.
LEMMA PartedJoin ==
    ASSUME NEW pre \in Seq(Protected), NEW rest \in Seq(OfTurns),
           Len(pre) > 0 => pre[Len(pre)].role \notin CompactableRoles
    PROVE  Parted(Join(pre, rest), pre, rest)
<1>1. pre \in Seq(MessageSet) /\ rest \in Seq(MessageSet)
  BY MessageTypes
<1>2. Join(pre, rest) \in Seq(MessageSet) /\ Joins(Join(pre, rest), pre, rest)
  BY <1>1, Joined
<1> QED
  BY <1>2 DEF Parted

\* The parts are those that the start of the history separates.
LEMMA PartedAt ==
    ASSUME NEW ms, NEW pre, NEW rest, Parted(ms, pre, rest)
    PROVE  /\ HistoryStart(ms) = Len(pre) + 1
           /\ Before(ms) = pre /\ Turns(ms) = rest
<1>1. /\ Len(pre) \in Nat /\ Len(rest) \in Nat /\ Len(ms) = Len(pre) + Len(rest)
      /\ \A i \in 1..Len(pre) : ms[i] = pre[i]
      /\ \A i \in 1..Len(rest) : ms[Len(pre) + i] = rest[i]
      /\ Upto(ms, Len(pre)) = pre
      /\ \A i \in 1..Len(rest) + 1 : From(ms, Len(pre) + i) = From(rest, i)
  BY DEF Parted, Joins
<1>2. \A i \in 1..Len(rest) : rest[i].role \in CompactableRoles
  BY MessageTypes DEF Parted
<1>3. Starts(ms, Len(pre) + 1)
  <2>1. ASSUME NEW i \in Len(pre) + 1 .. Len(ms)
        PROVE  ms[i].role \in CompactableRoles
    <3>1. i - Len(pre) \in 1..Len(rest) /\ Len(pre) + (i - Len(pre)) = i
      BY <1>1
    <3> QED
      BY <1>1, <1>2, <3>1
  <2>2. ASSUME Len(pre) + 1 > 1
        PROVE  ms[(Len(pre) + 1) - 1].role \notin CompactableRoles
    <3>1. Len(pre) > 0 /\ (Len(pre) + 1) - 1 = Len(pre) /\ Len(pre) \in 1..Len(pre)
      BY <1>1, <2>2
    <3> QED
      BY <1>1, <3>1 DEF Parted
  <2> QED
    BY <1>1, <2>1, <2>2 DEF Starts
<1>4. HistoryStart(ms) = Len(pre) + 1
  BY <1>3, StartDef DEF Parted
<1>5. Before(ms) = pre
  BY <1>1, <1>4 DEF Before, Upto
<1>6. Turns(ms) = From(ms, Len(pre) + 1)
  BY <1>4 DEF Turns, From
<1>7. From(ms, Len(pre) + 1) = From(rest, 1)
  BY <1>1
<1>8. From(rest, 1) = rest
  BY JoinedLaws DEF Parted
<1> QED
  BY <1>4, <1>5, <1>6, <1>7, <1>8

\* A history can be compacted when its turns are not calm.
LEMMA CanCompactTurns ==
    ASSUME NEW ms, NEW pre, NEW rest, Parted(ms, pre, rest)
    PROVE  CanCompact(ms) <=> ~Calm(rest)
<1>1. /\ Len(pre) \in Nat /\ Len(rest) \in Nat /\ Len(ms) = Len(pre) + Len(rest)
      /\ \A i \in 1..Len(rest) : ms[Len(pre) + i] = rest[i]
      /\ \A i \in 1..Len(rest) + 1 : From(ms, Len(pre) + i) = From(rest, i)
  BY DEF Parted, Joins
<1>2. HistoryStart(ms) = Len(pre) + 1
  BY PartedAt
<1>3. CanCompact(ms) <=> \E j \in 1..Len(ms) : Enough(ms, Len(pre) + 1, j)
  BY <1>2, CanCompactDef DEF Parted
<1>4. \A j : KeepsEnough(ms, j) <=> Sum(From(ms, j)) >= KeepRecent
  BY DEF KeepsEnough, From
<1>5. ASSUME NEW j \in 1..Len(ms), Enough(ms, Len(pre) + 1, j) PROVE ~Calm(rest)
  <2>1. j - Len(pre) \in 2..Len(rest) /\ j - Len(pre) \in 1..Len(rest) + 1
        /\ j - Len(pre) \in 1..Len(rest) /\ Len(pre) + (j - Len(pre)) = j
    BY <1>1, <1>5 DEF Enough
  <2>2. ms[j] = rest[j - Len(pre)] /\ From(ms, j) = From(rest, j - Len(pre))
    BY <1>1, <2>1
  <2> QED
    BY <1>4, <1>5, <2>1, <2>2 DEF Calm, Enough
<1>6. ASSUME ~Calm(rest) PROVE \E j \in 1..Len(ms) : Enough(ms, Len(pre) + 1, j)
  <2>1. PICK i \in 2..Len(rest) :
            rest[i].role = "user" /\ Sum(From(rest, i)) >= KeepRecent
    BY <1>6 DEF Calm
  <2>2. i \in 1..Len(rest) + 1 /\ i \in 1..Len(rest) /\ Len(pre) + i \in 1..Len(ms)
        /\ Len(pre) + i > Len(pre) + 1
    BY <1>1
  <2>3. ms[Len(pre) + i] = rest[i] /\ From(ms, Len(pre) + i) = From(rest, i)
    BY <1>1, <2>2
  <2> QED
    BY <1>4, <2>1, <2>2, <2>3 DEF Enough
<1> QED
  BY <1>3, <1>5, <1>6

\* The number of messages that may be summarized.
LEMMA CompactableParted ==
    ASSUME NEW ms, NEW pre, NEW rest, Parted(ms, pre, rest)
    PROVE  Compactable(ms) = Compactable(pre) + Len(rest) /\ Compactable(pre) \in Nat
<1>1. pre \in Seq(MessageSet) /\ rest \in Seq(MessageSet) /\ ms = pre \o rest
  BY MessageTypes DEF Parted, Join
<1>2. \A i \in 1..Len(rest) : rest[i].role \in CompactableRoles
  BY MessageTypes DEF Parted
<1>3. Compactable(rest) = Len(rest)
  BY <1>1, <1>2, CompactableParts
<1>4. Compactable(pre \o rest) = Compactable(pre) + Compactable(rest)
      /\ Compactable(pre) \in Nat
  BY <1>1, CompactableParts
<1> QED
  BY <1>1, <1>3, <1>4

\* A history in terms of its parts.
LEMMA HistoryIs ==
    ASSUME NEW ms, NEW pre, NEW rest, Parted(ms, pre, rest),
           NEW n, NEW calm, NEW pending
    PROVE  HistoryOf(ms, n, calm, pending) <=>
             /\ OneSummary(pre)
             /\ n = Compactable(pre) + Len(rest) + PreviousCount(pre)
             /\ calm => Calm(rest)
             /\ Paired(ms, pending)
<1>1. Before(ms) = pre /\ Turns(ms) = rest
  BY PartedAt
<1>2. pre \in Seq(Protected) /\ rest \in Seq(OfTurns)
  BY DEF Parted
<1>3. Compactable(ms) = Compactable(pre) + Len(rest)
  BY CompactableParted
<1>4. CanCompact(ms) <=> ~Calm(rest)
  BY CanCompactTurns
<1> QED
  BY <1>1, <1>2, <1>3, <1>4 DEF HistoryOf

\* Every history has the two parts.
LEMMA HistoryParted ==
    ASSUME NEW ms \in Seq(MessageSet), NEW n, NEW calm, NEW pending,
           HistoryOf(ms, n, calm, pending)
    PROVE  Parted(ms, Before(ms), Turns(ms))
<1>1. PICK h : h = HistoryStart(ms)
  OBVIOUS
<1>2. Starts(ms, h)
  BY <1>1, StartDef
<1>3. h \in 1..Len(ms) + 1 /\ Len(ms) \in Nat
  BY <1>2 DEF Starts
<1>4. PICK k : k = h - 1
  OBVIOUS
<1>5. k \in 0..Len(ms) /\ k + 1 = h
  BY <1>3, <1>4
<1>6. Before(ms) = Upto(ms, k) /\ Turns(ms) = From(ms, k + 1)
  BY <1>1, <1>4, <1>5 DEF Before, Turns, Upto, From
<1>7. /\ Upto(ms, k) \in Seq(MessageSet) /\ Len(Upto(ms, k)) = k
      /\ From(ms, k + 1) \in Seq(MessageSet)
      /\ \A i \in 1..k : Upto(ms, k)[i] = ms[i]
      /\ ms = Join(Upto(ms, k), From(ms, k + 1))
  BY <1>5, Split
<1>8. Joins(ms, Upto(ms, k), From(ms, k + 1))
  BY <1>7, Joined
<1>9. Before(ms) \in Seq(Protected) /\ Turns(ms) \in Seq(OfTurns)
  BY DEF HistoryOf
<1>10. ASSUME k > 0 PROVE Upto(ms, k)[k].role \notin CompactableRoles
  <2>1. k \in 1..k /\ h > 1
    BY <1>5, <1>10
  <2> QED
    BY <1>2, <1>4, <1>7, <2>1 DEF Starts
<1> QED
  BY <1>6, <1>7, <1>8, <1>9, <1>10 DEF Parted

-----------------------------------------------------------------------------
(* Calls and their results.                                                *)

\* k results follow message i, which has n calls.
Ends(ms, i, n, over, k) ==
    /\ i + k <= Len(ms)
    /\ \A j \in i + 1 .. i + k : ms[j].role = "tool"
    /\ i + k < Len(ms) => ms[i + k + 1].role # "tool"
    /\ k < n => IF i + k = Len(ms) THEN over ELSE ms[i + k + 1].role = "user"

\* Answered in these terms.
LEMMA AnsweredIs ==
    ASSUME NEW ms, NEW i, NEW n, NEW over
    PROVE  Answered(ms, i, n, over) <=> \E k \in 0..n : Ends(ms, i, n, over, k)
  BY DEF Answered, Ends

\* Positions of a sequence and of what is put k places behind its beginning.
LEMMA Shifted ==
    ASSUME NEW k \in Nat, NEW j \in Nat, NEW e \in Nat, NEW l \in Nat, j + e <= l
    PROVE  /\ ((k + j) + e = k + l) <=> (j + e = l)
           /\ ((k + j) + e # k + l) => ((k + j) + e < k + l)
  OBVIOUS

\* A run that is over may leave more than one that is not.
LEMMA PairedWeaker ==
    ASSUME NEW ms, NEW p, NEW q, Paired(ms, p), p => q
    PROVE  Paired(ms, q)
<1>1. ASSUME NEW i, NEW n, Answered(ms, i, n, p) PROVE Answered(ms, i, n, q)
  BY <1>1 DEF Answered
<1> QED
  BY <1>1 DEF Paired

\* Messages without calls or results may be in front.
LEMMA PairedBehind ==
    ASSUME NEW a \in Seq(Protected), NEW b \in Seq(MessageSet), NEW p, Paired(b, p)
    PROVE  Paired(Join(a, b), p)
<1>0. a \in Seq(MessageSet)
  BY MessageTypes
<1>1. PICK c \in Seq(MessageSet) : c = Join(a, b) /\ Joins(c, a, b)
  BY <1>0, Joined
<1>2. PICK k : k = Len(a)
  OBVIOUS
<1>3. /\ k \in Nat /\ Len(b) \in Nat /\ Len(c) = k + Len(b)
      /\ \A i \in 1..k : c[i] = a[i]
      /\ \A i \in 1..Len(b) : c[k + i] = b[i]
  BY <1>1, <1>2 DEF Joins
<1>4. \A i \in 1..k : c[i].role # "tool" /\ c[i].calls = 0
  BY <1>2, <1>3, MessageTypes
<1>5. \A i \in 1..Len(b) : b[i].calls \in Nat
  BY MessageTypes
<1>6. ASSUME NEW i \in 1..Len(c), c[i].role = "assistant"
      PROVE  Answered(c, i, c[i].calls, p)
  <2>1. CASE i <= k
    <3>1. i \in 1..k /\ c[i].calls = 0
      BY <1>3, <1>4, <2>1
    <3>2. ASSUME i < Len(c) PROVE c[i + 1].role # "tool"
      <4>1. CASE i < k
        BY <1>3, <1>4, <4>1
      <4>2. CASE i = k
        <5>1. 1 \in 1..Len(b) /\ i + 1 = k + 1
          BY <1>3, <3>2, <4>2
        <5>2. b[1].role # "tool"
          BY <5>1 DEF Paired
        <5> QED
          BY <1>3, <5>1, <5>2
      <4> QED
        BY <1>3, <2>1, <4>1, <4>2
    <3>3. i + 0 = i /\ i + 0 + 1 = i + 1 /\ i + 0 <= Len(c) /\ i + 1 > i
      BY <1>3
    <3>4. Ends(c, i, 0, p, 0)
      BY <3>2, <3>3 DEF Ends
    <3>5. 0 \in 0..0
      OBVIOUS
    <3> QED
      BY <3>1, <3>4, <3>5, AnsweredIs
  <2>2. CASE i > k
    <3>1. PICK j \in 1..Len(b) : i = k + j
      <4>1. i - k \in 1..Len(b) /\ i = k + (i - k)
        BY <1>3, <2>2
      <4> QED
        BY <4>1
    <3>2. c[i] = b[j]
      BY <1>3, <3>1
    <3>3. PICK x \in Nat : x = b[j].calls /\ x = c[i].calls
      BY <1>5, <3>2
    <3>4. PICK e \in 0..x : Ends(b, j, x, p, e)
      <4>1. Answered(b, j, x, p)
        BY <1>6, <3>2, <3>3 DEF Paired
      <4> QED
        BY <4>1, AnsweredIs
    <3>5. e \in Nat /\ j + e <= Len(b) /\ i + e <= Len(c)
      BY <1>3, <3>1, <3>4 DEF Ends
    <3>6. ASSUME NEW m \in i + 1 .. i + e PROVE c[m].role = "tool"
      <4>1. m - k \in j + 1 .. j + e /\ k + (m - k) = m
            /\ m - k \in 1..Len(b)
        BY <1>3, <3>1, <3>5
      <4>2. b[m - k].role = "tool"
        BY <3>4, <4>1 DEF Ends
      <4> QED
        BY <1>3, <4>1, <4>2
    <3>7. ASSUME i + e < Len(c)
          PROVE  j + e < Len(b) /\ c[i + e + 1] = b[j + e + 1]
      <4>1. /\ j + e < Len(b) /\ j + e + 1 \in 1..Len(b)
            /\ k + (j + e + 1) = i + e + 1
        BY <1>3, <3>1, <3>5, <3>7
      <4>2. c[k + (j + e + 1)] = b[j + e + 1]
        BY <1>3, <4>1
      <4> QED
        BY <4>1, <4>2
    <3>8. /\ (i + e = Len(c)) <=> (j + e = Len(b))
          /\ i + e # Len(c) => i + e < Len(c)
      <4>1. /\ k \in Nat /\ j \in Nat /\ e \in Nat /\ Len(b) \in Nat
            /\ i = k + j /\ Len(c) = k + Len(b) /\ j + e <= Len(b)
        BY <1>3, <3>1, <3>5
      <4> QED
        BY <4>1, Shifted
    <3>10. Ends(c, i, x, p, e)
      BY <3>4, <3>5, <3>6, <3>7, <3>8 DEF Ends
    <3> QED
      BY <3>3, <3>10, AnsweredIs
  <2> QED
    BY <1>3, <2>1, <2>2
<1>7. ASSUME NEW i \in 1..Len(c), c[i].role = "tool"
      PROVE  i > 1 /\ c[i - 1].role \in {"assistant", "tool"}
  <2>1. PICK j \in 1..Len(b) : i = k + j
    <3>1. ~(i <= k)
      BY <1>3, <1>4, <1>7
    <3>2. i - k \in 1..Len(b) /\ i = k + (i - k)
      BY <1>3, <3>1
    <3> QED
      BY <3>2
  <2>2. c[i] = b[j]
    BY <1>3, <2>1
  <2>3. j > 1 /\ b[j - 1].role \in {"assistant", "tool"}
    BY <1>7, <2>2 DEF Paired
  <2>4. j - 1 \in 1..Len(b) /\ k + (j - 1) = i - 1 /\ i > 1
    BY <1>3, <2>1, <2>3
  <2> QED
    BY <1>3, <2>3, <2>4
<1> QED
  BY <1>1, <1>6, <1>7 DEF Paired

\* A suffix that begins with no result is paired.
LEMMA PairedFrom ==
    ASSUME NEW ms \in Seq(MessageSet), NEW k \in 0..Len(ms), NEW p, Paired(ms, p),
           k < Len(ms) => ms[k + 1].role # "tool"
    PROVE  Paired(From(ms, k + 1), p)
<1>1. PICK b \in Seq(MessageSet) : b = From(ms, k + 1)
  BY Split
<1>2. /\ k \in Nat /\ Len(ms) \in Nat /\ Len(b) \in Nat /\ Len(ms) = k + Len(b)
      /\ \A i \in 1..Len(b) : b[i] = ms[k + i]
  <2>1. Len(b) = Len(ms) - k /\ \A i \in 1..Len(ms) - k : b[i] = ms[k + i]
    BY <1>1, Split
  <2>2. k \in Nat /\ Len(ms) \in Nat /\ k <= Len(ms)
    OBVIOUS
  <2> QED
    BY <2>1, <2>2
<1>3. \A i \in 1..Len(b) : b[i].calls \in Nat
  BY MessageTypes
<1>4. ASSUME NEW j \in 1..Len(b), b[j].role = "assistant"
      PROVE  Answered(b, j, b[j].calls, p)
  <2>1. k + j \in 1..Len(ms) /\ ms[k + j] = b[j]
    BY <1>2
  <2>2. PICK x \in Nat : x = b[j].calls
    BY <1>3
  <2>3. PICK e \in 0..x : Ends(ms, k + j, x, p, e)
    <3>1. Answered(ms, k + j, x, p)
      BY <1>4, <2>1, <2>2 DEF Paired
    <3> QED
      BY <3>1, AnsweredIs
  <2>4. e \in Nat /\ j + e <= Len(b) /\ k + j + e <= Len(ms)
    BY <1>2, <2>1, <2>3 DEF Ends
  <2>5. ASSUME NEW m \in j + 1 .. j + e PROVE b[m].role = "tool"
    <3>1. m \in 1..Len(b) /\ k + m \in (k + j) + 1 .. (k + j) + e
      BY <1>2, <2>1, <2>4
    <3>2. ms[k + m].role = "tool"
      BY <2>3, <3>1 DEF Ends
    <3> QED
      BY <1>2, <3>1, <3>2
  <2>6. ASSUME j + e < Len(b)
        PROVE  (k + j) + e < Len(ms) /\ b[j + e + 1] = ms[(k + j) + e + 1]
    <3>1. /\ j + e + 1 \in 1..Len(b)
          /\ k + (j + e + 1) = (k + j) + e + 1
          /\ (k + j) + e < Len(ms)
      BY <1>2, <2>1, <2>4, <2>6
    <3>2. b[j + e + 1] = ms[k + (j + e + 1)]
      BY <1>2, <3>1
    <3> QED
      BY <3>1, <3>2
  <2>7. ((k + j) + e = Len(ms)) <=> (j + e = Len(b))
    <3>1. /\ k \in Nat /\ j \in Nat /\ e \in Nat /\ Len(b) \in Nat
          /\ Len(ms) = k + Len(b) /\ j + e <= Len(b)
      BY <1>2, <2>4
    <3> QED
      BY <3>1, Shifted
  <2>8. j + e # Len(b) => j + e < Len(b)
    BY <1>2, <2>4
  <2>9. Ends(b, j, x, p, e)
    BY <2>3, <2>4, <2>5, <2>6, <2>7, <2>8 DEF Ends
  <2> QED
    BY <2>2, <2>9, AnsweredIs
<1>5. ASSUME NEW j \in 1..Len(b), b[j].role = "tool"
      PROVE  j > 1 /\ b[j - 1].role \in {"assistant", "tool"}
  <2>1. k + j \in 1..Len(ms) /\ ms[k + j].role = "tool"
    BY <1>2, <1>5
  <2>2. ms[(k + j) - 1].role \in {"assistant", "tool"}
    BY <2>1 DEF Paired
  <2>3. j # 1
    BY <1>2, <2>1
  <2>4. j > 1 /\ j - 1 \in 1..Len(b) /\ k + (j - 1) = (k + j) - 1
    BY <1>2, <2>3
  <2>5. b[j - 1] = ms[(k + j) - 1]
    BY <1>2, <2>4
  <2> QED
    BY <2>2, <2>4, <2>5
<1> QED
  BY <1>1, <1>4, <1>5 DEF Paired

\* A task's message may follow any messages, and another that is no result
\* those whose calls have their results.
LEMMA PairedNext ==
    ASSUME NEW ms \in Seq(MessageSet), NEW m \in MessageSet, NEW p, NEW q,
           Paired(ms, q), m.role # "tool", q => m.role = "user", m.calls > 0 => p
    PROVE  Paired(Join(ms, <<m>>), p)
<1>1. <<m>> \in Seq(MessageSet) /\ Len(<<m>>) = 1 /\ <<m>>[1] = m
  OBVIOUS
<1>2. PICK c \in Seq(MessageSet) : c = Join(ms, <<m>>) /\ Joins(c, ms, <<m>>)
  BY <1>1, Joined
<1>3. PICK n : n = Len(ms)
  OBVIOUS
<1>4. /\ n \in Nat /\ Len(c) = n + 1 /\ c[n + 1] = m
      /\ \A i \in 1..n : c[i] = ms[i]
  <2>1. 1 \in 1..1
    OBVIOUS
  <2> QED
    BY <1>1, <1>2, <1>3, <2>1 DEF Joins
<1>5. m.calls \in Nat /\ \A i \in 1..n : ms[i].calls \in Nat
  BY <1>3, MessageTypes
<1>6. ASSUME NEW i \in 1..Len(c), c[i].role = "assistant"
      PROVE  Answered(c, i, c[i].calls, p)
  <2>1. CASE i = n + 1
    <3>1. PICK x \in Nat : x = c[i].calls /\ x = m.calls
      BY <1>4, <1>5, <2>1
    <3>2. i + 0 = Len(c) /\ ~(i + 0 < Len(c)) /\ ~(i + 1 <= i + 0)
      BY <1>4, <2>1
    <3>3. Ends(c, i, x, p, 0) /\ 0 \in 0..x
      BY <1>4, <2>1, <3>1, <3>2 DEF Ends
    <3> QED
      BY <3>1, <3>3, AnsweredIs
  <2>2. CASE i # n + 1
    <3>1. i \in 1..n /\ c[i] = ms[i]
      BY <1>4, <2>2
    <3>2. PICK x \in Nat : x = ms[i].calls
      BY <1>5, <3>1
    <3>3. PICK e \in 0..x : Ends(ms, i, x, q, e)
      <4>1. Answered(ms, i, x, q)
        BY <1>3, <1>6, <3>1, <3>2 DEF Paired
      <4> QED
        BY <4>1, AnsweredIs
    <3>4. e \in Nat /\ i + e <= n
      BY <1>3, <3>3 DEF Ends
    <3>5. \A j \in i + 1 .. i + e : c[j].role = "tool"
      <4>1. \A j \in i + 1 .. i + e : j \in 1..n
        BY <1>4, <3>1, <3>4
      <4> QED
        BY <1>4, <3>3, <4>1 DEF Ends
    <3>6. c[i + e + 1].role # "tool" /\ (e < x => c[i + e + 1].role = "user")
      <4>1. CASE i + e < n
        <5>1. i + e + 1 \in 1..n /\ i + e # n
          BY <1>4, <3>1, <3>4, <4>1
        <5> QED
          BY <1>3, <1>4, <3>3, <4>1, <5>1 DEF Ends
      <4>2. CASE i + e = n
        <5>1. c[i + e + 1] = m
          BY <1>4, <4>2
        <5>2. e < x => q
          BY <1>3, <3>3, <4>2 DEF Ends
        <5> QED
          BY <5>1, <5>2
      <4> QED
        BY <1>4, <3>1, <3>4, <4>1, <4>2
    <3>7. i + e < Len(c) /\ i + e # Len(c) /\ i + e <= Len(c)
      BY <1>4, <3>1, <3>4
    <3>8. Ends(c, i, x, p, e)
      BY <3>5, <3>6, <3>7 DEF Ends
    <3> QED
      BY <3>1, <3>2, <3>8, AnsweredIs
  <2> QED
    BY <2>1, <2>2
<1>7. ASSUME NEW i \in 1..Len(c), c[i].role = "tool"
      PROVE  i > 1 /\ c[i - 1].role \in {"assistant", "tool"}
  <2>1. i \in 1..n /\ ms[i].role = "tool"
    BY <1>4, <1>7
  <2>2. i > 1 /\ ms[i - 1].role \in {"assistant", "tool"} /\ i - 1 \in 1..n
    BY <1>3, <1>4, <2>1 DEF Paired
  <2> QED
    BY <1>4, <2>2
<1> QED
  BY <1>2, <1>6, <1>7 DEF Paired

\* Results of the last message may follow it, and all of them end the batch.
LEMMA PairedResults ==
    ASSUME NEW ms \in Seq(MessageSet), NEW new \in Seq(MessageSet),
           NEW p, NEW q, Paired(ms, q),
           Len(ms) > 0, ms[Len(ms)].role = "assistant",
           NEW k \in 0..ms[Len(ms)].calls, k < ms[Len(ms)].calls => p,
           Len(new) = k, \A i \in 1..k : new[i].role = "tool"
    PROVE  Paired(Join(ms, new), p)
<1>1. PICK c \in Seq(MessageSet) : c = Join(ms, new) /\ Joins(c, ms, new)
  BY Joined
<1>2. PICK n : n = Len(ms)
  OBVIOUS
<1>3. k \in Nat
  BY MessageTypes
<1>4. /\ n \in Nat /\ n > 0 /\ k \in Nat /\ Len(c) = n + k
      /\ \A i \in 1..n : c[i] = ms[i]
      /\ \A i \in 1..k : c[n + i].role = "tool"
  BY <1>1, <1>2, <1>3 DEF Joins
<1>5. \A i \in 1..n : ms[i].calls \in Nat
  BY <1>2, MessageTypes
<1>6. ASSUME NEW i \in 1..Len(c), c[i].role = "assistant"
      PROVE  Answered(c, i, c[i].calls, p)
  <2>1. i \in 1..n /\ c[i] = ms[i]
    <3>1. CASE i > n
      <4>1. i - n \in 1..k /\ n + (i - n) = i
        BY <1>4, <3>1
      <4> QED
        BY <1>4, <1>6, <4>1
    <3> QED
      BY <1>4, <3>1
  <2>8. PICK x \in Nat : x = ms[i].calls
    BY <1>5, <2>1
  <2>2. CASE i = n
    <3>2. ASSUME NEW j \in n + 1 .. n + k PROVE c[j].role = "tool"
      <4>1. j - n \in 1..k /\ n + (j - n) = j
        BY <1>4
      <4> QED
        BY <1>4, <4>1
    <3>3. i + k = Len(c) /\ ~(i + k < Len(c)) /\ i + k <= Len(c)
      BY <1>4, <2>2
    <3>4. Ends(c, i, x, p, k) /\ k \in 0..x
      BY <1>2, <2>1, <2>2, <2>8, <3>2, <3>3 DEF Ends
    <3> QED
      BY <2>1, <2>8, <3>4, AnsweredIs
  <2>3. CASE i # n
    <3>1. PICK e \in 0..x : Ends(ms, i, x, q, e)
      <4>1. Answered(ms, i, x, q)
        BY <1>2, <1>6, <2>1, <2>8 DEF Paired
      <4> QED
        BY <4>1, AnsweredIs
    <3>2. e \in Nat /\ i + e <= n
      BY <1>2, <3>1 DEF Ends
    <3>3. i + e # n
      <4>1. CASE e = 0
        BY <1>4, <2>1, <2>3, <4>1
      <4>2. CASE e > 0 /\ i + e = n
        <5>1. n \in i + 1 .. i + e
          BY <1>4, <2>1, <3>2, <4>2
        <5>2. ms[n].role = "tool"
          BY <3>1, <5>1 DEF Ends
        <5> QED
          BY <1>2, <5>2
      <4> QED
        BY <3>2, <4>1, <4>2
    <3>4. i + e < n /\ i + e + 1 \in 1..n
      BY <1>4, <2>1, <3>2, <3>3
    <3>5. c[i + e + 1].role # "tool" /\ (e < x => c[i + e + 1].role = "user")
      BY <1>2, <1>4, <3>1, <3>4, <3>3 DEF Ends
    <3>6. \A j \in i + 1 .. i + e : j \in 1..n
      BY <1>4, <2>1, <3>2
    <3>7. \A j \in i + 1 .. i + e : c[j].role = "tool"
      BY <1>4, <3>1, <3>6 DEF Ends
    <3>9. i + e <= Len(c) /\ i + e # Len(c)
      BY <1>4, <2>1, <3>2, <3>4
    <3>10. Ends(c, i, x, p, e)
      BY <3>5, <3>7, <3>9 DEF Ends
    <3> QED
      BY <2>1, <2>8, <3>10, AnsweredIs
  <2> QED
    BY <2>2, <2>3
<1>7. ASSUME NEW i \in 1..Len(c), c[i].role = "tool"
      PROVE  i > 1 /\ c[i - 1].role \in {"assistant", "tool"}
  <2>1. CASE i <= n
    <3>1. i > 1 /\ ms[i - 1].role \in {"assistant", "tool"} /\ i - 1 \in 1..n
      BY <1>2, <1>4, <1>7, <2>1 DEF Paired
    <3> QED
      BY <1>4, <3>1
  <2>2. CASE i = n + 1
    <3>1. i > 1 /\ i - 1 = n /\ n \in 1..n
      BY <1>4, <2>2
    <3> QED
      BY <1>2, <1>4, <3>1
  <2>3. CASE i > n + 1
    <3>1. i > 1 /\ (i - 1) - n \in 1..k /\ n + ((i - 1) - n) = i - 1
      BY <1>4, <2>3
    <3>2. c[n + ((i - 1) - n)].role = "tool"
      BY <1>4, <3>1
    <3> QED
      BY <3>1, <3>2
  <2> QED
    BY <1>4, <2>1, <2>2, <2>3
<1> QED
  BY <1>1, <1>6, <1>7 DEF Paired

-----------------------------------------------------------------------------
(* How a history changes.                                                  *)

\* The count of the only summary, or nothing.
LEMMA PreviousCountOf ==
    ASSUME NEW ms \in Seq(MessageSet), OneSummary(ms)
    PROVE  /\ (\A i \in 1..Len(ms) : ~IsSummary(ms[i])) => PreviousCount(ms) = 0
           /\ \A i \in 1..Len(ms) : IsSummary(ms[i]) => PreviousCount(ms) = ms[i].count
           /\ PreviousCount(ms) \in Nat
<1> DEFINE found == {i \in 1..Len(ms) : IsSummary(ms[i])}
<1>1. PreviousCount(ms) = IF found = {} THEN 0 ELSE ms[Max(found)].count
  BY DEF PreviousCount
<1>2. Len(ms) \in Nat /\ found \in SUBSET (0..Len(ms))
  OBVIOUS
<1>3. ASSUME NEW i \in 1..Len(ms), IsSummary(ms[i])
      PROVE  PreviousCount(ms) = ms[i].count
  <2>1. found # {}
    BY <1>3
  <2>2. Max(found) \in found
    BY <1>2, <2>1, Extremes
  <2>3. Max(found) = i
    BY <1>3, <2>2 DEF OneSummary
  <2> QED
    BY <1>1, <2>1, <2>3
<1>4. ASSUME \A i \in 1..Len(ms) : ~IsSummary(ms[i]) PROVE PreviousCount(ms) = 0
  <2>1. found = {}
    BY <1>4
  <2> QED
    BY <1>1, <2>1
<1>5. \A i \in 1..Len(ms) : ms[i].count \in Nat
  BY MessageTypes
<1>6. PreviousCount(ms) \in Nat
  <2>1. CASE \A i \in 1..Len(ms) : ~IsSummary(ms[i])
    BY <1>4, <2>1
  <2>2. CASE \E i \in 1..Len(ms) : IsSummary(ms[i])
    BY <1>3, <1>5, <2>2
  <2> QED
    BY <2>1, <2>2
<1> QED
  BY <1>3, <1>4, <1>6

\* The prompts of an agent.
LEMMA PromptTypes ==
    /\ PromptMessages \in Seq(Protected) /\ PromptMessages \in Seq(MessageSet)
    /\ Len(PromptMessages) = Prompts /\ Prompts \in Nat /\ Prompts > 0
    /\ \A i \in 1..Prompts : /\ PromptMessages[i].role = "system"
                             /\ ~IsSummary(PromptMessages[i])
<1>1. Prompts \in Nat /\ Prompts > 0
  BY BudgetAssumption
<1>2. Plain("system", 1) \in MessageSet
  BY DEF Plain, Message, MessageSet, Roles, NoUsage
<1>3. /\ Plain("system", 1).role = "system" /\ ~IsSummary(Plain("system", 1))
      /\ Plain("system", 1).calls = 0
  BY DEF Plain, Message, IsSummary
<1>4. Plain("system", 1) \in Protected
  BY <1>2, <1>3 DEF Protected
<1>5. PICK m \in Protected : m = Plain("system", 1)
  BY <1>4
<1>6. PromptMessages = [i \in 1..Prompts |-> m]
  BY <1>5 DEF PromptMessages
<1>7. PromptMessages \in Seq(Protected) /\ Len(PromptMessages) = Prompts
      /\ \A i \in 1..Prompts : PromptMessages[i] = m
  BY <1>1, <1>6
<1> QED
  BY <1>1, <1>3, <1>5, <1>7, MessageTypes

\* A history is one whether its run is over or not when it is paired so.
LEMMA HistoryPaired ==
    ASSUME NEW ms \in Seq(MessageSet), NEW n, NEW calm, NEW p,
           HistoryOf(ms, n, calm, p), NEW q, Paired(ms, q)
    PROVE  HistoryOf(ms, n, calm, q)
  BY DEF HistoryOf

\* A run adds messages to the turns of a history.
LEMMA HistoryProduced ==
    ASSUME NEW ms \in Seq(MessageSet), NEW n \in Nat, NEW calm, NEW p,
           HistoryOf(ms, n, calm, p),
           NEW new \in Seq(OfTurns), NEW q, Paired(Join(ms, new), q)
    PROVE  HistoryOf(Join(ms, new), n + Len(new), calm /\ Len(new) = 0, q)
<1>1. PICK pre, rest : Parted(ms, pre, rest)
  BY HistoryParted
<1>2. pre \in Seq(Protected) /\ rest \in Seq(OfTurns) /\ ms = Join(pre, rest)
      /\ (Len(pre) > 0 => pre[Len(pre)].role \notin CompactableRoles)
  BY <1>1 DEF Parted
<1>3. PICK r \in Seq(OfTurns) : r = Join(rest, new) /\ Joins(r, rest, new)
  BY <1>2, Joined
<1>4. Join(ms, new) = Join(pre, r)
  <2>1. pre \in Seq(MessageSet) /\ rest \in Seq(MessageSet) /\ new \in Seq(MessageSet)
    BY <1>2, MessageTypes
  <2> QED
    BY <1>2, <1>3, <2>1, JoinedLaws
<1>5. Parted(Join(ms, new), pre, r)
  BY <1>2, <1>4, PartedJoin
<1>6. /\ OneSummary(pre) /\ n = Compactable(pre) + Len(rest) + PreviousCount(pre)
      /\ calm => Calm(rest)
  BY <1>1, HistoryIs
<1>7. Len(r) = Len(rest) + Len(new) /\ Len(rest) \in Nat /\ Len(new) \in Nat
  BY <1>3 DEF Joins
<1>8. Compactable(pre) \in Nat /\ PreviousCount(pre) \in Nat
  BY <1>1, <1>2, <1>6, CompactableParted, PreviousCountOf, MessageTypes
<1>9. n + Len(new) = Compactable(pre) + Len(r) + PreviousCount(pre)
  BY <1>6, <1>7, <1>8
<1>10. (calm /\ Len(new) = 0) => Calm(r)
  <2>1. ASSUME Len(new) = 0 PROVE r = rest
    <3>1. new = <<>>
      BY <2>1
    <3> QED
      BY <1>2, <1>3, <3>1, JoinedLaws
  <2> QED
    BY <1>6, <2>1
<1> QED
  BY <1>5, <1>6, <1>9, <1>10, HistoryIs

\* The prompts may be put before a history.
LEMMA HistoryRestored ==
    ASSUME NEW ms \in Seq(MessageSet), NEW n, NEW calm, NEW p,
           HistoryOf(ms, n, calm, p)
    PROVE  HistoryOf(Join(PromptMessages, ms), n, calm, p)
<1>1. PICK pre, rest : Parted(ms, pre, rest)
  BY HistoryParted
<1>2. pre \in Seq(Protected) /\ rest \in Seq(OfTurns) /\ ms = Join(pre, rest)
      /\ pre \in Seq(MessageSet) /\ rest \in Seq(MessageSet)
      /\ (Len(pre) > 0 => pre[Len(pre)].role \notin CompactableRoles)
  BY <1>1, MessageTypes DEF Parted
<1>3. PICK a : a = PromptMessages
  OBVIOUS
<1>4. /\ a \in Seq(Protected) /\ a \in Seq(MessageSet) /\ Len(a) \in Nat /\ Len(a) > 0
      /\ \A i \in 1..Len(a) : a[i].role = "system" /\ ~IsSummary(a[i])
  BY <1>3, PromptTypes
<1>5. PICK b \in Seq(Protected) : b = Join(a, pre) /\ Joins(b, a, pre)
  BY <1>2, <1>4, Joined
<1>6. /\ Len(b) = Len(a) + Len(pre) /\ Len(pre) \in Nat
      /\ \A i \in 1..Len(a) : b[i] = a[i]
      /\ \A i \in 1..Len(pre) : b[Len(a) + i] = pre[i]
  BY <1>5 DEF Joins
<1>7. Join(a, ms) = Join(b, rest)
  BY <1>2, <1>4, <1>5, JoinedLaws
<1>8. b[Len(b)].role \notin CompactableRoles
  <2>1. CASE Len(pre) = 0
    <3>1. Len(a) \in 1..Len(a) /\ Len(b) = Len(a)
      BY <1>4, <1>6, <2>1
    <3> QED
      BY <1>4, <1>6, <3>1 DEF CompactableRoles
  <2>2. CASE Len(pre) > 0
    <3>1. Len(pre) \in 1..Len(pre) /\ Len(b) = Len(a) + Len(pre)
      BY <1>6, <2>2
    <3> QED
      BY <1>2, <1>6, <2>2, <3>1
  <2> QED
    BY <1>6, <2>1, <2>2
<1>9. Parted(Join(a, ms), b, rest)
  BY <1>2, <1>7, <1>8, PartedJoin
<1>10. /\ OneSummary(pre) /\ n = Compactable(pre) + Len(rest) + PreviousCount(pre)
       /\ calm => Calm(rest)
       /\ Paired(ms, p)
  BY <1>1, HistoryIs
<1>11. \A i \in 1..Len(b) : IsSummary(b[i]) =>
           i - Len(a) \in 1..Len(pre) /\ Len(a) + (i - Len(a)) = i
           /\ b[i] = pre[i - Len(a)]
  <2> SUFFICES ASSUME NEW i \in 1..Len(b), IsSummary(b[i])
               PROVE  i - Len(a) \in 1..Len(pre) /\ Len(a) + (i - Len(a)) = i
                      /\ b[i] = pre[i - Len(a)]
    OBVIOUS
  <2>1. ~(i <= Len(a))
    BY <1>4, <1>6
  <2>2. i - Len(a) \in 1..Len(pre) /\ Len(a) + (i - Len(a)) = i
    BY <1>4, <1>6, <2>1
  <2> QED
    BY <1>6, <2>2
<1>12. OneSummary(b)
  <2> SUFFICES ASSUME NEW i \in 1..Len(b), NEW j \in 1..Len(b),
                      IsSummary(b[i]), IsSummary(b[j])
               PROVE  i = j
    BY DEF OneSummary
  <2>1. i - Len(a) = j - Len(a)
    BY <1>10, <1>11 DEF OneSummary
  <2> QED
    BY <1>4, <2>1
<1>13. PreviousCount(b) = PreviousCount(pre)
  <2>0. b \in Seq(MessageSet)
    BY MessageTypes
  <2>1. CASE \E i \in 1..Len(b) : IsSummary(b[i])
    <3>1. PICK i \in 1..Len(b) : IsSummary(b[i])
      BY <2>1
    <3>2. PreviousCount(b) = b[i].count
      BY <1>12, <2>0, <3>1, PreviousCountOf
    <3>3. i - Len(a) \in 1..Len(pre) /\ b[i] = pre[i - Len(a)]
      BY <1>11, <3>1
    <3>4. PreviousCount(pre) = pre[i - Len(a)].count
      BY <1>2, <1>10, <3>1, <3>3, PreviousCountOf
    <3> QED
      BY <3>2, <3>3, <3>4
  <2>2. CASE \A i \in 1..Len(b) : ~IsSummary(b[i])
    <3>1. PreviousCount(b) = 0
      BY <1>12, <2>0, <2>2, PreviousCountOf
    <3>2. \A i \in 1..Len(pre) : ~IsSummary(pre[i])
      <4>1. \A i \in 1..Len(pre) : Len(a) + i \in 1..Len(b)
        BY <1>4, <1>6
      <4> QED
        BY <1>6, <2>2, <4>1
    <3> QED
      BY <1>2, <1>10, <3>1, <3>2, PreviousCountOf
  <2> QED
    BY <2>1, <2>2
<1>14. Compactable(b) = Compactable(pre)
  <2>1. \A i \in 1..Len(a) : a[i].role \notin CompactableRoles
    BY <1>4 DEF CompactableRoles
  <2>2. Compactable(a) = 0
    BY <1>4, <2>1, CompactableParts
  <2>3. b = a \o pre
    BY <1>5 DEF Join
  <2>4. Compactable(a \o pre) = Compactable(a) + Compactable(pre)
        /\ Compactable(pre) \in Nat
    BY <1>2, <1>4, CompactableParts
  <2> QED
    BY <2>2, <2>3, <2>4
<1>15. Paired(Join(a, ms), p)
  BY <1>4, <1>10, PairedBehind
<1> QED
  BY <1>3, <1>9, <1>10, <1>12, <1>13, <1>14, <1>15, HistoryIs

\* Protected messages are messages.
LEMMA ProtectedAmong == Protected \in SUBSET MessageSet
  BY DEF Protected

\* What is left out is not summarized.
LEMMA CompactableLeft ==
    ASSUME NEW ms \in Seq(Protected)
    PROVE  /\ WithoutSummaries(ms) \in Seq({m \in Protected : ~IsSummary(m)})
           /\ Compactable(WithoutSummaries(ms)) = Compactable(ms)
<1>0. PICK R : R = {m \in Protected : ~IsSummary(m)}
  OBVIOUS
<1>1. PICK o : Lefts(ms, R, o) /\ WithoutSummaries(ms) = o[Len(ms)]
  BY <1>0, ProtectedAmong, LeftDef
<1>2. PICK n : n = Len(ms)
  OBVIOUS
<1>3. /\ n \in Nat /\ o[0] = <<>>
      /\ \A i \in 0..n : o[i] \in Seq(R)
      /\ \A i \in 1..n :
           o[i] = IF IsSummary(ms[i]) THEN o[i - 1] ELSE Append(o[i - 1], ms[i])
  BY <1>1, <1>2 DEF Lefts
<1>4. \A i \in 1..n : Upto(ms, i) = Join(Upto(ms, i - 1), <<ms[i]>>)
  BY <1>2 DEF Upto, Join
<1>5. \A i \in 0..n : Upto(ms, i) \in Seq(Protected)
  BY <1>2, Split
<1>6. \A i \in 1..n : ms[i] \in Protected /\ <<ms[i]>> \in Seq(Protected)
  BY <1>2
<1> DEFINE G == {i \in 0..n : Compactable(o[i]) = Compactable(Upto(ms, i))}
<1>7. 0 \in G
  <2>1. Upto(ms, 0) = <<>>
    BY DEF Upto
  <2> QED
    BY <1>3, <2>1
<1>8. ASSUME NEW i \in 1..n, i - 1 \in G PROVE i \in G
  <2>1. i - 1 \in 0..n /\ i \in 0..n
    BY <1>3
  <2>2. Compactable(o[i - 1]) = Compactable(Upto(ms, i - 1))
    BY <1>8
  <2>3. Compactable(Upto(ms, i))
          = Compactable(Upto(ms, i - 1)) + Compactable(<<ms[i]>>)
        /\ Compactable(Upto(ms, i - 1)) \in Nat
    <3>1. PICK x \in Seq(Protected) : x = Upto(ms, i - 1)
      BY <1>5, <2>1
    <3>2. PICK y \in Seq(Protected) : y = <<ms[i]>>
      BY <1>6
    <3>3. /\ Compactable(x \o y) = Compactable(x) + Compactable(y)
          /\ Compactable(x) \in Nat
      BY CompactableParts
    <3>4. Upto(ms, i) = x \o y
      BY <1>4, <3>1, <3>2 DEF Join
    <3> QED
      BY <3>1, <3>2, <3>3, <3>4
  <2>4. CASE IsSummary(ms[i])
    <3>1. ms[i].role = "system"
      BY <1>6, <2>4, MessageTypes
    <3>2. PICK y \in Seq(Protected) : y = <<ms[i]>> /\ Len(y) = 1 /\ y[1] = ms[i]
      BY <1>6
    <3>3. \A j \in 1..Len(y) : y[j].role \notin CompactableRoles
      BY <3>1, <3>2 DEF CompactableRoles
    <3>4. Compactable(y) = 0
      BY <3>3, CompactableParts
    <3>5. o[i] = o[i - 1]
      BY <1>3, <2>4
    <3> QED
      BY <2>1, <2>2, <2>3, <3>2, <3>4, <3>5
  <2>5. CASE ~IsSummary(ms[i])
    <3>1. PICK x \in Seq(R) : x = o[i - 1]
      BY <1>3, <2>1
    <3>2. PICK m \in R : m = ms[i]
      BY <1>0, <1>6, <2>5
    <3>3. Append(x, m) = x \o <<m>> /\ <<m>> \in Seq(R)
      OBVIOUS
    <3>4. Compactable(x \o <<m>>) = Compactable(x) + Compactable(<<m>>)
      BY <3>3, CompactableParts
    <3>5. o[i] = Append(x, m)
      BY <1>3, <2>5, <3>1, <3>2
    <3> QED
      BY <2>1, <2>2, <2>3, <3>1, <3>2, <3>3, <3>4, <3>5
  <2> QED
    BY <2>4, <2>5
<1> HIDE DEF G
<1>9. 0..n \subseteq G
  BY <1>3, <1>7, <1>8, Induction
<1>10. n \in 0..n /\ Upto(ms, n) = ms
  BY <1>2, SubSeqFull DEF Upto
<1> QED
  BY <1>0, <1>1, <1>2, <1>3, <1>9, <1>10 DEF G

\* A summary behind what is kept of q and before the kept turns is a history.
Rebuild(q, s, kept) == Join(Join(WithoutSummaries(q), <<s>>), kept)

\* A summary that compaction writes.
SummaryMessage(s) ==
    s \in Protected /\ s.role = "system" /\ IsSummary(s)

\* Such a history is calm, paired and has one summary when its parts allow it.
LEMMA Rebuilt ==
    ASSUME NEW q \in Seq(Protected), NEW s, SummaryMessage(s),
           NEW kept \in Seq(OfTurns), Len(kept) > 0, kept[1].role = "user",
           Calm(kept), NEW p, Paired(kept, p)
    PROVE  /\ Rebuild(q, s, kept) \in Seq(MessageSet)
           /\ HistoryOf(Rebuild(q, s, kept),
                        Compactable(q) + Len(kept) + s.count, TRUE, p)
<1>0. PICK R : R = {m \in Protected : ~IsSummary(m)}
  OBVIOUS
<1>1. PICK w \in Seq(R) : w = WithoutSummaries(q)
  BY <1>0, CompactableLeft
<1>2. /\ Compactable(w) = Compactable(q)
      /\ \A i \in 1..Len(w) : ~IsSummary(w[i])
      /\ w \in Seq(Protected) /\ w \in Seq(MessageSet)
  <2>1. R \subseteq Protected
    BY <1>0
  <2>2. w \in Seq(Protected)
    BY <2>1, SeqMonotonic
  <2> QED
    BY <1>0, <1>1, <2>2, CompactableLeft, MessageTypes
<1>3. s \in Protected /\ s \in MessageSet /\ s.role = "system" /\ IsSummary(s)
  BY MessageTypes DEF SummaryMessage
<1>4. PICK y \in Seq(Protected) : y = <<s>> /\ Len(y) = 1 /\ y[1] = s
  <2>1. PICK m \in Protected : m = s
    BY <1>3
  <2>2. <<m>> \in Seq(Protected) /\ Len(<<m>>) = 1 /\ <<m>>[1] = m
    OBVIOUS
  <2> QED
    BY <2>1, <2>2
<1>5. PICK pre \in Seq(Protected) : pre = Join(w, y) /\ Joins(pre, w, y)
  BY <1>2, Joined
<1>6. /\ Len(w) \in Nat /\ Len(pre) = Len(w) + 1 /\ pre[Len(pre)] = s
      /\ \A i \in 1..Len(w) : pre[i] = w[i]
  <2>1. 1 \in 1..Len(y)
    BY <1>4
  <2> QED
    BY <1>4, <1>5, <2>1 DEF Joins
<1>7. pre[Len(pre)].role \notin CompactableRoles
  BY <1>3, <1>6 DEF CompactableRoles
<1>8. PICK ms : ms = Join(pre, kept)
  OBVIOUS
<1>9. Parted(ms, pre, kept)
  BY <1>7, <1>8, PartedJoin
<1>10. \A i \in 1..Len(pre) : IsSummary(pre[i]) => i = Len(pre)
  BY <1>2, <1>6, SMTT(60)
<1>11. OneSummary(pre)
  BY <1>10 DEF OneSummary
<1>12. PreviousCount(pre) = s.count
  <2>1. pre \in Seq(MessageSet) /\ Len(pre) \in 1..Len(pre)
    BY <1>6, MessageTypes
  <2> QED
    BY <1>3, <1>6, <1>11, <2>1, PreviousCountOf
<1>13. Compactable(pre) = Compactable(q)
  <2>1. \A i \in 1..Len(y) : y[i].role \notin CompactableRoles
    BY <1>3, <1>4 DEF CompactableRoles
  <2>2. Compactable(y) = 0
    BY <2>1, CompactableParts
  <2>3. Compactable(w \o y) = Compactable(w) + Compactable(y) /\ Compactable(w) \in Nat
    BY <1>2, CompactableParts
  <2> QED
    BY <1>2, <1>5, <2>2, <2>3 DEF Join
<1>14. Paired(ms, p)
  <2>1. kept \in Seq(MessageSet)
    BY MessageTypes
  <2> QED
    BY <1>8, <2>1, PairedBehind
<1>15. HistoryOf(ms, Compactable(q) + Len(kept) + s.count, TRUE, p)
  <2>1. PICK n : n = Compactable(q) + Len(kept) + s.count
    OBVIOUS
  <2>2. n = Compactable(pre) + Len(kept) + PreviousCount(pre)
    BY <1>12, <1>13, <2>1
  <2>3. HistoryOf(ms, n, TRUE, p)
    BY <1>9, <1>11, <1>14, <2>2, HistoryIs, ZenonT(60)
  <2> QED
    BY <2>1, <2>3
<1>16. Rebuild(q, s, kept) = ms
  BY <1>1, <1>4, <1>5, <1>8 DEF Rebuild
<1> QED
  BY <1>9, <1>15, <1>16 DEF Parted

\* What compaction makes of a history: the parts that it keeps.
LEMMA CutParts ==
    ASSUME NEW ms \in Seq(MessageSet), NEW n, NEW calm, NEW p,
           HistoryOf(ms, n, calm, p), CanCompact(ms)
    PROVE  LET pre == Before(ms)
               kept == From(ms, FirstKept(ms))
           IN  /\ pre \in Seq(Protected)
               /\ kept \in Seq(OfTurns) /\ Len(kept) > 0 /\ kept[1].role = "user"
               /\ Calm(kept) /\ Paired(kept, p)
               /\ SummaryMessage(Summary(ms))
               /\ n = Compactable(pre) + Len(kept) + Summary(ms).count
<1>1. PICK pre, rest : pre = Before(ms) /\ rest = Turns(ms) /\ Parted(ms, pre, rest)
  BY HistoryParted
<1>2. PICK h : h = HistoryStart(ms)
  OBVIOUS
<1>3. PICK c : c = FirstKept(ms)
  OBVIOUS
<1>4. /\ Len(pre) \in Nat /\ Len(rest) \in Nat /\ Len(ms) = Len(pre) + Len(rest)
      /\ \A i \in 1..Len(rest) : ms[Len(pre) + i] = rest[i]
      /\ \A i \in 1..Len(rest) + 1 : From(ms, Len(pre) + i) = From(rest, i)
  BY <1>1 DEF Parted, Joins
<1>5. h = Len(pre) + 1
  BY <1>1, <1>2, PartedAt
<1>6. c > h /\ Cuts(ms, h, c)
  BY <1>2, <1>3, CutDef DEF CanCompact
<1>7. c \in 1..Len(ms) /\ ms[c].role = "user"
      /\ \A j \in 1..Len(ms) : Enough(ms, h, j) => j <= c
  <2>1. c # h
    BY <1>4, <1>5, <1>6
  <2> QED
    BY <1>6, <2>1 DEF Cuts, Enough
<1>8. PICK k \in Nat : c = Len(pre) + (k + 1) /\ k > 0 /\ k + 1 \in 1..Len(rest)
  <2>1. c - h \in Nat /\ c = Len(pre) + ((c - h) + 1) /\ c - h > 0
        /\ (c - h) + 1 \in 1..Len(rest)
    BY <1>4, <1>5, <1>6, <1>7
  <2> QED
    BY <2>1
<1>9. k + 1 \in 1..Len(rest) + 1 /\ k \in 0..Len(rest)
  BY <1>4, <1>8
<1>10. PICK front \in Seq(OfTurns), kept \in Seq(OfTurns) :
           /\ kept = From(rest, k + 1) /\ Len(front) = k /\ rest = Join(front, kept)
           /\ Len(kept) = Len(rest) - k
           /\ \A i \in 1..Len(rest) - k : kept[i] = rest[k + i]
  <2>1. rest \in Seq(OfTurns)
    BY <1>1 DEF Parted
  <2>2. /\ Upto(rest, k) \in Seq(OfTurns) /\ Len(Upto(rest, k)) = k
        /\ From(rest, k + 1) \in Seq(OfTurns)
        /\ Len(From(rest, k + 1)) = Len(rest) - k
        /\ \A i \in 1..Len(rest) - k : From(rest, k + 1)[i] = rest[k + i]
        /\ rest = Join(Upto(rest, k), From(rest, k + 1))
    BY <1>9, <2>1, Split
  <2> QED
    BY <2>2
<1>11. From(ms, c) = kept
  BY <1>4, <1>8, <1>9, <1>10
<1>13. Len(kept) > 0 /\ Len(kept) \in Nat /\ kept[1].role = "user"
  <2>1. 1 \in 1..Len(rest) - k
    BY <1>4, <1>8
  <2> QED
    BY <1>4, <1>7, <1>8, <1>10, <2>1
<1>14. Calm(kept)
  <2> SUFFICES ASSUME NEW i \in 2..Len(kept), kept[i].role = "user",
                      Sum(From(kept, i)) >= KeepRecent
               PROVE  FALSE
    BY DEF Calm
  <2>1. /\ i \in 1..Len(rest) - k /\ k + i \in 1..Len(rest)
        /\ Len(pre) + (k + i) \in 1..Len(ms) /\ Len(pre) + (k + i) > c
        /\ Len(pre) + (k + i) > h
    BY <1>4, <1>5, <1>8, <1>10, SMTT(60)
  <2>2. ms[Len(pre) + (k + i)] = kept[i]
    BY <1>4, <1>10, <2>1
  <2>3. From(ms, Len(pre) + (k + i)) = From(kept, i)
    <3>2. Joins(rest, front, kept)
      BY <1>10, Joined
    <3>3. i \in 1..Len(kept) + 1
      BY <1>13
    <3>4. From(rest, k + i) = From(kept, i)
      BY <1>10, <3>2, <3>3 DEF Joins
    <3>5. k + i \in 1..Len(rest) + 1
      BY <1>4, <2>1
    <3> QED
      BY <1>4, <3>4, <3>5
  <2>4. KeepsEnough(ms, Len(pre) + (k + i))
    BY <2>3 DEF KeepsEnough, From
  <2>5. Enough(ms, h, Len(pre) + (k + i))
    BY <2>1, <2>2, <2>4 DEF Enough
  <2>6. Len(pre) + (k + i) <= c
    BY <1>7, <2>1, <2>5
  <2> QED
    BY <1>4, <1>8, <2>1, <2>6, SMTT(60)
<1>15. Paired(kept, p)
  <2>1. PICK d \in Nat : c = d + 1 /\ d \in 0..Len(ms) /\ ms[d + 1].role = "user"
    <3>1. c - 1 \in Nat /\ c = (c - 1) + 1 /\ c - 1 \in 0..Len(ms)
      BY <1>7
    <3> QED
      BY <1>7, <3>1
  <2>2. Paired(ms, p)
    BY DEF HistoryOf
  <2>3. Paired(From(ms, d + 1), p)
    BY <2>1, <2>2, PairedFrom
  <2> QED
    BY <1>11, <2>1, <2>3
<1>16. OneSummary(pre) /\ n = Compactable(pre) + Len(rest) + PreviousCount(pre)
  BY <1>1, HistoryIs
<1>17. Compactable(pre) \in Nat /\ PreviousCount(pre) \in Nat /\ pre \in Seq(Protected)
  <2>1. pre \in Seq(Protected) /\ pre \in Seq(MessageSet)
    BY <1>1, MessageTypes DEF Parted
  <2> QED
    BY <1>16, <2>1, CompactableParts, PreviousCountOf
<1>18. PICK m : m = PreviousCount(pre) + k
  OBVIOUS
<1>19. Summary(ms) = Message("system", ReplySize, 0, NoUsage, m)
  <2>1. SubSeq(ms, 1, h - 1) = pre
    BY <1>1, <1>2 DEF Before
  <2>2. Summary(ms) =
          Message("system", ReplySize, 0, NoUsage, PreviousCount(pre) + c - h)
    BY <1>2, <1>3, <2>1 DEF Summary
  <2>3. PreviousCount(pre) + c - h = m
    BY <1>4, <1>5, <1>8, <1>17, <1>18
  <2> QED
    BY <2>2, <2>3
<1>20. m \in Nat /\ m > 0
  BY <1>8, <1>17, <1>18
<1>21. ReplySize \in Nat
  BY BudgetAssumption
<1>22. Summary(ms).count = m /\ SummaryMessage(Summary(ms))
  BY <1>19, <1>20, <1>21
     DEF Message, SummaryMessage, Protected, MessageSet, Roles, NoUsage, IsSummary
<1>23. n = Compactable(pre) + Len(kept) + m
  <2>1. PICK a \in Nat, b \in Nat, l \in Nat :
            a = Compactable(pre) /\ b = PreviousCount(pre) /\ l = Len(rest)
    BY <1>4, <1>17
  <2>2. n = a + l + b /\ m = b + k /\ Len(kept) = l - k
    BY <1>10, <1>16, <1>18, <2>1
  <2>3. a + l + b = a + (l - k) + (b + k)
    OBVIOUS
  <2> QED
    BY <2>1, <2>2, <2>3
<1> QED
  BY <1>1, <1>3, <1>11, <1>13, <1>14, <1>15, <1>17, <1>22, <1>23

\* The compaction of a history, for the agent and for its session.
LEMMA Compacted ==
    ASSUME NEW ms \in Seq(MessageSet), NEW n, NEW calm, NEW p,
           HistoryOf(ms, n, calm, p), CanCompact(ms)
    PROVE  LET state == CompactedState(ms)
               session == CompactedSession(ms)
           IN  /\ state \in Seq(MessageSet) /\ session \in Seq(MessageSet)
               /\ Len(session) > 0
               /\ HistoryOf(state, n, TRUE, p)
               /\ HistoryOf(session, n, TRUE, p)
               /\ Trim(state) = Trim(session)
<1>1. PICK pre, rest : pre = Before(ms) /\ rest = Turns(ms) /\ Parted(ms, pre, rest)
  BY HistoryParted
<1>2. PICK kept : kept = From(ms, FirstKept(ms))
  OBVIOUS
<1>3. PICK s : s = Summary(ms)
  OBVIOUS
<1>4. /\ pre \in Seq(Protected)
      /\ kept \in Seq(OfTurns) /\ Len(kept) > 0 /\ kept[1].role = "user"
      /\ Calm(kept) /\ Paired(kept, p)
      /\ SummaryMessage(s)
      /\ n = Compactable(pre) + Len(kept) + s.count
  BY <1>1, <1>2, <1>3, CutParts
<1>5. /\ Len(pre) \in Nat /\ Len(rest) \in Nat /\ Len(ms) = Len(pre) + Len(rest)
      /\ \A i \in 1..Len(pre) : ms[i] = pre[i]
      /\ \A i \in 1..Len(rest) : ms[Len(pre) + i] = rest[i]
      /\ HistoryStart(ms) = Len(pre) + 1
  BY <1>1, PartedAt DEF Parted, Joins
<1>6. PICK l : l = LeadingSystem(ms)
  OBVIOUS
<1>7. Leads(ms, l)
  BY <1>6, Leading
<1>8. l \in 0..Len(pre)
  <2>1. ASSUME l > Len(pre) PROVE FALSE
    <3>1. l \in 1..l /\ l \in 1..Len(ms) /\ l - Len(pre) \in 1..Len(rest)
          /\ Len(pre) + (l - Len(pre)) = l
      BY <1>5, <1>7, <2>1 DEF Leads
    <3>2. ms[l].role = "system"
      BY <1>7, <3>1 DEF Leads
    <3>3. rest[l - Len(pre)].role \in CompactableRoles
      BY <1>1, <3>1, MessageTypes DEF Parted
    <3>4. ms[l] = rest[l - Len(pre)]
      BY <1>5, <3>1
    <3> QED
      BY <3>2, <3>3, <3>4 DEF CompactableRoles
  <2> QED
    BY <1>5, <1>7, <2>1 DEF Leads
<1>9. PICK lead \in Seq(Protected), mid \in Seq(Protected) :
          /\ Len(lead) = l /\ \A i \in 1..l : lead[i] = pre[i]
          /\ mid = From(pre, l + 1) /\ Len(mid) = Len(pre) - l
          /\ \A i \in 1..Len(pre) - l : mid[i] = pre[l + i]
          /\ pre = Join(lead, mid)
  <2>1. /\ Upto(pre, l) \in Seq(Protected) /\ Len(Upto(pre, l)) = l
        /\ From(pre, l + 1) \in Seq(Protected)
        /\ Len(From(pre, l + 1)) = Len(pre) - l
        /\ \A i \in 1..l : Upto(pre, l)[i] = pre[i]
        /\ \A i \in 1..Len(pre) - l : From(pre, l + 1)[i] = pre[l + i]
        /\ pre = Join(Upto(pre, l), From(pre, l + 1))
    BY <1>4, <1>8, Split, ZenonT(60)
  <2> QED
    BY <2>1
<1>10. \A i \in 1..Len(lead) : lead[i].role = "system"
  <2>1. \A i \in 1..l : i \in 1..Len(pre)
    BY <1>5, <1>8
  <2> QED
    BY <1>5, <1>7, <1>9, <2>1, SMTT(60) DEF Leads
<1>11. SubSeq(ms, l + 1, Len(pre)) = mid
  <2>1. \A i \in l + 1 .. Len(pre) : ms[i] = pre[i] /\ i \in 1..Len(pre)
    BY <1>5, <1>8
  <2>2. \A i \in 1..Len(pre) : pre[i] \in Protected
    BY <1>4
  <2>3. \A i \in l + 1 .. Len(pre) : ms[i] \in Protected
    BY <2>1, <2>2
  <2>4. l + 1 \in Int /\ Len(pre) \in Int
    BY <1>5, <1>8
  <2>5. PICK z : z = SubSeq(ms, l + 1, Len(pre))
    OBVIOUS
  <2>6. /\ z \in Seq(Protected)
        /\ Len(z) = IF l + 1 <= Len(pre) THEN Len(pre) - (l + 1) + 1 ELSE 0
        /\ \A i \in 1 .. Len(pre) - (l + 1) + 1 : z[i] = ms[l + 1 + i - 1]
    BY <2>3, <2>4, <2>5, SubSeqProperties
  <2>7. Len(z) = Len(mid)
    BY <1>5, <1>8, <1>9, <2>6
  <2>8. ASSUME NEW i \in 1..Len(mid) PROVE z[i] = mid[i]
    <3>1. i \in 1 .. Len(pre) - (l + 1) + 1 /\ l + 1 + i - 1 = l + i
          /\ i \in 1..Len(pre) - l /\ l + i \in 1..Len(pre)
      BY <1>5, <1>8, <1>9
    <3> QED
      BY <1>5, <1>9, <2>6, <3>1, ZenonT(60)
  <2> QED
    BY <2>5, <2>6, <2>7, <2>8, SeqEqual
<1>12. CompactedState(ms) = Rebuild(pre, s, kept)
  BY <1>1, <1>2, <1>3 DEF CompactedState, Rebuild, Join, Before, From
<1>13. CompactedSession(ms) = Rebuild(mid, s, kept)
  <2>1. HistoryStart(ms) - 1 = Len(pre)
    BY <1>5
  <2> QED
    BY <1>2, <1>3, <1>6, <1>11, <2>1 DEF CompactedSession, Rebuild, Join, From
<1>14. Compactable(mid) = Compactable(pre)
  <2>1. \A i \in 1..Len(lead) : lead[i].role \notin CompactableRoles
    BY <1>10 DEF CompactableRoles
  <2>2. Compactable(lead) = 0
    BY <2>1, CompactableParts
  <2>3. Compactable(lead \o mid) = Compactable(lead) + Compactable(mid)
        /\ Compactable(mid) \in Nat
    BY CompactableParts
  <2>4. pre = lead \o mid
    BY <1>9 DEF Join
  <2> QED
    BY <2>2, <2>3, <2>4
<1>15. PICK a \in Seq(MessageSet), b \in Seq(MessageSet), y \in Seq(MessageSet) :
           /\ a = WithoutSummaries(lead) /\ b = WithoutSummaries(mid) /\ y = <<s>>
           /\ WithoutSummaries(pre) = Join(a, b)
           /\ \A i \in 1..Len(a) : a[i].role = "system"
  <2>1. PICK T : T = {m \in MessageSet : m.role = "system"}
    OBVIOUS
  <2>2. lead \in Seq(T)
    <3>1. lead \in Seq(MessageSet)
      BY MessageTypes
    <3>2. \A i \in 1..Len(lead) : lead[i] \in T
      BY <1>10, <2>1, <3>1
    <3> QED
      BY <3>1, <3>2
  <2>3. PICK U : U = {m \in T : ~IsSummary(m)}
    OBVIOUS
  <2>4. WithoutSummaries(lead) \in Seq(U)
    BY <2>1, <2>2, <2>3, LeftConcat
  <2>5. \A m \in U : m \in MessageSet /\ m.role = "system"
    BY <2>1, <2>3
  <2>6. PICK a \in Seq(U) : a = WithoutSummaries(lead)
    BY <2>4
  <2>7. a \in Seq(MessageSet) /\ \A i \in 1..Len(a) : a[i].role = "system"
    BY <2>5
  <2>8. WithoutSummaries(mid) \in Seq({m \in Protected : ~IsSummary(m)})
    BY CompactableLeft
  <2>9. {m \in Protected : ~IsSummary(m)} \subseteq MessageSet
    BY MessageTypes
  <2>10. WithoutSummaries(mid) \in Seq(MessageSet)
    BY <2>8, <2>9, SeqMonotonic
  <2>11. s \in MessageSet
    BY <1>4, MessageTypes DEF SummaryMessage
  <2>12. PICK z \in MessageSet : z = s
    BY <2>11
  <2>13. <<z>> \in Seq(MessageSet)
    OBVIOUS
  <2>14. WithoutSummaries(lead \o mid)
           = WithoutSummaries(lead) \o WithoutSummaries(mid)
    BY ProtectedAmong, LeftConcat
  <2>15. WithoutSummaries(pre) = Join(WithoutSummaries(lead), WithoutSummaries(mid))
    BY <1>9, <2>14 DEF Join
  <2> QED
    BY <2>6, <2>7, <2>10, <2>12, <2>13, <2>15
<1>16. Trim(Rebuild(pre, s, kept)) = Trim(Rebuild(mid, s, kept))
  <2>1. PICK k \in Seq(MessageSet) : k = kept
    BY <1>4, MessageTypes
  <2>2. PICK v \in Seq(MessageSet) : v = Join(b, y)
    BY Joined
  <2>3. PICK w \in Seq(MessageSet) : w = Join(v, k)
    BY Joined
  <2>4. Join(Join(a, b), y) = Join(a, v)
    BY <2>2, JoinedLaws
  <2>5. Join(Join(a, v), k) = Join(a, w)
    BY <2>3, JoinedLaws
  <2>6. Rebuild(pre, s, kept) = Join(a, w)
    BY <1>15, <2>1, <2>4, <2>5 DEF Rebuild
  <2>7. Rebuild(mid, s, kept) = w
    BY <1>15, <2>1, <2>2, <2>3 DEF Rebuild
  <2>8. Trim(Join(a, w)) = Trim(w)
    BY <1>15, TrimInFront
  <2> QED
    BY <2>6, <2>7, <2>8
<1>17. /\ Rebuild(pre, s, kept) \in Seq(MessageSet)
       /\ HistoryOf(Rebuild(pre, s, kept), n, TRUE, p)
  BY <1>4, Rebuilt
<1>18. /\ Rebuild(mid, s, kept) \in Seq(MessageSet)
       /\ HistoryOf(Rebuild(mid, s, kept), n, TRUE, p)
  BY <1>4, <1>14, Rebuilt
<1>19. Len(Rebuild(mid, s, kept)) > 0
  <2>1. PICK k \in Seq(MessageSet) : k = kept
    BY <1>4, MessageTypes
  <2>2. PICK v \in Seq(MessageSet) : v = Join(b, y)
    BY Joined
  <2>3. Joins(Join(v, k), v, k)
    BY Joined
  <2>4. Len(Join(v, k)) = Len(v) + Len(k) /\ Len(v) \in Nat
    BY <2>3 DEF Joins
  <2>5. Rebuild(mid, s, kept) = Join(v, k)
    BY <1>15, <2>1, <2>2 DEF Rebuild
  <2>6. Len(k) > 0 /\ Len(k) \in Nat
    BY <1>4, <2>1
  <2> QED
    BY <2>4, <2>5, <2>6
<1> QED
  BY <1>12, <1>13, <1>16, <1>17, <1>18, <1>19

-----------------------------------------------------------------------------
(* The steps.                                                              *)

\* The history of the agent and that of its session in the terms of the lemmas.
LEMMA InTerms ==
    /\ SessionMessages = Join(compacted, tail)
    /\ \A ms, of : SameConversation(ms, of) <=> Trim(ms) = Trim(of)
    /\ (SubSeq(messages, 1, Prompts) = PromptMessages) <=>
         (Upto(messages, Prompts) = PromptMessages)
  BY DEF SessionMessages, SameConversation, Join, Trim, From, Upto

\* A history that begins with the prompts is joined from them.
LEMMA PromptsFirst ==
    ASSUME NEW ms \in Seq(MessageSet), NEW a \in Seq(MessageSet)
    PROVE  /\ Upto(Join(PromptMessages, a), Prompts) = PromptMessages
           /\ Prompts <= Len(Join(PromptMessages, a))
           /\ (Upto(ms, Prompts) = PromptMessages /\ Prompts <= Len(ms)) =>
                \E own \in Seq(MessageSet) : ms = Join(PromptMessages, own)
<1>1. Joins(Join(PromptMessages, a), PromptMessages, a)
  BY PromptTypes, Joined
<1>2. Len(PromptMessages) = Prompts /\ Prompts \in Nat
  BY PromptTypes
<1>3. Upto(Join(PromptMessages, a), Prompts) = PromptMessages
      /\ Prompts <= Len(Join(PromptMessages, a))
  BY <1>1, <1>2 DEF Joins
<1>4. ASSUME Upto(ms, Prompts) = PromptMessages, Prompts <= Len(ms)
      PROVE  \E own \in Seq(MessageSet) : ms = Join(PromptMessages, own)
  <2>1. Prompts \in 0..Len(ms)
    BY <1>2, <1>4
  <2>2. ms = Join(Upto(ms, Prompts), From(ms, Prompts + 1))
        /\ From(ms, Prompts + 1) \in Seq(MessageSet)
    BY <2>1, Split
  <2> QED
    BY <1>4, <2>2
<1> QED
  BY <1>3, <1>4

\* Only plain messages are in a history made by hand.
LEMMA HandMadeHistory ==
    ASSUME NEW history \in HandMade, NEW p
    PROVE  /\ history \in Seq(MessageSet) /\ Compactable(history) \in Nat
           /\ HistoryOf(history, Compactable(history), FALSE, p)
<1> DEFINE Plains == {Plain(r, 1) : r \in {"system", "custom", "user", "assistant"}}
<1>1. PICK n \in 0..MaxHandMade : history \in [1..n -> Plains]
  BY DEF HandMade
<1>2. MaxHandMade \in Nat
  BY BudgetAssumption
<1>3. history \in Seq(Plains)
  BY <1>1, <1>2
<1>4. \A m \in Plains : /\ m \in MessageSet /\ m.role # "tool" /\ m.calls = 0
                        /\ ~IsSummary(m)
  BY DEF Plain, Message, MessageSet, Roles, CompactableRoles, NoUsage, IsSummary
<1> HIDE DEF Plains
<1>5. history \in Seq(MessageSet)
  <2>1. Plains \subseteq MessageSet
    BY <1>4
  <2> QED
    BY <1>3, <2>1, SeqMonotonic
<1>6. PICK h : h = HistoryStart(history)
  OBVIOUS
<1>7. Starts(history, h)
  BY <1>5, <1>6, StartDef
<1>8. PICK k : k = h - 1
  OBVIOUS
<1>9. h \in 1..Len(history) + 1 /\ Len(history) \in Nat /\ k + 1 = h
      /\ k \in 0..Len(history)
  <2>1. h \in 1..Len(history) + 1 /\ Len(history) \in Nat
    BY <1>3, <1>7 DEF Starts
  <2> QED
    BY <1>8, <2>1
<1>10. PICK pre \in Seq(Plains), rest \in Seq(Plains) :
           /\ pre = Before(history) /\ rest = Turns(history) /\ Len(pre) = k
           /\ Len(rest) = Len(history) - k
           /\ \A i \in 1..Len(history) - k : rest[i] = history[k + i]
  <2>1. /\ Upto(history, k) \in Seq(Plains) /\ Len(Upto(history, k)) = k
        /\ From(history, k + 1) \in Seq(Plains)
        /\ Len(From(history, k + 1)) = Len(history) - k
        /\ \A i \in 1..Len(history) - k : From(history, k + 1)[i] = history[k + i]
    BY <1>3, <1>9, Split
  <2>2. Before(history) = Upto(history, k) /\ Turns(history) = From(history, k + 1)
    BY <1>6, <1>8, <1>9 DEF Before, Turns, Upto, From
  <2> QED
    BY <2>1, <2>2
<1>11. pre \in Seq(Protected) /\ \A i \in 1..Len(pre) : ~IsSummary(pre[i])
  <2>1. \A m \in Plains : m \in Protected
    BY <1>4 DEF Protected
  <2>2. pre \in Seq(Protected)
    BY <2>1, SeqMonotonic
  <2> QED
    BY <1>4, <2>2
<1>12. rest \in Seq(OfTurns)
  <2>1. ASSUME NEW i \in 1..Len(rest) PROVE rest[i] \in OfTurns
    <3>1. i \in 1..Len(history) - k /\ k + i \in h..Len(history) /\ rest[i] \in Plains
      BY <1>9, <1>10
    <3>2. rest[i].role \in CompactableRoles
      BY <1>7, <1>10, <3>1 DEF Starts
    <3> QED
      BY <1>4, <3>1, <3>2 DEF OfTurns
  <2> QED
    BY <2>1
<1>13. OneSummary(pre) /\ PreviousCount(pre) = 0
  <2>1. OneSummary(pre)
    BY <1>11 DEF OneSummary
  <2> QED
    BY <1>11, <2>1, PreviousCountOf, MessageTypes
<1>14. Paired(history, p)
  <2>1. \A i \in 1..Len(history) :
          history[i].role # "tool" /\ history[i].calls = 0
    BY <1>3, <1>4
  <2>2. ASSUME NEW i \in 1..Len(history) PROVE Answered(history, i, 0, p)
    <3>1. i + 0 <= Len(history) /\ i + 1 > i + 0
      BY <1>9
    <3>2. i + 0 < Len(history) => history[i + 0 + 1].role # "tool"
      <4>1. i < Len(history) => i + 0 + 1 \in 1..Len(history)
        BY <1>9
      <4> QED
        BY <2>1, <4>1
    <3>3. Ends(history, i, 0, p, 0) /\ 0 \in 0..0
      BY <3>1, <3>2 DEF Ends
    <3> QED
      BY <3>3, AnsweredIs
  <2> QED
    BY <2>1, <2>2 DEF Paired
<1>15. Compactable(history) \in Nat
  BY <1>5, CompactableParts
<1>16. PICK c \in Nat : c = Compactable(history)
  BY <1>15
<1>17. c = Compactable(history) + PreviousCount(Before(history))
  BY <1>10, <1>13, <1>16
<1>18. /\ Before(history) \in Seq(Protected) /\ Turns(history) \in Seq(OfTurns)
       /\ OneSummary(Before(history))
  BY <1>10, <1>11, <1>12, <1>13
<1>19. HistoryOf(history, c, FALSE, p)
  BY <1>14, <1>17, <1>18 DEF HistoryOf
<1> QED
  BY <1>5, <1>15, <1>16, <1>19

\* The session begins with no messages.
LEMMA EmptyHistory ==
    ASSUME NEW p
    PROVE  <<>> \in Seq(MessageSet) /\ HistoryOf(<<>>, 0, FALSE, p)
<1>1. <<>> \in HandMade
  <2>1. 0 \in 0..MaxHandMade
    BY BudgetAssumption
  <2>2. <<>> \in [1..0 -> {Plain(r, 1) : r \in {"system", "custom", "user",
                                                "assistant"}}]
    OBVIOUS
  <2> QED
    BY <2>1, <2>2 DEF HandMade
<1>2. <<>> \in Seq(MessageSet) /\ Len(<<>>) = 0
  OBVIOUS
<1>3. Compactable(<<>>) = 0
  <2>1. \A i \in 1..Len(<<>>) : <<>>[i].role \notin CompactableRoles
    BY <1>2
  <2> QED
    BY <1>2, <2>1, CompactableParts
<1> QED
  BY <1>1, <1>2, <1>3, HandMadeHistory

\* The initial states satisfy the invariant.
LEMMA InvInit == Init => IInv
<1> SUFFICES ASSUME Init PROVE IInv
  OBVIOUS
<1>1. PICK history \in HandMade :
          /\ messages = PromptMessages \o history
          /\ made = [agent |-> Compactable(history), session |-> 0]
          /\ apart = (history # <<>>)
  BY DEF Init
<1>2. PICK p : p = (phase # "model")
  OBVIOUS
<1>3. /\ history \in Seq(MessageSet) /\ Compactable(history) \in Nat
      /\ HistoryOf(history, Compactable(history), FALSE, p)
  BY HandMadeHistory
<1>4. messages = Join(PromptMessages, history)
  BY <1>1 DEF Join
<1>5. messages \in Seq(MessageSet)
  BY <1>3, <1>4, PromptTypes, Joined
<1>6. HistoryOf(messages, Compactable(history), FALSE, p)
  BY <1>3, <1>4, HistoryRestored
<1>7. /\ tail = <<>> /\ compacted = <<>> /\ event = <<>> /\ phase = "idle"
      /\ heard = FALSE /\ produced = 0 /\ reports \in BOOLEAN
      /\ settled = [agent |-> FALSE, session |-> FALSE]
  BY DEF Init
<1>8. <<>> \in Seq(MessageSet)
  OBVIOUS
<1>9. SessionMessages = <<>>
  <2>1. SessionMessages = Join(<<>>, <<>>)
    BY <1>7, InTerms
  <2> QED
    BY <1>8, <2>1, JoinedLaws
<1>10. TypeOK
  <2>1. Upto(messages, Prompts) = PromptMessages /\ Prompts <= Len(messages)
    BY <1>3, <1>4, PromptsFirst
  <2>2. SubSeq(messages, 1, Prompts) = PromptMessages
    BY <2>1 DEF Upto
  <2>3. made \in [agent : Nat, session : Nat]
    BY <1>1, <1>3
  <2>4. settled \in [agent : BOOLEAN, session : BOOLEAN]
    BY <1>7
  <2>5. {heard, reports, apart} \subseteq BOOLEAN
    BY <1>1, <1>7
  <2> QED
    BY <1>5, <1>7, <1>8, <2>1, <2>2, <2>3, <2>4, <2>5 DEF TypeOK
<1>11. HistoryOf(messages, made.agent, settled.agent, phase # "model")
  <2>1. made.agent = Compactable(history) /\ settled.agent = FALSE
    BY <1>1, <1>7
  <2> QED
    BY <1>2, <1>6, <2>1
<1>12. HistoryOf(SessionMessages, made.session, settled.session,
                 phase # "model" \/ ~heard)
  <2>1. made.session = 0 /\ settled.session = FALSE
    BY <1>1, <1>7
  <2> QED
    BY <1>9, <2>1, EmptyHistory
<1>13. EventFollows /\ InBatch
  BY <1>7 DEF EventFollows, InBatch
<1>14. SessionFollowsState
  <2> SUFFICES ASSUME ~apart PROVE Trim(messages) = Trim(SessionMessages)
    BY InTerms DEF SessionFollowsState
  <2>1. history = <<>>
    BY <1>1
  <2>2. \A i \in 1..Len(PromptMessages) : PromptMessages[i].role = "system"
    BY PromptTypes
  <2>3. Trim(Join(PromptMessages, history)) = Trim(history)
    BY <1>3, <2>2, PromptTypes, TrimInFront
  <2> QED
    BY <1>4, <1>9, <2>1, <2>3
<1> QED
  BY <1>10, <1>11, <1>12, <1>13, <1>14 DEF IInv

\* What is known of a state in which the invariant holds.
LEMMA Histories ==
    ASSUME IInv
    PROVE  /\ messages \in Seq(MessageSet) /\ SessionMessages \in Seq(MessageSet)
           /\ tail \in Seq(MessageSet) /\ compacted \in Seq(MessageSet)
           /\ event \in Seq(MessageSet)
           /\ made.agent \in Nat /\ made.session \in Nat
           /\ made = [agent |-> made.agent, session |-> made.session]
           /\ settled.agent \in BOOLEAN /\ settled.session \in BOOLEAN
           /\ settled = [agent |-> settled.agent, session |-> settled.session]
           /\ Paired(messages, phase # "model")
           /\ Paired(SessionMessages, phase # "model" \/ ~heard)
<1>1. /\ tail \in Seq(MessageSet) /\ compacted \in Seq(MessageSet)
      /\ event \in Seq(MessageSet) /\ messages \in Seq(MessageSet)
      /\ made \in [agent : Nat, session : Nat]
      /\ settled \in [agent : BOOLEAN, session : BOOLEAN]
  BY DEF IInv, TypeOK
<1>2. SessionMessages \in Seq(MessageSet)
  BY <1>1, InTerms, Joined
<1>3. Paired(messages, phase # "model")
      /\ Paired(SessionMessages, phase # "model" \/ ~heard)
  BY DEF IInv, HistoryOf
<1> QED
  BY <1>1, <1>2, <1>3

\* Messages of a run are added to the histories, each with its own.
LEMMA InvProduce ==
    ASSUME IInv, event = <<>>, NEW new \in Seq(OfTurns), NEW told \in Seq(OfTurns),
           Produce(new, told),
           phase' \in {"idle", "model", "tools"}, heard' \in BOOLEAN,
           Paired(Join(messages, new), phase' # "model"),
           Paired(Join(SessionMessages, told), phase' # "model" \/ ~heard'),
           phase' = "tools" => /\ Len(new) > 0
                               /\ new[Len(new)].role = "assistant"
                               /\ heard' => told = new
    PROVE  IInv'
<1>1. /\ messages \in Seq(MessageSet) /\ tail \in Seq(MessageSet)
      /\ compacted \in Seq(MessageSet) /\ produced \in Nat
      /\ reports \in BOOLEAN /\ apart \in BOOLEAN /\ Prompts <= Len(messages)
      /\ Upto(messages, Prompts) = PromptMessages
      /\ HistoryOf(messages, made.agent, settled.agent, phase # "model")
      /\ HistoryOf(SessionMessages, made.session, settled.session,
                   phase # "model" \/ ~heard)
      /\ SessionFollowsState
  BY InTerms DEF IInv, TypeOK
<1>2. /\ messages' = Join(messages, new) /\ produced' = produced + Len(new)
      /\ tail' = Join(tail, told)
      /\ made' = [agent |-> made.agent + Len(new),
                  session |-> made.session + Len(told)]
      /\ settled' = [agent |-> settled.agent /\ Len(new) = 0,
                     session |-> settled.session /\ Len(told) = 0]
      /\ apart' = (apart \/ new # told)
      /\ compacted' = compacted /\ reports' = reports /\ event' = <<>>
  BY DEF Produce, Join
<1>3. /\ new \in Seq(MessageSet) /\ Len(new) \in Nat
      /\ told \in Seq(MessageSet) /\ Len(told) \in Nat
      /\ \A i \in 1..Len(new) : new[i].role # "system"
  <2>1. \A i \in 1..Len(new) : new[i].role \in CompactableRoles
    BY MessageTypes
  <2>2. \A i \in 1..Len(new) : new[i].role # "system"
    BY <2>1 DEF CompactableRoles
  <2>3. new \in Seq(MessageSet) /\ Len(new) \in Nat
    BY MessageTypes
  <2>4. told \in Seq(MessageSet) /\ Len(told) \in Nat
    BY MessageTypes
  <2> QED
    BY <2>2, <2>3, <2>4
<1>4. messages' \in Seq(MessageSet) /\ Joins(messages', messages, new)
  BY <1>1, <1>2, <1>3, Joined
<1>5. tail' \in Seq(MessageSet)
  BY <1>1, <1>2, <1>3, Joined
<1>6. /\ SessionMessages' = Join(SessionMessages, told)
      /\ SessionMessages \in Seq(MessageSet)
  <2>1. /\ SessionMessages = Join(compacted, tail)
        /\ SessionMessages' = Join(compacted', tail')
    BY DEF SessionMessages, Join
  <2>2. Join(Join(compacted, tail), told) = Join(compacted, Join(tail, told))
    BY <1>1, <1>3, JoinedLaws
  <2> QED
    BY <1>1, <1>2, <2>1, <2>2, Joined
<1>7. TypeOK'
  <2>1. PICK own \in Seq(MessageSet) : messages = Join(PromptMessages, own)
    BY <1>1, PromptsFirst
  <2>2. messages' = Join(PromptMessages, Join(own, new))
    BY <1>2, <1>3, <2>1, PromptTypes, JoinedLaws
  <2>3. Join(own, new) \in Seq(MessageSet)
    BY <1>3, Joined
  <2>4. Upto(messages', Prompts) = PromptMessages /\ Prompts <= Len(messages')
    BY <2>2, <2>3, PromptsFirst
  <2>5. produced' \in Nat
    BY <1>1, <1>2, <1>3
  <2>6. SubSeq(messages', 1, Prompts) = PromptMessages
    BY <2>4 DEF Upto
  <2>7. PromptMessages' = PromptMessages
    BY DEF PromptMessages
  <2>8. made' \in [agent : Nat, session : Nat]
    <3>1. made.agent + Len(new) \in Nat /\ made.session + Len(told) \in Nat
      BY <1>3, Histories
    <3> QED
      BY <1>2, <3>1
  <2>9. settled' \in [agent : BOOLEAN, session : BOOLEAN]
    <3>1. /\ (settled.agent /\ Len(new) = 0) \in BOOLEAN
          /\ (settled.session /\ Len(told) = 0) \in BOOLEAN
      OBVIOUS
    <3>2. PICK x \in BOOLEAN, y \in BOOLEAN : settled' = [agent |-> x, session |-> y]
      BY <1>2, <3>1, Zenon
    <3> QED
      BY <3>2
  <2>10. {heard', reports', apart'} \subseteq BOOLEAN
    <3>1. apart' \in BOOLEAN
      BY <1>2, Zenon
    <3> QED
      BY <1>1, <1>2, <3>1
  <2>11. {tail', compacted', event'} \subseteq Seq(MessageSet)
    <3>1. <<>> \in Seq(MessageSet)
      OBVIOUS
    <3> QED
      BY <1>1, <1>2, <1>5, <3>1
  <2> QED
    BY <1>4, <2>4, <2>5, <2>6, <2>7, <2>8, <2>9, <2>10, <2>11 DEF TypeOK
<1>8. HistoryOf(messages', made'.agent, settled'.agent, phase' # "model")
  <2>1. HistoryOf(Join(messages, new), made.agent + Len(new),
                  settled.agent /\ Len(new) = 0, phase' # "model")
    BY <1>1, Histories, HistoryProduced
  <2>2. made'.agent = made.agent + Len(new)
    BY <1>2
  <2>3. settled'.agent = (settled.agent /\ Len(new) = 0)
    BY <1>2, Zenon
  <2> QED
    BY <1>2, <2>1, <2>2, <2>3
<1>9. HistoryOf(SessionMessages', made'.session, settled'.session,
                phase' # "model" \/ ~heard')
  <2>1. HistoryOf(Join(SessionMessages, told), made.session + Len(told),
                  settled.session /\ Len(told) = 0, phase' # "model" \/ ~heard')
    BY <1>1, <1>6, Histories, HistoryProduced
  <2>2. made'.session = made.session + Len(told)
    BY <1>2
  <2>3. settled'.session = (settled.session /\ Len(told) = 0)
    BY <1>2, Zenon
  <2> QED
    BY <1>6, <2>1, <2>2, <2>3
<1>10. SessionFollowsState'
  <2> SUFFICES ASSUME ~apart' PROVE Trim(messages') = Trim(SessionMessages')
    BY DEF SessionFollowsState, SameConversation, LeadingSystem, Trim, From
  <2>0. ~apart /\ new = told
    BY <1>2
  <2>1. Trim(messages) = Trim(SessionMessages)
    BY <1>1, <2>0, InTerms DEF SessionFollowsState
  <2>2. Trim(Join(messages, new)) = Join(Trim(messages), new)
    BY <1>1, <1>3, TrimAtEnd
  <2>3. Trim(Join(SessionMessages, new)) = Join(Trim(SessionMessages), new)
    BY <1>3, <1>6, TrimAtEnd
  <2> QED
    BY <1>2, <1>6, <2>0, <2>1, <2>2, <2>3
<1>11. ASSUME NEW ms \in Seq(MessageSet), Len(new) > 0
       PROVE  /\ Join(ms, new) # <<>>
              /\ Last(Join(ms, new)) = new[Len(new)]
  <2>1. PICK c \in Seq(MessageSet) : c = Join(ms, new) /\ Joins(c, ms, new)
    BY <1>3, Joined
  <2>2. Len(new) \in 1..Len(new)
    BY <1>3, <1>11
  <2>3. Len(c) = Len(ms) + Len(new) /\ Len(ms) \in Nat
        /\ c[Len(ms) + Len(new)] = new[Len(new)]
    BY <2>1, <2>2 DEF Joins
  <2>4. c[Len(c)] = new[Len(new)] /\ Len(c) > 0
    BY <1>3, <1>11, <2>3
  <2>5. c # <<>>
    BY <2>4
  <2> QED
    BY <2>1, <2>4, <2>5 DEF Last
<1>12. InBatch'
  <2> SUFFICES ASSUME phase' = "tools"
               PROVE  /\ messages' # <<>> /\ Last(messages').role = "assistant"
                      /\ heard' => /\ SessionMessages' # <<>>
                                   /\ Last(SessionMessages') = Last(messages')
    BY <1>2 DEF InBatch
  <2>1. messages' # <<>> /\ Last(messages') = new[Len(new)]
    BY <1>1, <1>2, <1>11
  <2>2. ASSUME heard'
        PROVE  SessionMessages' # <<>> /\ Last(SessionMessages') = new[Len(new)]
    BY <1>6, <1>11, <2>2
  <2> QED
    BY <2>1, <2>2
<1>13. EventFollows'
  BY <1>2 DEF EventFollows
<1> QED
  BY <1>7, <1>8, <1>9, <1>10, <1>12, <1>13 DEF IInv

\* A compaction keeps the prompts in front.
LEMMA CompactedPrompts ==
    ASSUME NEW own \in Seq(MessageSet), NEW n, NEW calm, NEW p,
           HistoryOf(Join(PromptMessages, own), n, calm, p),
           CanCompact(Join(PromptMessages, own))
    PROVE  \E new \in Seq(MessageSet) :
              CompactedState(Join(PromptMessages, own)) = Join(PromptMessages, new)
<1>1. PICK ms \in Seq(MessageSet) : ms = Join(PromptMessages, own)
  BY PromptTypes, Joined
<1>2. HistoryOf(ms, n, calm, p) /\ CanCompact(ms)
  BY <1>1
<1>3. PICK pre, rest : pre = Before(ms) /\ rest = Turns(ms) /\ Parted(ms, pre, rest)
  BY <1>2, HistoryParted
<1>4. PICK kept : kept = From(ms, FirstKept(ms))
  OBVIOUS
<1>5. PICK s : s = Summary(ms)
  OBVIOUS
<1>6. /\ pre \in Seq(Protected) /\ kept \in Seq(OfTurns) /\ SummaryMessage(s)
  BY <1>2, <1>3, <1>4, <1>5, CutParts
<1>7. PICK a : a = PromptMessages
  OBVIOUS
<1>8. /\ a \in Seq(Protected) /\ a \in Seq(MessageSet)
      /\ Len(a) = Prompts /\ Prompts \in Nat /\ Prompts > 0
      /\ \A i \in 1..Len(a) : a[i].role = "system" /\ ~IsSummary(a[i])
  BY <1>7, PromptTypes
<1>9. /\ Len(pre) \in Nat /\ Len(rest) \in Nat /\ Len(ms) = Len(pre) + Len(rest)
      /\ \A i \in 1..Len(pre) : ms[i] = pre[i]
      /\ \A i \in 1..Len(rest) : ms[Len(pre) + i] = rest[i]
      /\ ms = Join(pre, rest)
  BY <1>3 DEF Parted, Joins
<1>10. /\ \A i \in 1..Prompts : ms[i] = a[i]
       /\ Prompts <= Len(ms)
  <2>1. Joins(ms, a, own)
    BY <1>1, <1>7, <1>8, Joined
  <2> QED
    BY <1>8, <2>1 DEF Joins
<1>11. Prompts \in 0..Len(pre)
  <2>1. ASSUME Prompts > Len(pre) PROVE FALSE
    <3>1. Prompts \in 1..Prompts /\ Prompts - Len(pre) \in 1..Len(rest)
          /\ Len(pre) + (Prompts - Len(pre)) = Prompts
      BY <1>8, <1>9, <1>10, <2>1
    <3>2. ms[Prompts].role = "system"
      BY <1>8, <1>10, <3>1
    <3>3. rest[Prompts - Len(pre)].role \in CompactableRoles
      BY <1>3, <3>1, MessageTypes DEF Parted
    <3>4. ms[Prompts] = rest[Prompts - Len(pre)]
      BY <1>9, <3>1
    <3> QED
      BY <3>2, <3>3, <3>4 DEF CompactableRoles
  <2> QED
    BY <1>8, <1>9, <2>1
<1>12. PICK lead \in Seq(Protected), q \in Seq(Protected) :
          /\ Len(lead) = Prompts /\ pre = Join(lead, q)
          /\ \A i \in 1..Prompts : lead[i] = pre[i]
  <2>1. /\ Upto(pre, Prompts) \in Seq(Protected) /\ Len(Upto(pre, Prompts)) = Prompts
        /\ From(pre, Prompts + 1) \in Seq(Protected)
        /\ \A i \in 1..Prompts : Upto(pre, Prompts)[i] = pre[i]
        /\ pre = Join(Upto(pre, Prompts), From(pre, Prompts + 1))
    BY <1>6, <1>11, Split
  <2> QED
    BY <2>1
<1>13. lead = a
  <2>1. \A i \in 1..Len(lead) : lead[i] = a[i]
    <3>1. \A i \in 1..Prompts : i \in 1..Len(pre)
      BY <1>8, <1>9, <1>11
    <3> QED
      BY <1>9, <1>10, <1>12, <3>1
  <2> QED
    BY <1>8, <1>12, <2>1, SeqEqual
<1>14. WithoutSummaries(a) = a
  <2>1. \A i \in 1..Len(a) : ~IsSummary(a[i])
    BY <1>8
  <2> QED
    BY <1>8, <2>1, NothingLeftOut
<1>15. WithoutSummaries(a \o q) = WithoutSummaries(a) \o WithoutSummaries(q)
  BY <1>8, ProtectedAmong, LeftConcat
<1>16. WithoutSummaries(pre) = Join(a, WithoutSummaries(q))
  <2>1. pre = a \o q
    BY <1>12, <1>13 DEF Join
  <2> QED
    BY <1>14, <1>15, <2>1 DEF Join
<1>17. WithoutSummaries(q) \in Seq(MessageSet)
  <2>1. WithoutSummaries(q) \in Seq({m \in Protected : ~IsSummary(m)})
    BY CompactableLeft
  <2>2. {m \in Protected : ~IsSummary(m)} \subseteq MessageSet
    BY MessageTypes
  <2> QED
    BY <2>1, <2>2, SeqMonotonic
<1>18. PICK w \in Seq(MessageSet) : w = WithoutSummaries(q)
  BY <1>17
<1>19. PICK y \in Seq(MessageSet) : y = <<s>>
  <2>1. s \in MessageSet
    BY <1>6, MessageTypes DEF SummaryMessage
  <2>2. PICK z \in MessageSet : z = s
    BY <2>1
  <2>3. <<z>> \in Seq(MessageSet)
    OBVIOUS
  <2> QED
    BY <2>2, <2>3
<1>20. PICK k \in Seq(MessageSet) : k = kept
  BY <1>6, MessageTypes
<1>21. Join(Join(Join(a, w), y), k) = Join(a, Join(Join(w, y), k))
  <2>1. PICK v \in Seq(MessageSet) : v = Join(w, y)
    BY Joined
  <2>2. Join(Join(a, w), y) = Join(a, v)
    BY <1>8, <2>1, JoinedLaws
  <2>3. Join(Join(a, v), k) = Join(a, Join(v, k))
    BY <1>8, JoinedLaws
  <2> QED
    BY <2>1, <2>2, <2>3
<1>22. Join(Join(w, y), k) \in Seq(MessageSet)
  BY Joined
<1>23. CompactedState(ms) = Rebuild(pre, s, kept)
  BY <1>3, <1>4, <1>5 DEF CompactedState, Rebuild, Join, Before, From
<1>24. CompactedState(ms) = Join(a, Join(Join(w, y), k))
  BY <1>16, <1>18, <1>19, <1>20, <1>21, <1>23 DEF Rebuild
<1> QED
  BY <1>1, <1>7, <1>22, <1>24

\* The agent's history is cut, and so is what is emitted for its session.
LEMMA InvCompact ==
    ASSUME IInv, Compact, event = <<>>, phase # "tools"
    PROVE  IInv'
<1>1. /\ messages \in Seq(MessageSet) /\ Prompts <= Len(messages)
      /\ Upto(messages, Prompts) = PromptMessages
      /\ HistoryOf(messages, made.agent, settled.agent, phase # "model")
      /\ HistoryOf(SessionMessages, made.session, settled.session,
                   phase # "model" \/ ~heard)
      /\ TypeOK
  BY InTerms DEF IInv, TypeOK
<1>2. PICK p : p = (phase # "model")
  OBVIOUS
<1>3. /\ CanCompact(messages)
      /\ messages' = CompactedState(messages)
      /\ event' = CompactedSession(messages)
      /\ settled' = [settled EXCEPT !.agent = TRUE]
      /\ tail' = tail /\ compacted' = compacted /\ phase' = phase /\ heard' = heard
      /\ produced' = produced /\ reports' = reports /\ made' = made /\ apart' = apart
  BY DEF Compact
<1>4. settled'.agent = TRUE /\ settled'.session = settled.session
      /\ settled' \in [agent : BOOLEAN, session : BOOLEAN]
  BY <1>1, <1>3 DEF TypeOK
<1>5. /\ messages' \in Seq(MessageSet) /\ event' \in Seq(MessageSet)
      /\ Len(event') > 0
      /\ HistoryOf(messages', made.agent, TRUE, p)
      /\ HistoryOf(event', made.agent, TRUE, p)
      /\ Trim(messages') = Trim(event')
  BY <1>1, <1>2, <1>3, Compacted
<1>6. event' # <<>>
  BY <1>5
<1>7. SessionMessages' = SessionMessages
  BY <1>3 DEF SessionMessages
<1>8. TypeOK'
  <2>1. PICK own \in Seq(MessageSet) : messages = Join(PromptMessages, own)
    BY <1>1, PromptsFirst
  <2>2. \E new \in Seq(MessageSet) : messages' = Join(PromptMessages, new)
    BY <1>1, <1>3, <2>1, CompactedPrompts
  <2>3. Upto(messages', Prompts) = PromptMessages /\ Prompts <= Len(messages')
    BY <2>2, PromptsFirst
  <2>4. /\ SubSeq(messages', 1, Prompts) = PromptMessages
        /\ PromptMessages' = PromptMessages
    BY <2>3 DEF Upto, PromptMessages
  <2> QED
    BY <1>1, <1>3, <1>4, <1>5, <2>3, <2>4 DEF TypeOK
<1>9. HistoryOf(messages', made'.agent, settled'.agent, phase' # "model")
  BY <1>2, <1>3, <1>4, <1>5
<1>10. HistoryOf(SessionMessages', made'.session, settled'.session,
                 phase' # "model" \/ ~heard')
  BY <1>1, <1>3, <1>4, <1>7
<1>11. EventFollows'
  <2>1. HistoryOf(event', made'.agent, TRUE, phase' # "model")
    BY <1>2, <1>3, <1>5
  <2>2. SameConversation(messages, event)'
    BY <1>5 DEF SameConversation, LeadingSystem, Trim, From
  <2> QED
    BY <2>1, <2>2 DEF EventFollows
<1>12. SessionFollowsState'
  BY <1>6 DEF SessionFollowsState
<1>13. InBatch'
  BY <1>3 DEF InBatch
<1> QED
  BY <1>8, <1>9, <1>10, <1>11, <1>12, <1>13 DEF IInv

\* The session has the history of the agent once it applied the compaction.
LEMMA InvRecord == IInv /\ RecordCompaction => IInv'
<1> SUFFICES ASSUME IInv, RecordCompaction PROVE IInv'
  OBVIOUS
<1>1. /\ event # <<>> /\ phase' \in {phase, "idle"}
      /\ compacted' = event /\ tail' = <<>> /\ event' = <<>>
      /\ made' = [made EXCEPT !.session = made.agent]
      /\ settled' = [settled EXCEPT !.session = TRUE]
      /\ apart' = FALSE /\ messages' = messages /\ heard' = heard
      /\ produced' = produced /\ reports' = reports
  BY DEF RecordCompaction
<1>2. /\ HistoryOf(messages, made.agent, settled.agent, phase # "model")
      /\ HistoryOf(event, made.agent, TRUE, phase # "model")
      /\ Trim(messages) = Trim(event)
      /\ TypeOK /\ phase # "tools"
  BY <1>1, InTerms DEF IInv, EventFollows, InBatch
<1>3. /\ made'.agent = made.agent /\ made'.session = made.agent
      /\ settled'.agent = settled.agent /\ settled'.session = TRUE
      /\ made' \in [agent : Nat, session : Nat]
      /\ settled' \in [agent : BOOLEAN, session : BOOLEAN]
  BY <1>1, <1>2 DEF TypeOK
<1>4. event \in Seq(MessageSet) /\ <<>> \in Seq(MessageSet)
  BY Histories
<1>5. SessionMessages' = event
  <2>1. SessionMessages' = Join(event, <<>>)
    BY <1>1 DEF SessionMessages, Join
  <2> QED
    BY <1>4, <2>1, JoinedLaws
<1>6. phase' # "tools" /\ phase' \in {"idle", "model", "tools"}
  BY <1>1, <1>2 DEF TypeOK
<1>7. (phase # "model") => (phase' # "model")
  BY <1>1
<1>8. TypeOK'
  <2>1. PromptMessages' = PromptMessages
    BY DEF PromptMessages
  <2> QED
    BY <1>1, <1>2, <1>3, <1>4, <1>6, <2>1 DEF TypeOK
<1>9. HistoryOf(messages', made'.agent, settled'.agent, phase' # "model")
  <2>1. messages \in Seq(MessageSet) /\ Paired(messages, phase # "model")
    BY Histories
  <2>2. Paired(messages, phase' # "model")
    BY <1>7, <2>1, PairedWeaker
  <2>3. HistoryOf(messages, made.agent, settled.agent, phase' # "model")
    BY <1>2, <2>1, <2>2, HistoryPaired
  <2> QED
    BY <1>1, <1>3, <2>3
<1>10. HistoryOf(SessionMessages', made'.session, settled'.session,
                 phase' # "model" \/ ~heard')
  <2>1. Paired(event, phase # "model")
    BY <1>2 DEF HistoryOf
  <2>2. Paired(event, phase' # "model" \/ ~heard')
    BY <1>7, <2>1, PairedWeaker
  <2>3. HistoryOf(event, made.agent, TRUE, phase' # "model" \/ ~heard')
    BY <1>2, <1>4, <2>2, HistoryPaired
  <2> QED
    BY <1>3, <1>5, <2>3
<1>11. EventFollows' /\ InBatch'
  BY <1>1, <1>6 DEF EventFollows, InBatch
<1>12. SessionFollowsState'
  BY <1>1, <1>2, <1>5
     DEF SessionFollowsState, SameConversation, LeadingSystem, Trim, From
<1> QED
  BY <1>8, <1>9, <1>10, <1>11, <1>12 DEF IInv

\* A restored agent has its prompts and the history of the session.
LEMMA InvRestore == IInv /\ Restore => IInv'
<1> SUFFICES ASSUME IInv, Restore PROVE IInv'
  OBVIOUS
<1>1. /\ phase = "idle" /\ event = <<>>
      /\ messages' = PromptMessages \o SessionMessages
      /\ made' = [made EXCEPT !.agent = made.session]
      /\ settled' = [settled EXCEPT !.agent = settled.session]
      /\ apart' = FALSE
      /\ tail' = tail /\ compacted' = compacted /\ event' = event
      /\ phase' = phase /\ heard' = heard /\ produced' = produced
      /\ reports' = reports
  BY DEF Restore, At
<1>2. PICK p : p = (phase # "model")
  OBVIOUS
<1>3. p /\ p = (phase # "model" \/ ~heard)
  BY <1>1, <1>2
<1>4. TypeOK /\ HistoryOf(SessionMessages, made.session, settled.session, p)
  BY <1>3 DEF IInv
<1>5. /\ made'.agent = made.session /\ made'.session = made.session
      /\ settled'.agent = settled.session /\ settled'.session = settled.session
      /\ made' \in [agent : Nat, session : Nat]
      /\ settled' \in [agent : BOOLEAN, session : BOOLEAN]
  BY <1>1, <1>4 DEF TypeOK
<1>6. SessionMessages \in Seq(MessageSet)
  BY Histories
<1>7. messages' = Join(PromptMessages, SessionMessages)
  BY <1>1 DEF Join
<1>8. messages' \in Seq(MessageSet)
  BY <1>6, <1>7, PromptTypes, Joined
<1>9. SessionMessages' = SessionMessages
  BY <1>1 DEF SessionMessages
<1>10. TypeOK'
  <2>1. Upto(messages', Prompts) = PromptMessages /\ Prompts <= Len(messages')
    BY <1>6, <1>7, PromptsFirst
  <2>2. /\ SubSeq(messages', 1, Prompts) = PromptMessages
        /\ PromptMessages' = PromptMessages
    BY <2>1 DEF Upto, PromptMessages
  <2> QED
    BY <1>1, <1>4, <1>5, <1>8, <2>1, <2>2 DEF TypeOK
<1>11. HistoryOf(messages', made'.agent, settled'.agent, phase' # "model")
  <2>1. HistoryOf(messages', made.session, settled.session, p)
    BY <1>4, <1>6, <1>7, HistoryRestored
  <2> QED
    BY <1>1, <1>2, <1>5, <2>1
<1>12. HistoryOf(SessionMessages', made'.session, settled'.session,
                 phase' # "model" \/ ~heard')
  BY <1>1, <1>3, <1>4, <1>5, <1>9
<1>13. SessionFollowsState'
  <2>1. \A i \in 1..Len(PromptMessages) : PromptMessages[i].role = "system"
    BY PromptTypes
  <2>2. Trim(messages') = Trim(SessionMessages)
    BY <1>6, <1>7, <2>1, PromptTypes, TrimInFront
  <2> QED
    BY <1>9, <2>2 DEF SessionFollowsState, SameConversation, LeadingSystem, Trim, From
<1>14. EventFollows' /\ InBatch'
  BY <1>1 DEF EventFollows, InBatch
<1> QED
  BY <1>10, <1>11, <1>12, <1>13, <1>14 DEF IInv

\* What the recorder is told is nothing or the same.
LEMMA RecordedIs ==
    ASSUME NEW known \in BOOLEAN, NEW new \in Seq(OfTurns)
    PROVE  /\ Recorded(known, new) \in Seq(OfTurns)
           /\ known => Recorded(known, new) = new
           /\ ~known => Recorded(known, new) = <<>>
<1>1. <<>> \in Seq(OfTurns)
  OBVIOUS
<1> QED
  BY <1>1 DEF Recorded

\* The session is as it was when it is told nothing.
LEMMA ToldNothing ==
    ASSUME IInv, NEW p, (phase # "model" \/ ~heard) => p
    PROVE  <<>> \in Seq(OfTurns) /\ Paired(Join(SessionMessages, <<>>), p)
<1>1. PICK ms \in Seq(MessageSet) :
          ms = SessionMessages /\ Paired(ms, phase # "model" \/ ~heard)
  BY Histories
<1>2. Paired(ms, p)
  BY <1>1, PairedWeaker
<1>3. Join(ms, <<>>) = ms /\ <<>> \in Seq(OfTurns)
  BY JoinedLaws
<1> QED
  BY <1>1, <1>2, <1>3

\* A sequence of one message of the turns.
LEMMA OneMessage ==
    ASSUME NEW m \in OfTurns
    PROVE  <<m>> \in Seq(OfTurns) /\ Len(<<m>>) = 1 /\ <<m>>[1] = m
  OBVIOUS

\* A task begins with its message.
LEMMA InvBegin == IInv /\ BeginTask => IInv'
<1> SUFFICES ASSUME IInv, BeginTask PROVE IInv'
  OBVIOUS
<1>1. PICK size \in Sizes :
          Produce(<<Plain("user", size)>>, Recorded(heard', <<Plain("user", size)>>))
  BY DEF BeginTask
<1>2. PICK m : m = Plain("user", size)
  OBVIOUS
<1>3. m \in OfTurns /\ m \in MessageSet /\ m.role = "user" /\ m.calls = 0
  <2>1. size \in Nat
    BY BudgetAssumption
  <2> QED
    BY <1>2, <2>1 DEF Plain, Message, OfTurns, MessageSet, Roles, CompactableRoles,
                      NoUsage, IsSummary
<1>4. phase = "idle" /\ event = <<>> /\ phase' = "model" /\ heard' \in BOOLEAN
  BY DEF BeginTask, At
<1>5. PICK known \in BOOLEAN : known = heard'
  BY <1>4
<1>6. PICK new : new = <<m>>
  OBVIOUS
<1>7. new \in Seq(OfTurns)
  BY <1>3, <1>6, OneMessage
<1>8. PICK told \in Seq(OfTurns) :
          /\ told = Recorded(known, new)
          /\ known => told = new
          /\ ~known => told = <<>>
  BY <1>7, RecordedIs
<1>9. Produce(new, told)
  BY <1>1, <1>2, <1>5, <1>6, <1>8
<1>10. Paired(Join(messages, new), phase' # "model")
  <2>1. ~(m.calls > 0) /\ m.role # "tool"
    BY <1>3
  <2> QED
    BY <1>3, <1>6, <2>1, Histories, PairedNext
<1>11. Paired(Join(SessionMessages, told), phase' # "model" \/ ~heard')
  <2>1. CASE known
    <3>1. ~(m.calls > 0) /\ m.role # "tool"
      BY <1>3
    <3>2. Paired(Join(SessionMessages, <<m>>), phase' # "model" \/ ~heard')
      BY <1>3, <3>1, Histories, PairedNext
    <3> QED
      BY <1>6, <1>8, <2>1, <3>2
  <2>2. CASE ~known
    <3>1. phase' # "model" \/ ~heard'
      BY <1>5, <2>2
    <3> QED
      BY <1>8, <2>2, <3>1, ToldNothing
  <2> QED
    BY <2>1, <2>2
<1>12. phase' \in {"idle", "model", "tools"} /\ phase' # "tools"
  BY <1>4
<1> QED
  BY <1>4, <1>7, <1>9, <1>10, <1>11, <1>12, InvProduce

\* A response is a message of the turns with its calls.
LEMMA ResponseIs ==
    ASSUME IInv, NEW calls \in 0..MaxCalls
    PROVE  \E m \in OfTurns : /\ Response(calls) = <<m>> /\ m \in MessageSet
                              /\ m.role = "assistant" /\ m.calls = calls
<1>1. PICK usage : usage = IF reports THEN Sum(messages) + ReplySize ELSE NoUsage
  OBVIOUS
<1>2. PICK m : m = Message("assistant", ReplySize, calls, usage, 0)
  OBVIOUS
<1>3. ReplySize \in Nat /\ calls \in Nat
  BY BudgetAssumption
<1>4. Sum(messages) \in Nat
  BY Histories, SumType
<1>5. usage \in Nat
  BY <1>1, <1>3, <1>4 DEF NoUsage
<1>6. m \in OfTurns /\ m \in MessageSet /\ m.role = "assistant" /\ m.calls = calls
  BY <1>2, <1>3, <1>5 DEF Message, OfTurns, MessageSet, Roles, CompactableRoles,
                          IsSummary
<1> QED
  BY <1>1, <1>2, <1>6 DEF Response

\* A response is added, whether the session is told or not.
LEMMA InvResponse ==
    ASSUME IInv, At("model"), heard' = heard, NEW calls \in 0..MaxCalls,
           NEW known \in BOOLEAN, known => heard,
           Produce(Response(calls), Recorded(known, Response(calls))),
           phase' \in {"idle", "model", "tools"},
           calls > 0 => phase' # "model", phase' = "tools" => known = heard,
           phase' = "model" => known = heard
    PROVE  IInv'
<1>1. PICK m \in OfTurns : /\ Response(calls) = <<m>> /\ m \in MessageSet
                           /\ m.role = "assistant" /\ m.calls = calls
  BY ResponseIs
<1>2. /\ phase = "model" /\ event = <<>> /\ heard \in BOOLEAN
      /\ (phase # "model") = FALSE
  BY DEF At, IInv, TypeOK
<1>3. PICK new : new = <<m>>
  OBVIOUS
<1>4. new \in Seq(OfTurns) /\ Len(new) > 0 /\ new[Len(new)].role = "assistant"
  <2>1. new \in Seq(OfTurns) /\ Len(new) = 1 /\ new[1] = m
    BY <1>3, OneMessage
  <2> QED
    BY <1>1, <2>1
<1>5. PICK told \in Seq(OfTurns) :
          /\ told = Recorded(known, new)
          /\ known => told = new
          /\ ~known => told = <<>>
  BY <1>4, RecordedIs
<1>6. Produce(new, told)
  BY <1>1, <1>3, <1>5
<1>7. m.role # "tool" /\ (m.calls > 0 => phase' # "model")
  BY <1>1
<1>8. Paired(Join(messages, new), phase' # "model")
  <2>1. messages \in Seq(MessageSet) /\ Paired(messages, FALSE)
    BY <1>2, Histories
  <2> QED
    BY <1>1, <1>3, <1>7, <2>1, PairedNext
<1>9. Paired(Join(SessionMessages, told), phase' # "model" \/ ~heard')
  <2>1. CASE known
    <3>1. (phase # "model" \/ ~heard) = FALSE
      BY <1>2, <2>1
    <3>2. SessionMessages \in Seq(MessageSet) /\ Paired(SessionMessages, FALSE)
      BY <3>1, Histories
    <3>3. m.calls > 0 => (phase' # "model" \/ ~heard')
      BY <1>7
    <3>4. Paired(Join(SessionMessages, <<m>>), phase' # "model" \/ ~heard')
      BY <1>1, <1>7, <3>2, <3>3, PairedNext
    <3> QED
      BY <1>3, <1>5, <2>1, <3>4
  <2>2. CASE ~known
    <3>1. (phase # "model" \/ ~heard) => (phase' # "model" \/ ~heard')
      BY <1>2
    <3> QED
      BY <1>5, <2>2, <3>1, ToldNothing
  <2> QED
    BY <2>1, <2>2
<1>10. heard' \in BOOLEAN /\ (phase' = "tools" => (heard' => told = new))
  BY <1>2, <1>5
<1> QED
  BY <1>2, <1>4, <1>6, <1>8, <1>9, <1>10, InvProduce

\* A response is added, its calls pending, or lost to the session.
LEMMA InvRespond == IInv /\ (Respond \/ LoseResponse) => IInv'
<1>1. ASSUME IInv, Respond PROVE IInv'
  <2>1. PICK calls \in 0..MaxCalls :
            /\ phase' \in IF calls = 0 THEN {"model", "idle"} ELSE {"tools"}
            /\ Produce(Response(calls), Recorded(heard, Response(calls)))
    BY <1>1 DEF Respond
  <2>2. At("model") /\ heard' = heard
    BY <1>1 DEF Respond
  <2>3. heard \in BOOLEAN
    BY <1>1 DEF IInv, TypeOK
  <2>4. phase' \in {"idle", "model", "tools"} /\ (calls > 0 => phase' # "model")
    BY <2>1
  <2> QED
    BY <1>1, <2>1, <2>2, <2>3, <2>4, InvResponse
<1>2. ASSUME IInv, LoseResponse PROVE IInv'
  <2>1. PICK calls \in 0..MaxCalls : Produce(Response(calls), <<>>)
    BY <1>2 DEF LoseResponse
  <2>2. At("model") /\ heard' = heard /\ phase' = "idle"
    BY <1>2 DEF LoseResponse
  <2>3. Recorded(FALSE, Response(calls)) = <<>>
    BY DEF Recorded
  <2> QED
    BY <1>2, <2>1, <2>2, <2>3, InvResponse
<1> QED
  BY <1>1, <1>2

\* The results of calls.
LEMMA ResultsAre ==
    ASSUME NEW n \in Nat
    PROVE  /\ Results(n) \in Seq(OfTurns) /\ Results(n) \in Seq(MessageSet)
           /\ Len(Results(n)) = n
           /\ \A i \in 1..n : Results(n)[i].role = "tool"
<1>1. PICK m : m = Plain("tool", ReplySize)
  OBVIOUS
<1>2. m \in OfTurns /\ m.role = "tool"
  <2>1. ReplySize \in Nat
    BY BudgetAssumption
  <2> QED
    BY <1>1, <2>1 DEF Plain, Message, OfTurns, MessageSet, Roles, CompactableRoles,
                      NoUsage, IsSummary
<1>3. PICK new : new = [i \in 1..n |-> m]
  OBVIOUS
<1>4. new \in Seq(OfTurns) /\ Len(new) = n /\ \A i \in 1..n : new[i] = m
  BY <1>2, <1>3
<1>5. Results(n) = new
  BY <1>1, <1>3 DEF Results
<1> QED
  BY <1>2, <1>4, <1>5, MessageTypes

\* The batch is over with n results for the session, and as many or none for
\* the agent.
LEMMA InvBatch ==
    ASSUME IInv, At("tools"), heard' = heard, NEW n \in 0..Calls,
           NEW new \in {Results(n), <<>>},
           Produce(new, Recorded(heard, Results(n))),
           phase' \in {"idle", "model"},
           phase' = "model" => new = Results(n) /\ n = Calls
    PROVE  IInv'
<1>1. /\ phase = "tools" /\ event = <<>> /\ heard \in BOOLEAN
      /\ messages \in Seq(MessageSet) /\ messages # <<>>
      /\ Last(messages).role = "assistant" /\ SessionMessages \in Seq(MessageSet)
      /\ (heard => SessionMessages # <<>> /\ Last(SessionMessages) = Last(messages))
  BY Histories DEF At, IInv, TypeOK, InBatch
<1>2. \A ms \in Seq(MessageSet) : ms # <<>> =>
          Len(ms) > 0 /\ Last(ms) = ms[Len(ms)] /\ ms[Len(ms)].calls \in Nat
  <2> SUFFICES ASSUME NEW ms \in Seq(MessageSet), ms # <<>>
               PROVE  Len(ms) > 0 /\ Last(ms) = ms[Len(ms)] /\ ms[Len(ms)].calls \in Nat
    OBVIOUS
  <2>1. Len(ms) > 0 /\ Len(ms) \in 1..Len(ms)
    OBVIOUS
  <2> QED
    BY <2>1, MessageTypes DEF Last
<1>3. PICK k \in Nat : k = Calls /\ k = Last(messages).calls
  BY <1>1, <1>2 DEF Calls
<1>4. n \in Nat /\ n \in 0..k
  BY <1>3
<1>5. PICK results \in Seq(OfTurns) :
          /\ results = Results(n) /\ results \in Seq(MessageSet) /\ Len(results) = n
          /\ \A i \in 1..n : results[i].role = "tool"
  BY <1>4, ResultsAre
<1>6. PICK told \in Seq(OfTurns) :
          /\ told = Recorded(heard, results)
          /\ heard => told = results
          /\ ~heard => told = <<>>
  BY <1>1, RecordedIs
<1>7. <<>> \in Seq(OfTurns)
  OBVIOUS
<1>8. new \in Seq(OfTurns) /\ Produce(new, told)
  BY <1>5, <1>6, <1>7
<1>9. ASSUME NEW ms \in Seq(MessageSet), NEW q, Paired(ms, q), ms # <<>>,
             Last(ms) = Last(messages), NEW p, phase' # "model" => p
      PROVE  Paired(Join(ms, results), p)
  <2>1. /\ Len(ms) > 0 /\ ms[Len(ms)].role = "assistant"
        /\ n \in 0..ms[Len(ms)].calls /\ ms[Len(ms)].calls = k
    BY <1>1, <1>2, <1>3, <1>4, <1>9
  <2>2. n < k => p
    <3>1. n < k => n # k
      BY <1>3, <1>4
    <3> QED
      BY <1>3, <1>9, <3>1
  <2> QED
    BY <1>5, <1>9, <2>1, <2>2, PairedResults
<1>10. Paired(Join(messages, new), phase' # "model")
  <2>1. CASE new = Results(n)
    <3>1. Paired(Join(messages, results), phase' # "model")
      BY <1>1, <1>9, Histories
    <3> QED
      BY <1>5, <2>1, <3>1
  <2>2. CASE new = <<>>
    <3>1. Join(messages, new) = messages
      BY <1>1, <2>2, JoinedLaws
    <3>2. CASE phase' # "model"
      <4>1. Paired(messages, phase' # "model")
        BY <3>2, Histories, PairedWeaker
      <4> QED
        BY <3>1, <4>1
    <3>3. CASE phase' = "model"
      <4>1. Results(n) = new
        BY <3>3
      <4> QED
        BY <2>1, <4>1
    <3> QED
      BY <3>2, <3>3
  <2> QED
    BY <2>1, <2>2
<1>11. Paired(Join(SessionMessages, told), phase' # "model" \/ ~heard')
  <2>1. CASE heard
    <3>1. Paired(Join(SessionMessages, results), phase' # "model" \/ ~heard')
      BY <1>1, <1>9, <2>1, Histories
    <3> QED
      BY <1>6, <2>1, <3>1
  <2>2. CASE ~heard
    <3>1. phase' # "model" \/ ~heard'
      BY <2>2
    <3> QED
      BY <1>6, <2>2, <3>1, ToldNothing
  <2> QED
    BY <2>1, <2>2
<1>12. phase' \in {"idle", "model", "tools"} /\ phase' # "tools" /\ heard' \in BOOLEAN
  BY <1>1
<1> QED
  BY <1>1, <1>6, <1>8, <1>10, <1>11, <1>12, InvProduce

\* A batch is settled, ended by a handler or left.
LEMMA InvAnswer == IInv /\ (AnswerCalls \/ EndInBatch \/ LoseResults) => IInv'
<1>1. ASSUME IInv, At("tools") PROVE Calls \in Nat
  <2>1. messages \in Seq(MessageSet) /\ messages # <<>>
    BY <1>1 DEF At, IInv, TypeOK, InBatch
  <2>2. Len(messages) \in 1..Len(messages)
    BY <2>1
  <2> QED
    BY <2>1, <2>2, MessageTypes DEF Calls, Last
<1>2. ASSUME IInv, AnswerCalls PROVE IInv'
  <2>1. /\ At("tools") /\ phase' = "model" /\ heard' = heard
        /\ Produce(Results(Calls), Recorded(heard, Results(Calls)))
    BY <1>2 DEF AnswerCalls
  <2>2. Calls \in 0..Calls
    BY <1>1, <1>2, <2>1
  <2> QED
    BY <1>2, <2>1, <2>2, InvBatch
<1>3. ASSUME IInv, EndInBatch PROVE IInv'
  <2>1. PICK n \in 1..Calls : Produce(Results(n), Recorded(heard, Results(n)))
    BY <1>3 DEF EndInBatch
  <2>2. At("tools") /\ phase' = "idle" /\ heard' = heard
    BY <1>3 DEF EndInBatch
  <2>3. n \in 0..Calls
    OBVIOUS
  <2> QED
    BY <1>3, <2>1, <2>2, <2>3, InvBatch
<1>4. ASSUME IInv, LoseResults PROVE IInv'
  <2>1. PICK n \in 0..Calls : Produce(<<>>, Recorded(heard, Results(n)))
    BY <1>4 DEF LoseResults
  <2>2. At("tools") /\ phase' = "idle" /\ heard' = heard
    BY <1>4 DEF LoseResults
  <2> QED
    BY <1>4, <2>1, <2>2, InvBatch
<1> QED
  BY <1>2, <1>3, <1>4

\* Stopping, losing a compaction, and steps of other parts leave both
\* histories alone.
LEMMA InvStop == IInv /\ (StopRun \/ LoseCompaction \/ UNCHANGED vars) => IInv'
<1>1. ASSUME IInv, UNCHANGED vars PROVE IInv'
  <2>1. /\ messages' = messages /\ tail' = tail /\ compacted' = compacted
        /\ event' = event /\ phase' = phase /\ heard' = heard
        /\ produced' = produced /\ reports' = reports /\ made' = made
        /\ settled' = settled /\ apart' = apart
    BY <1>1 DEF vars
  <2>2. SessionMessages' = SessionMessages /\ PromptMessages' = PromptMessages
    BY <2>1 DEF SessionMessages, PromptMessages
  <2>3. TypeOK' /\ InBatch'
    BY <1>1, <2>1, <2>2 DEF IInv, TypeOK, InBatch
  <2>4. SessionFollowsState'
    BY <1>1, <2>1, <2>2 DEF IInv, SessionFollowsState
  <2>5. EventFollows'
    BY <1>1, <2>1, <2>2 DEF IInv, EventFollows
  <2>6. HistoryOf(messages', made'.agent, settled'.agent, phase' # "model")
    BY <1>1, <2>1 DEF IInv
  <2>7. HistoryOf(SessionMessages', made'.session, settled'.session,
                  phase' # "model" \/ ~heard')
    BY <1>1, <2>1, <2>2 DEF IInv
  <2> QED
    BY <2>3, <2>4, <2>5, <2>6, <2>7 DEF IInv
<1>2. ASSUME IInv, StopRun \/ LoseCompaction PROVE IInv'
  <2>1. /\ messages' = messages /\ tail' = tail /\ compacted' = compacted
        /\ heard' = heard /\ produced' = produced /\ reports' = reports
        /\ made' = made /\ settled' = settled
        /\ event' = <<>> /\ phase # "tools" /\ phase' \in {phase, "idle"}
        /\ apart' \in BOOLEAN /\ (~apart' => event = <<>> /\ apart' = apart)
    BY <1>2 DEF StopRun, LoseCompaction, At, IInv, TypeOK, InBatch
  <2>2. SessionMessages' = SessionMessages /\ PromptMessages' = PromptMessages
    BY <2>1 DEF SessionMessages, PromptMessages
  <2>3. (phase # "model") => (phase' # "model")
    BY <2>1
  <2>4. HistoryOf(messages', made'.agent, settled'.agent, phase' # "model")
    <3>1. Paired(messages, phase' # "model") /\ messages \in Seq(MessageSet)
      BY <1>2, <2>3, Histories, PairedWeaker
    <3>2. HistoryOf(messages, made.agent, settled.agent, phase # "model")
      BY <1>2 DEF IInv
    <3>3. HistoryOf(messages, made.agent, settled.agent, phase' # "model")
      BY <3>1, <3>2, HistoryPaired
    <3> QED
      BY <2>1, <3>3
  <2>5. HistoryOf(SessionMessages', made'.session, settled'.session,
                  phase' # "model" \/ ~heard')
    <3>1. (phase # "model" \/ ~heard) => (phase' # "model" \/ ~heard')
      BY <2>1, <2>3
    <3>2. Paired(SessionMessages, phase' # "model" \/ ~heard')
          /\ SessionMessages \in Seq(MessageSet)
      BY <1>2, <3>1, Histories, PairedWeaker
    <3>3. HistoryOf(SessionMessages, made.session, settled.session,
                    phase # "model" \/ ~heard)
      BY <1>2 DEF IInv
    <3>4. HistoryOf(SessionMessages, made.session, settled.session,
                    phase' # "model" \/ ~heard')
      BY <3>2, <3>3, HistoryPaired
    <3> QED
      BY <2>1, <2>2, <3>4
  <2>6. SessionFollowsState'
    BY <1>2, <2>1, <2>2 DEF IInv, SessionFollowsState
  <2>7. TypeOK'
    <3>1. <<>> \in Seq(MessageSet)
      OBVIOUS
    <3> QED
      BY <1>2, <2>1, <2>2, <3>1 DEF IInv, TypeOK
  <2>8. EventFollows' /\ InBatch'
    BY <2>1 DEF EventFollows, InBatch
  <2> QED
    BY <2>4, <2>5, <2>6, <2>7, <2>8 DEF IInv
<1> QED
  BY <1>1, <1>2

\* Every step keeps the invariant.
LEMMA InvNext == IInv /\ [Next]_vars => IInv'
<1> SUFFICES ASSUME IInv, [Next]_vars PROVE IInv'
  OBVIOUS
<1>1. CASE BeginTask
  BY <1>1, InvBegin
<1>2. CASE Respond \/ LoseResponse
  BY <1>2, InvRespond
<1>3. CASE AnswerCalls \/ EndInBatch \/ LoseResults
  BY <1>3, InvAnswer
<1>4. CASE StopRun \/ LoseCompaction
  BY <1>4, InvStop
<1>5. CASE CompactUnderPressure \/ CompactOnOverflow \/ CompactExplicitly
  <2>1. Compact /\ event = <<>> /\ phase # "tools"
    BY <1>5 DEF CompactUnderPressure, CompactOnOverflow, CompactExplicitly, At
  <2> QED
    BY <2>1, InvCompact
<1>6. CASE RecordCompaction
  BY <1>6, InvRecord
<1>7. CASE Restore
  BY <1>7, InvRestore
<1>8. CASE UNCHANGED vars
  BY <1>8, InvStop
<1> QED
  BY <1>1, <1>2, <1>3, <1>4, <1>5, <1>6, <1>7, <1>8 DEF Next

-----------------------------------------------------------------------------
(* What the invariant says.                                                *)

\* Theorem: the invariant holds in every reachable state.
THEOREM SpecIInv == Spec => []IInv
<1> QED
  BY InvInit, InvNext, PTL DEF Spec

\* Theorem: types, and the prompts in front of the agent's messages.
THEOREM SpecTypeOK == Spec => []TypeOK
<1>1. IInv => TypeOK
  BY DEF IInv
<1> QED
  BY <1>1, SpecIInv, PTL

\* The cut of any history is minimal.
LEMMA CutProperty == messages \in Seq(MessageSet) => CutIsMinimal
<1> SUFFICES ASSUME messages \in Seq(MessageSet) PROVE CutIsMinimal
  OBVIOUS
<1>1. PICK ms \in Seq(MessageSet) : ms = messages
  OBVIOUS
<1>2. PICK h : h = HistoryStart(ms)
  OBVIOUS
<1>3. PICK c : c = FirstKept(ms)
  OBVIOUS
<1>4. /\ Cuts(ms, h, c) /\ h \in 1..Len(ms) + 1 /\ Len(ms) \in Nat
      /\ CanCompact(ms) <=> c > h
  BY <1>2, <1>3, CutDef, StartDef DEF CanCompact, Starts
<1>5. c \in Nat /\ c >= h /\ h \in Nat /\ h >= 1
  BY <1>4 DEF Cuts, Enough
<1>6. \A i : KeepsEnough(ms, i) <=> Sum(SubSeq(ms, i, Len(ms))) >= KeepRecent
  BY DEF KeepsEnough
<1>7. ASSUME CanCompact(ms)
      PROVE  ms[c].role = "user" /\ Sum(SubSeq(ms, c, Len(ms))) >= KeepRecent
  <2>1. c # h
    BY <1>4, <1>5, <1>7
  <2> QED
    BY <1>4, <1>6, <2>1 DEF Cuts, Enough
<1>8. ASSUME NEW i \in c + 1 .. Len(ms), ms[i].role = "user"
      PROVE  Sum(SubSeq(ms, i, Len(ms))) < KeepRecent
  <2>1. i \in 1..Len(ms) /\ i > h /\ i > c /\ i \in Nat
    BY <1>4, <1>5
  <2>2. ~KeepsEnough(ms, i)
    <3>1. ~Enough(ms, h, i)
      BY <1>4, <1>5, <2>1 DEF Cuts
    <3> QED
      BY <1>8, <2>1, <3>1 DEF Enough
  <2>3. SubSeq(ms, i, Len(ms)) \in Seq(MessageSet)
    <3>1. i - 1 \in 0..Len(ms) /\ (i - 1) + 1 = i
      BY <1>4, <2>1
    <3>2. PICK k : k = i - 1
      OBVIOUS
    <3>3. From(ms, k + 1) \in Seq(MessageSet)
      BY <3>1, <3>2, Split
    <3> QED
      BY <3>1, <3>2, <3>3 DEF From
  <2>4. PICK x \in Nat : x = Sum(SubSeq(ms, i, Len(ms)))
    BY <2>3, SumType
  <2>5. ~(x >= KeepRecent) /\ KeepRecent \in Nat
    BY <1>6, <2>2, <2>4, BudgetAssumption
  <2>6. x < KeepRecent
    BY <2>5
  <2> QED
    BY <2>4, <2>6
<1> QED
  BY <1>1, <1>3, <1>7, <1>8 DEF CutIsMinimal

\* Theorem: whatever is summarized, the tokens to keep are kept, in the shortest
\* suffix that begins with a turn.
THEOREM SpecCutIsMinimal == Spec => []CutIsMinimal
<1>1. IInv => CutIsMinimal
  BY CutProperty DEF IInv, TypeOK
<1> QED
  BY <1>1, SpecIInv, PTL

\* Theorem: no compaction, restore or ending of a run takes a result from its
\* call, and only the last batch of a run that ended in it lacks results.
THEOREM SpecPairsIntact == Spec => []PairsIntact
<1>1. IInv => PairsIntact
  BY DEF IInv, HistoryOf, PairsIntact
<1> QED
  BY <1>1, SpecIInv, PTL

\* The only summary is among the messages that are not summarized.
LEMMA AccountsFor ==
    ASSUME NEW ms \in Seq(MessageSet), NEW n, NEW calm, NEW p,
           HistoryOf(ms, n, calm, p)
    PROVE  Accounts(ms, n)
<1>3. PICK pre, rest : pre = Before(ms) /\ rest = Turns(ms) /\ Parted(ms, pre, rest)
  BY HistoryParted
<1>4. /\ Len(pre) \in Nat /\ Len(rest) \in Nat /\ Len(ms) = Len(pre) + Len(rest)
      /\ \A i \in 1..Len(pre) : ms[i] = pre[i]
      /\ \A i \in 1..Len(rest) : ms[Len(pre) + i] = rest[i]
  BY <1>3 DEF Parted, Joins
<1>5. OneSummary(pre) /\ n = Compactable(ms) + PreviousCount(pre)
  BY <1>3 DEF HistoryOf
<1>6. pre \in Seq(MessageSet) /\ \A i \in 1..Len(rest) : ~IsSummary(rest[i])
  BY <1>3, MessageTypes DEF Parted
<1>7. \A i \in 1..Len(ms) : IsSummary(ms[i]) => i \in 1..Len(pre)
  <2> SUFFICES ASSUME NEW i \in 1..Len(ms), IsSummary(ms[i])
               PROVE  i \in 1..Len(pre)
    OBVIOUS
  <2>0. Len(pre) \in Nat /\ Len(rest) \in Nat /\ Len(ms) = Len(pre) + Len(rest)
    BY <1>4
  <2>1. CASE i > Len(pre)
    <3>1. i - Len(pre) \in 1..Len(rest) /\ Len(pre) + (i - Len(pre)) = i
      BY <2>0, <2>1
    <3>2. ms[i] = rest[i - Len(pre)] /\ ~IsSummary(rest[i - Len(pre)])
      BY <1>4, <1>6, <3>1
    <3> QED
      BY <3>2
  <2> QED
    BY <2>0, <2>1
<1>8. {i \in 1..Len(ms) : IsSummary(ms[i])} = {i \in 1..Len(pre) : IsSummary(pre[i])}
  BY <1>4, <1>7
<1> DEFINE found == {i \in 1..Len(pre) : IsSummary(pre[i])}
<1>9. PreviousCount(pre) = IF found = {} THEN 0 ELSE ms[Max(found)].count
  <2>1. PreviousCount(pre) = IF found = {} THEN 0 ELSE pre[Max(found)].count
    BY DEF PreviousCount
  <2>2. found \in SUBSET (0..Len(pre))
    OBVIOUS
  <2>3. found # {} => Max(found) \in found
    BY <1>4, <2>2, Extremes
  <2>4. \A i \in found : ms[i] = pre[i]
    BY <1>4
  <2> QED
    BY <2>1, <2>3, <2>4
<1>10. Cardinality(found) <= 1
  <2>1. CASE found = {}
    <3>1. Cardinality(found) = 0
      BY <2>1, FS_EmptySet
    <3> QED
      BY <3>1
  <2>2. CASE found # {}
    <3>1. PICK x : x \in found
      BY <2>2
    <3>2. found = {x}
      BY <1>5, <3>1 DEF OneSummary
    <3>3. Cardinality(found) = 1
      BY <3>2, FS_Singleton
    <3> QED
      BY <3>3
  <2> QED
    BY <2>1, <2>2
<1> HIDE DEF found
<1>11. {i \in 1..Len(ms) : IsSummary(ms[i])} = found
  BY <1>8 DEF found
<1>12. n = Compactable(ms) + (IF found = {} THEN 0 ELSE ms[Max(found)].count)
  BY <1>5, <1>9
<1> QED
  BY <1>10, <1>11, <1>12 DEF Accounts

\* Theorem: one summary counts every message that is gone, however often the
\* history was cut, in the agent's history and in its session's.
THEOREM SpecSummaryIsExact == Spec => []SummaryIsExact
<1>1. ASSUME IInv PROVE SummaryIsExact
  <2>1. Accounts(messages, made.agent)
    BY <1>1, Histories, AccountsFor DEF IInv
  <2>2. Accounts(SessionMessages, made.session)
    BY <1>1, Histories, AccountsFor DEF IInv
  <2> QED
    BY <2>1, <2>2 DEF SummaryIsExact
<1> QED
  BY <1>1, SpecIInv, PTL

\* Theorem: neither a compacted history nor the session's that a restore takes
\* over can be compacted again before it grows.
THEOREM SpecCompactionSettles == Spec => []CompactionSettles
<1>1. IInv => CompactionSettles
  BY DEF IInv, HistoryOf, CompactionSettles
<1> QED
  BY <1>1, SpecIInv, PTL

\* Theorem: the session gives a restored agent the history of the agent, unless
\* one of the two missed something; a recorded compaction makes up for that.
THEOREM SpecSessionFollowsState == Spec => []SessionFollowsState
<1>1. IInv => SessionFollowsState
  BY DEF IInv
<1> QED
  BY <1>1, SpecIInv, PTL
=============================================================================
