--------------------------- MODULE McpServers_proof ---------------------------
(***************************************************************************)
(* Proofs about McpServers, for any sequence of distinct services, any     *)
(* finite set of tool names and any number of startups.  IInv is           *)
(* inductive: the index of the tools and the connections follow from it.   *)
(***************************************************************************)
EXTENDS McpServers, FunctionTheorems, FiniteSetTheorems,
        SequenceTheorems, TLAPS

-----------------------------------------------------------------------------
(* Sequences that list a set.                                              *)

\* s lists every element of S once.
Lists(s, S) == s \in Seq(S) /\ IsInjective(s) /\ ToSet(s) = S

\* What SetToSeq picks lists every element of a finite set once.
LEMMA Listing ==
    ASSUME NEW S, IsFiniteSet(S)
    PROVE  Lists(SetToSeq(S), S)
<1> DEFINE n == Cardinality(S)
           L == [1..n -> S]
           s == SetToSeq(S)
<1>1. n \in Nat /\ ExistsBijection(1..n, S)
  BY FS_CardinalityType
<1>2. PICK f : f \in Bijection(1..n, S)
  BY <1>1 DEF ExistsBijection
<1>3. f \in L /\ IsInjective(f)
  BY <1>2 DEF Bijection, Injection
<1>4. s \in L /\ IsInjective(s)
  BY <1>3 DEF SetToSeq
<1>5. s \in Seq(S)
  BY <1>1, <1>4
<1>6. ToSet(s) = S
  <2>1. IsFiniteSet(1..n) /\ Cardinality(1..n) = n
    BY <1>1, FS_Interval
  <2>2. s \in Injection(1..n, S)
    BY <1>4 DEF Injection
  <2>3. s \in Surjection(1..n, S)
    BY <2>1, <2>2, FS_Injection
  <2> QED
    BY <1>4, <2>3 DEF Surjection, ToSet
<1> QED
  BY <1>4, <1>5, <1>6 DEF Lists

\* Two listings of disjoint sets, one after the other, list their union.
LEMMA ListingsJoin ==
    ASSUME NEW S, NEW T, NEW s, NEW t, Lists(s, S), Lists(t, T), S \cap T = {}
    PROVE  Lists(s \o t, S \cup T)
<1> DEFINE r == s \o t
<1>0. /\ s \in Seq(S) /\ IsInjective(s) /\ ToSet(s) = S
      /\ t \in Seq(T) /\ IsInjective(t) /\ ToSet(t) = T
  BY DEF Lists
<1>1. /\ Len(s) \in Nat /\ DOMAIN s = 1..Len(s)
      /\ Len(t) \in Nat /\ DOMAIN t = 1..Len(t)
  BY <1>0, LenProperties
<1>2. s \in Seq(S \cup T) /\ t \in Seq(S \cup T)
  BY <1>0, SeqMonotonic
<1>3. /\ r \in Seq(S \cup T)
      /\ Len(r) = Len(s) + Len(t)
      /\ \A i \in 1..(Len(s) + Len(t)) :
           r[i] = IF i <= Len(s) THEN s[i] ELSE t[i - Len(s)]
  BY <1>2, ConcatProperties
<1> HIDE DEF r
<1>4. DOMAIN r = 1..(Len(s) + Len(t))
  BY <1>3, LenProperties
<1>5. /\ \A i \in 1..Len(s) : r[i] = s[i] /\ r[i] \in S
      /\ \A i \in 1..Len(t) : r[Len(s) + i] = t[i] /\ r[Len(s) + i] \in T
  <2>1. ASSUME NEW i \in 1..Len(s) PROVE r[i] = s[i] /\ s[i] \in S
    BY <1>0, <1>1, <1>3, ElementOfSeq
  <2>2. ASSUME NEW i \in 1..Len(t)
        PROVE  r[Len(s) + i] = t[i] /\ t[i] \in T
    <3>1. /\ Len(s) + i \in 1..(Len(s) + Len(t))
          /\ ~(Len(s) + i <= Len(s)) /\ (Len(s) + i) - Len(s) = i
      BY <1>1
    <3>2. r[Len(s) + i] = t[i]
      BY <1>3, <3>1
    <3> QED
      BY <1>0, <3>2, ElementOfSeq
  <2> QED
    BY <2>1, <2>2
<1>6. \A i \in 1..(Len(s) + Len(t)) :
        i \in 1..Len(s) \/ \E j \in 1..Len(t) : i = Len(s) + j
  <2> SUFFICES ASSUME NEW i \in 1..(Len(s) + Len(t)), i \notin 1..Len(s)
               PROVE  \E j \in 1..Len(t) : i = Len(s) + j
    OBVIOUS
  <2>1. i - Len(s) \in 1..Len(t) /\ i = Len(s) + (i - Len(s))
    BY <1>1
  <2> QED
    BY <2>1
<1>7. IsInjective(r)
  <2> SUFFICES ASSUME NEW i \in DOMAIN r, NEW j \in DOMAIN r, r[i] = r[j]
               PROVE  i = j
    BY DEF IsInjective
  <2>1. CASE i \in 1..Len(s) /\ j \in 1..Len(s)
    BY <1>0, <1>1, <1>5, <2>1 DEF IsInjective
  <2>2. CASE i \in 1..Len(s) /\ \E k \in 1..Len(t) : j = Len(s) + k
    BY <1>0, <1>5, <2>2
  <2>3. CASE j \in 1..Len(s) /\ \E k \in 1..Len(t) : i = Len(s) + k
    BY <1>0, <1>5, <2>3
  <2>4. ASSUME NEW k \in 1..Len(t), NEW l \in 1..Len(t),
               i = Len(s) + k, j = Len(s) + l
        PROVE  i = j
    BY <1>0, <1>1, <1>5, <2>4 DEF IsInjective
  <2> QED
    BY <1>4, <1>6, <2>1, <2>2, <2>3, <2>4
<1>8. ToSet(r) = S \cup T
  <2>1. ToSet(r) \subseteq S \cup T
    BY <1>4, <1>5, <1>6 DEF ToSet
  <2>2. ASSUME NEW x \in S PROVE x \in ToSet(r)
    <3>1. PICK i \in 1..Len(s) : x = s[i]
      BY <1>0, <1>1 DEF ToSet
    <3>2. i \in DOMAIN r
      BY <1>1, <1>4
    <3> QED
      BY <1>5, <3>1, <3>2 DEF ToSet
  <2>3. ASSUME NEW x \in T PROVE x \in ToSet(r)
    <3>1. PICK i \in 1..Len(t) : x = t[i]
      BY <1>0, <1>1 DEF ToSet
    <3>2. Len(s) + i \in DOMAIN r
      BY <1>1, <1>4
    <3> QED
      BY <1>5, <3>1, <3>2 DEF ToSet
  <2> QED
    BY <2>1, <2>2, <2>3
<1> QED
  BY <1>3, <1>7, <1>8 DEF r, Lists

\* A service that is pushed is on the stack with the others.
LEMMA Pushed ==
    ASSUME NEW S, NEW s \in Seq(S), NEW x \in S, IsInjective(s), x \notin ToSet(s)
    PROVE  /\ Append(s, x) \in Seq(S)
           /\ IsInjective(Append(s, x))
           /\ ToSet(Append(s, x)) = ToSet(s) \cup {x}
<1> DEFINE r == Append(s, x)
<1>1. /\ r \in Seq(S) /\ Len(r) = Len(s) + 1 /\ Len(s) \in Nat
      /\ \A i \in 1..Len(s) : r[i] = s[i]
      /\ r[Len(s) + 1] = x
  BY AppendProperties, LenProperties
<1>2. DOMAIN r = 1..Len(r) /\ DOMAIN s = 1..Len(s)
  BY <1>1, LenProperties
<1>3. \A i \in 1..Len(s) : s[i] # x
  BY <1>2 DEF ToSet
<1> HIDE DEF r
<1>4. IsInjective(r)
  BY <1>1, <1>2, <1>3 DEF IsInjective
<1>5. DOMAIN r = DOMAIN s \cup {Len(s) + 1}
  BY <1>1, <1>2
<1>6. ToSet(r) = ToSet(s) \cup {x}
  BY <1>1, <1>2, <1>5 DEF ToSet
<1> QED
  BY <1>1, <1>4, <1>6 DEF r

\* A service that is popped is no longer on the stack, and the others stay.
LEMMA Popped ==
    ASSUME NEW S, NEW s \in Seq(S), IsInjective(s), s # <<>>
    PROVE  /\ Front(s) \in Seq(S)
           /\ IsInjective(Front(s))
           /\ s[Len(s)] \in ToSet(s)
           /\ ToSet(Front(s)) = ToSet(s) \ {s[Len(s)]}
<1> DEFINE r == Front(s)
           n == Len(s) - 1
<1>1. Len(s) \in Nat \ {0} /\ DOMAIN s = 1..Len(s)
  BY EmptySeq, LenProperties
<1>2. n \in Nat /\ n + 1 = Len(s) /\ n < Len(s)
  BY <1>1
<1> HIDE DEF n
<1>3. \A i \in 1..n : s[i] \in S
  BY <1>1, <1>2, ElementOfSeq
<1>4. r = SubSeq(s, 1, n)
  BY DEF Front, n
<1>5. /\ r \in Seq(S)
      /\ Len(r) = n
      /\ \A i \in 1..n : r[i] = s[i]
  <2>1. /\ r \in Seq(S)
        /\ Len(r) = IF 1 <= n THEN n - 1 + 1 ELSE 0
        /\ \A i \in 1..(n - 1 + 1) : r[i] = s[1 + i - 1]
    BY <1>1, <1>2, <1>3, <1>4, SubSeqProperties
  <2> HIDE DEF r
  <2>2. Len(r) = n
    BY <1>2, <2>1
  <2>3. ASSUME NEW i \in 1..n PROVE r[i] = s[i]
    <3>1. i \in 1..(n - 1 + 1) /\ 1 + i - 1 = i
      BY <1>2
    <3> QED
      BY <2>1, <3>1
  <2> QED
    BY <2>1, <2>2, <2>3
<1> HIDE DEF r
<1>6. DOMAIN r = 1..n /\ DOMAIN s = 1..n \cup {n + 1} /\ n + 1 \notin 1..n
  BY <1>1, <1>2, <1>5, LenProperties
<1>7. IsInjective(r)
  BY <1>5, <1>6 DEF IsInjective
<1>8. s[Len(s)] \in ToSet(s)
  BY <1>2, <1>6 DEF ToSet
<1>9. \A i \in 1..n : s[i] # s[n + 1]
  BY <1>6 DEF IsInjective
<1>10. ToSet(r) = ToSet(s) \ {s[n + 1]}
  BY <1>5, <1>6, <1>9 DEF ToSet
<1> QED
  BY <1>2, <1>5, <1>7, <1>8, <1>10 DEF r

\* A set whose elements have distinct keys has as many elements as a listing
\* of the keys.
LEMMA CountByKey ==
    ASSUME NEW R, NEW s \in Seq(Names(R)), IsInjective(s),
           ToSet(s) = Names(R), \A r, q \in R : r.name = q.name => r = q
    PROVE  Cardinality(R) = Len(s)
<1> DEFINE n == Len(s)
           f == [i \in 1..n |-> CHOOSE r \in R : r.name = s[i]]
<1>1. n \in Nat /\ DOMAIN s = 1..n
  BY LenProperties
<1>2. \A i \in 1..n : f[i] \in R /\ f[i].name = s[i]
  <2> TAKE i \in 1..n
  <2>1. s[i] \in Names(R)
    BY ElementOfSeq
  <2>2. \E r \in R : r.name = s[i]
    BY <2>1 DEF Names
  <2> QED
    BY <2>2
<1> HIDE DEF f
<1>3. f \in [1..n -> R]
  BY <1>2 DEF f
<1>4. \A i, j \in 1..n : f[i] = f[j] => i = j
  BY <1>1, <1>2 DEF IsInjective
<1>5. \A r \in R : \E i \in 1..n : f[i] = r
  <2> TAKE r \in R
  <2>1. r.name \in ToSet(s)
    BY DEF Names
  <2>2. PICK i \in 1..n : s[i] = r.name
    BY <1>1, <2>1 DEF ToSet
  <2> QED
    BY <1>2, <2>2
<1>6. f \in Bijection(1..n, R)
  BY <1>3, <1>4, <1>5, Fun_IsBij
<1> QED
  BY <1>1, <1>6, FS_CountingElements DEF ExistsBijection

\* A prefix leaves distinct names distinct.
LEMMA PrefixedDistinct ==
    ASSUME NEW S, NEW p \in Seq(S), NEW t \in Seq(S), NEW u \in Seq(S),
           Prefixed(p, t) = Prefixed(p, u)
    PROVE  t = u
<1>1. /\ Len(p) \in Nat /\ Len(t) \in Nat /\ Len(u) \in Nat
      /\ DOMAIN t = 1..Len(t) /\ DOMAIN u = 1..Len(u)
  BY LenProperties
<1>2. /\ Len(p \o t) = Len(p) + Len(t)
      /\ \A i \in 1..(Len(p) + Len(t)) :
           (p \o t)[i] = IF i <= Len(p) THEN p[i] ELSE t[i - Len(p)]
      /\ Len(p \o u) = Len(p) + Len(u)
      /\ \A i \in 1..(Len(p) + Len(u)) :
           (p \o u)[i] = IF i <= Len(p) THEN p[i] ELSE u[i - Len(p)]
  BY ConcatProperties
<1>3. Len(t) = Len(u)
  <2>1. Len(p \o t) = Len(p \o u)
    BY DEF Prefixed
  <2>2. Len(p) + Len(t) = Len(p) + Len(u)
    BY <1>2, <2>1, Zenon
  <2>3. \A a, b, c \in Nat : a + b = a + c => b = c
    OBVIOUS
  <2> QED
    BY <1>1, <2>2, <2>3, Zenon
<1>4. \A i \in 1..Len(t) : t[i] = u[i]
  <2> TAKE i \in 1..Len(t)
  <2>1. /\ Len(p) + i \in 1..(Len(p) + Len(t))
        /\ ~(Len(p) + i <= Len(p)) /\ (Len(p) + i) - Len(p) = i
    BY <1>1
  <2>2. (p \o t)[Len(p) + i] = t[i] /\ (p \o u)[Len(p) + i] = u[i]
    BY <1>2, <1>3, <2>1
  <2> QED
    BY <2>2 DEF Prefixed
<1> QED
  BY <1>3, <1>4, SeqEqual

-----------------------------------------------------------------------------
(* Type and index.                                                         *)

\* The services have names, and a startup works on one of them.
LEMMA ServiceNames ==
    /\ Len(Services) \in Nat
    /\ DOMAIN Services = 1..Len(Services)
    /\ \A i \in 1..Len(Services) : Services[i] \in Seq(STRING)
<1>1. Services \in Seq(Seq(STRING) \ {<<>>})
  BY McpAssumption
<1> QED
  BY <1>1, LenProperties, ElementOfSeq

\* While a service is connected, its client is one of those there can be.
LEMMA ClientInRange ==
    ASSUME TypeOK, pc \in Starting, startups > 0
    PROVE  at \in 1..Len(Services) /\ Client \in AllClients
<1>1. at \in 1..Len(Services) /\ startups \in 1..MaxStartups
  BY ServiceNames, McpAssumption DEF TypeOK
<1> QED
  BY <1>1 DEF Client, AllClients

\* What a startup has done so far is behind the service it works on.
LEMMA Behind ==
    ASSUME TypeOK, InOrder, pc \in Starting
    PROVE  /\ startups > 0 /\ startups \in Nat /\ at \in 1..Len(Services)
           /\ at \in Nat /\ Client \in AllClients
           /\ \A c \in clients \cup DOMAIN offered : c[1] \in Nat /\ c[2] \in Nat
           /\ \A c \in clients : c[2] <= startups /\ (c[2] = startups => c[1] <= at)
           /\ \A c \in DOMAIN offered : c[2] = startups /\ c[1] <= at
           /\ \A s \in ToSet(stack) : s \in Nat /\ s < at
           /\ Client \notin StackClients
<1>1. /\ startups > 0 /\ startups \in Nat /\ at \in 1..Len(Services)
      /\ at \in Nat /\ Client \in AllClients
  BY ClientInRange, ServiceNames, McpAssumption DEF InOrder, TypeOK
<1>2. \A c \in AllClients : c[1] \in Nat /\ c[2] \in Nat
  BY ServiceNames, McpAssumption DEF AllClients
<1>3. \A c \in clients \cup DOMAIN offered : c[1] \in Nat /\ c[2] \in Nat
  BY <1>2 DEF TypeOK
<1>4. \A s \in ToSet(stack) : s \in Nat
  <2>1. stack \in Seq(1..Len(Services))
    BY DEF TypeOK
  <2>2. DOMAIN stack = 1..Len(stack) /\ \A i \in 1..Len(stack) : stack[i] \in Nat
    BY <2>1, LenProperties, ElementOfSeq, ServiceNames
  <2> QED
    BY <2>2 DEF ToSet
<1>5. \A s \in ToSet(stack) : s < at
  BY DEF InOrder
<1>6. Client \notin StackClients
  BY <1>1, <1>4, <1>5 DEF StackClients, Client
<1> QED
  BY <1>1, <1>3, <1>4, <1>5, <1>6 DEF InOrder

\* The invariant holds before the first startup.
LEMMA InitInv ==
    Init => IInv
<1> SUFFICES ASSUME Init PROVE IInv
  OBVIOUS
<1> USE DEF Init
<1>0. ToSet(stack) = {} /\ ToSet(tools) = {} /\ Len(tools) = 0 /\ Names(routes) = {}
      /\ DOMAIN offered = {} /\ IsInjective(tools) /\ IsInjective(stack)
  BY DEF ToSet, Names, IsInjective
<1>1. TypeOK
  <2>1. stack \in Seq(1..Len(Services))
    BY EmptySeq
  <2>2. {owned, started, failing, cutShort, leaked} \subseteq BOOLEAN
    OBVIOUS
  <2>3. startups \in 0..MaxStartups /\ at \in 0..Len(Services)
    BY ServiceNames, McpAssumption
  <2> QED
    BY <1>0, <2>1, <2>2, <2>3, Zenon DEF TypeOK, Starting
<1>2. InOrder
  BY <1>0 DEF InOrder, Starting
<1>3. RoutesExact
  BY <1>0 DEF RoutesExact
<1>4. ToolsExact
  BY <1>0, FS_EmptySet DEF ToolsExact
<1>5. ExposedExact
  BY DEF ExposedExact, Starting
<1>6. ConnectionsInv
  BY DEF ConnectionsInv, Starting
<1> QED
  BY <1>1, <1>2, <1>3, <1>4, <1>5, <1>6 DEF IInv

\* A step that leaves the index and the listings alone keeps the index exact.
LEMMA IndexStays ==
    ASSUME RoutesExact, ToolsExact, UNCHANGED <<clients, routes, tools, offered>>,
           ExposedExact'
    PROVE  RoutesExact' /\ ToolsExact'
<1>1. RoutesExact'
  BY DEF RoutesExact, Names
<1>2. ToolsExact'
  BY DEF ToolsExact, ExposedExact, Names
<1> QED
  BY <1>1, <1>2

\* The end of the work on a service: registered or refused, it is behind the
\* one that is next, and the connections are those of the exit stack.
LEMMA Onward ==
    ASSUME TypeOK, ExposedExact, ConnectionsInv, pc \in Starting, NextService,
           startups \in Nat, startups > 0,
           UNCHANGED <<startups, failing, cutShort, leaked>>,
           \A c \in clients' : c[2] <= startups /\ (c[2] = startups => c[1] <= at),
           \A c \in DOMAIN offered' : c[2] = startups /\ c[1] <= at,
           \A c \in clients' \cup DOMAIN offered' : c[1] \in Nat,
           \A s \in ToSet(stack)' : s \in Nat /\ s <= at,
           ~cutShort => clients' = StackClients',
           ~cutShort /\ ~leaked => connected' = StackClients'
    PROVE  /\ InOrder' /\ ExposedExact' /\ ConnectionsInv'
           /\ pc' \in Starting \cup {"idle", "stopping"}
           /\ at' \in 0..Len(Services) /\ (at' = 0 <=> pc' \notin Starting)
           /\ owned' \in BOOLEAN /\ started' \in BOOLEAN
           /\ started' => owned'
<1>0. /\ at \in 1..Len(Services) /\ Len(Services) \in Nat /\ ~started
      /\ owned \in BOOLEAN /\ started \in BOOLEAN
  BY ServiceNames DEF TypeOK, ExposedExact
<1>1. CASE /\ at < Len(Services)
           /\ at' = at + 1
           /\ pc' = "connecting"
           /\ UNCHANGED <<owned, exposed, started>>
  <2>1. InOrder'
    BY <1>0, <1>1 DEF InOrder, Starting
  <2>2. ExposedExact'
    BY <1>0, <1>1 DEF ExposedExact
  <2>3. ConnectionsInv'
    BY <1>0, <1>1 DEF ConnectionsInv, Starting
  <2>4. at' \in 0..Len(Services) /\ at' # 0
    BY <1>0, <1>1
  <2> QED
    BY <1>0, <1>1, <2>1, <2>2, <2>3, <2>4, Zenon DEF Starting
<1>2. CASE /\ at' = 0
           /\ pc' = "idle"
           /\ owned' = TRUE
           /\ exposed' = tools'
           /\ started' = TRUE
  <2>1. InOrder'
    BY <1>0, <1>2 DEF InOrder, Starting
  <2>2. ExposedExact'
    BY <1>2 DEF ExposedExact, Starting
  <2>3. ConnectionsInv'
    BY <1>0, <1>2 DEF ConnectionsInv, Starting
  <2> QED
    BY <1>0, <1>2, <2>1, <2>2, <2>3 DEF Starting
<1> QED
  BY <1>1, <1>2 DEF NextService


-----------------------------------------------------------------------------
(* The actions.                                                            *)

\* A startup begins with what the last one left, or with nothing.
LEMMA BeginStartupStep ==
    ASSUME IInv, BeginStartup
    PROVE  IInv'
<1> USE DEF BeginStartup, managerVars, handlerVars, history
<1>0. DOMAIN offered' = {} /\ ToSet(stack)' = {} /\ IsInjective(stack')
      /\ stack' \in Seq(1..Len(Services))
  BY EmptySeq DEF ToSet, IsInjective
<1>1. TypeOK'
  <2>1. startups' \in 0..MaxStartups /\ at' \in 0..Len(Services) /\ at' # 0
    BY ServiceNames, McpAssumption DEF IInv, TypeOK
  <2> QED
    BY <1>0, <2>1 DEF IInv, TypeOK, Starting
<1>2. InOrder'
  <2>1. \A c \in clients : c[2] <= startups /\ c[2] \in Nat /\ startups \in Nat
    BY McpAssumption DEF IInv, InOrder, TypeOK, AllClients
  <2>2. \A c \in clients' : c[2] < startups' /\ c[2] \in Nat /\ startups' \in Nat
    BY <2>1
  <2>3. startups' > 0
    BY McpAssumption DEF IInv, TypeOK
  <2> QED
    BY <1>0, <2>2, <2>3 DEF InOrder
<1>3. RoutesExact'
  BY DEF IInv, RoutesExact, Names
<1>4. ExposedExact'
  BY DEF IInv, ExposedExact, Starting
<1>5. ToolsExact'
  BY <1>0, <1>4 DEF IInv, ToolsExact, ExposedExact, Names
<1>6. ConnectionsInv'
  BY <1>0 DEF IInv, ConnectionsInv, Starting, StackClients
<1> QED
  BY <1>1, <1>2, <1>3, <1>4, <1>5, <1>6 DEF IInv

\* A service connects, or refuses to.
LEMMA ConnectStep ==
    ASSUME IInv, Connect
    PROVE  IInv'
<1> USE DEF history
<1>0. /\ startups > 0 /\ startups \in Nat /\ at \in 1..Len(Services)
      /\ Client \in AllClients /\ pc \in Starting /\ pc = "connecting"
  BY Behind DEF IInv, Connect, Starting
<1>1. CASE /\ connected' = connected \cup {Client}
           /\ pc' = "listing"
           /\ UNCHANGED <<at, owned, exposed, started, tools>>
           /\ UNCHANGED <<startups, offered, stack, clients, routes, failing,
                          history>>
  <2>1. TypeOK'
    BY <1>0, <1>1 DEF IInv, TypeOK, Starting
  <2>2. InOrder'
    BY <1>0, <1>1 DEF IInv, InOrder, Starting
  <2>3. ExposedExact'
    BY <1>0, <1>1 DEF IInv, ExposedExact, Starting
  <2>4. RoutesExact' /\ ToolsExact'
    BY <1>1, <2>3, IndexStays DEF IInv
  <2>5. ConnectionsInv'
    BY <1>0, <1>1 DEF IInv, ConnectionsInv, Starting, StackClients, Client
  <2> QED
    BY <2>1, <2>2, <2>3, <2>4, <2>5 DEF IInv
<1>2. CASE /\ UNCHANGED <<connected, tools>>
           /\ NextService
           /\ UNCHANGED <<startups, offered, stack, clients, routes, failing,
                          history>>
  <2>1. /\ \A c \in clients' \cup DOMAIN offered' : c[1] \in Nat
        /\ \A s \in ToSet(stack)' : s \in Nat /\ s <= at
    BY <1>0, <1>2, Behind DEF IInv, ToSet
  <2>2. /\ \A c \in clients' : c[2] <= startups /\ (c[2] = startups => c[1] <= at)
        /\ \A c \in DOMAIN offered' : c[2] = startups /\ c[1] <= at
    BY <1>0, <1>2, Behind DEF IInv
  <2>3. /\ ~cutShort => clients' = StackClients'
        /\ ~cutShort /\ ~leaked => connected' = StackClients'
    BY <1>0, <1>2 DEF IInv, ConnectionsInv, StackClients
  <2>4. /\ InOrder' /\ ExposedExact' /\ ConnectionsInv'
        /\ pc' \in Starting \cup {"idle", "stopping"}
        /\ at' \in 0..Len(Services) /\ (at' = 0 <=> pc' \notin Starting)
        /\ owned' \in BOOLEAN /\ started' \in BOOLEAN
        /\ started' => owned'
    BY <1>0, <1>2, <2>1, <2>2, <2>3, Onward DEF IInv
  <2>5. TypeOK'
    BY <1>2, <2>4 DEF IInv, TypeOK
  <2>6. RoutesExact' /\ ToolsExact'
    BY <1>2, <2>4, IndexStays DEF IInv
  <2> QED
    BY <2>4, <2>5, <2>6 DEF IInv
<1> QED
  BY <1>1, <1>2 DEF Connect

\* The work on a service leaves its client closed and refused.
LEMMA DiscardStep ==
    ASSUME IInv, Discard
    PROVE  IInv'
<1> USE DEF history
<1>0. /\ startups > 0 /\ startups \in Nat /\ at \in 1..Len(Services)
      /\ Client \in AllClients /\ pc \in Starting /\ pc = "discarding"
  BY Behind DEF IInv, Discard, Starting
<1>1. /\ UNCHANGED <<startups, offered, stack, clients, routes, tools, failing,
                     cutShort, leaked>>
      /\ connected' = connected \ {Client}
      /\ NextService
  BY DEF Discard, Disconnect
<1>2. /\ \A c \in clients' \cup DOMAIN offered' : c[1] \in Nat
      /\ \A s \in ToSet(stack)' : s \in Nat /\ s <= at
  BY <1>0, <1>1, Behind DEF IInv, ToSet
<1>3. /\ \A c \in clients' : c[2] <= startups /\ (c[2] = startups => c[1] <= at)
      /\ \A c \in DOMAIN offered' : c[2] = startups /\ c[1] <= at
  BY <1>0, <1>1, Behind DEF IInv
<1>4. Client \notin StackClients
  BY <1>0, Behind DEF IInv
<1>5. /\ ~cutShort => clients' = StackClients'
      /\ ~cutShort /\ ~leaked => connected' = StackClients'
  BY <1>0, <1>1, <1>4 DEF IInv, ConnectionsInv, StackClients
<1>6. /\ InOrder' /\ ExposedExact' /\ ConnectionsInv'
      /\ pc' \in Starting \cup {"idle", "stopping"}
      /\ at' \in 0..Len(Services) /\ (at' = 0 <=> pc' \notin Starting)
      /\ owned' \in BOOLEAN /\ started' \in BOOLEAN
      /\ started' => owned'
  BY <1>0, <1>1, <1>2, <1>3, <1>5, Onward DEF IInv
<1>7. TypeOK'
  BY <1>1, <1>6 DEF IInv, TypeOK
<1>8. RoutesExact' /\ ToolsExact'
  BY <1>1, <1>6, IndexStays DEF IInv
<1> QED
  BY <1>6, <1>7, <1>8 DEF IInv


\* Registering a service replaces an earlier client of it and keeps the other
\* services' clients; nothing leads to the new client yet.
LEMMA Replacing ==
    ASSUME IInv, pc \in Starting
    PROVE  /\ Client \in Registered /\ Registered \subseteq clients \cup {Client}
           /\ Registered \subseteq AllClients
           /\ \A c, d \in Registered : c[1] = d[1] => c = d
           /\ \A c \in clients : \E d \in Registered : d[1] = c[1] /\ c[2] <= d[2]
           /\ \A c \in AllClients :
                c[2] = startups /\ c # Client => (c \in Registered <=> c \in clients)
           /\ clients = StackClients => Registered = clients \cup {Client}
           /\ Client \notin clients
           /\ \A r \in routes : r.client # Client
<1>1. /\ startups \in Nat /\ at \in Nat /\ Client \in AllClients
      /\ Client[1] = at /\ Client[2] = startups
      /\ \A c \in clients : c[1] \in Nat /\ c[2] \in Nat /\ c[2] <= startups
      /\ \A s \in ToSet(stack) : s \in Nat /\ s < at
  BY Behind DEF IInv, Client
<1>2. /\ \A c \in clients : c[2] = startups => c[1] < at
      /\ clients \subseteq AllClients /\ \A c, d \in clients : c[1] = d[1] => c = d
  BY DEF IInv, InOrder, TypeOK
<1>3. /\ Client \in Registered /\ Registered \subseteq clients \cup {Client}
      /\ \A c \in clients : c[1] # at => c \in Registered
      /\ \A c \in Registered : c # Client => c \in clients /\ c[1] # at
  BY DEF Registered
<1>4. \A c, d \in Registered : c[1] = d[1] => c = d
  BY <1>1, <1>2, <1>3
<1>5. ASSUME NEW c \in clients
      PROVE  \E d \in Registered : d[1] = c[1] /\ c[2] <= d[2]
  <2>1. CASE c[1] = at
    BY <1>1, <1>3, <2>1
  <2>2. CASE c[1] # at
    BY <1>1, <1>3, <2>2
  <2> QED
    BY <2>1, <2>2
<1>6. ASSUME NEW c \in AllClients, c[2] = startups, c # Client
      PROVE  c \in Registered <=> c \in clients
  <2>1. c[1] # at
    BY <1>6 DEF Client, AllClients
  <2> QED
    BY <1>3, <1>6, <2>1
<1>7. ASSUME clients = StackClients PROVE Registered = clients \cup {Client}
  <2>1. \A c \in clients : c[1] < at /\ c[1] \in Nat
    BY <1>1, <1>7 DEF StackClients
  <2>2. \A c \in clients : c[1] # at
    BY <1>1, <2>1
  <2> QED
    BY <1>3, <2>2
<1>8. Client \notin clients
  BY <1>1, <1>2
<1>9. ASSUME NEW r \in routes PROVE r.client # Client
  <2>1. PICK c \in clients : c[1] = r.client[1] /\ r.client[2] <= c[2]
    BY DEF IInv, RoutesExact
  <2>2. ~(r.client[1] = at /\ r.client[2] = startups)
    BY <1>1, <1>2, <2>1
  <2> QED
    BY <1>1, <2>2
<1> QED
  BY <1>1, <1>2, <1>3, <1>4, <1>5, <1>6, <1>7, <1>8, <1>9

\* The tools of a service that is registered join the index: their names are
\* new, and each of them has its route.
LEMMA RegisterIndex ==
    ASSUME IInv, pc = "listing", NEW listed \in SUBSET ToolNames, Register(listed),
           offered' = [c \in DOMAIN offered \cup {Client} |->
                         IF c = Client THEN listed ELSE offered[c]]
    PROVE  /\ RoutesExact'
           /\ IsInjective(tools)'
           /\ (ToSet(tools) = Names(routes))'
           /\ (Cardinality(routes) = Len(tools))'
           /\ (\A c \in DOMAIN offered :
                 {r.raw : r \in {q \in routes : q.client = c}}
                   = IF c \in clients THEN offered[c] ELSE {})'
           /\ \A r \in routes' : r.raw \in ToolNames /\ r.client \in AllClients
<1> DEFINE added == {Entry(t) : t \in listed}
           names == Names(added)
<1>0. pc \in Starting
  BY DEF Starting
<1>1. /\ at \in 1..Len(Services) /\ Client \in AllClients /\ Client \notin clients
      /\ Services[at] \in Seq(STRING)
  <2>1. at \in 1..Len(Services) /\ Client \in AllClients /\ at \in Nat
    BY <1>0, Behind DEF IInv
  <2>2. Client \notin clients
    BY <1>0, Replacing
  <2> QED
    BY <2>1, <2>2, ServiceNames
<1>2. /\ \A r \in added : ~Taken(r.name)
      /\ clients' = Registered
      /\ routes' = routes \cup added
      /\ tools' = tools \o SetToSeq(names)
  BY DEF Register
<1>3. \A t \in listed : t \in Seq(STRING) /\ t \in ToolNames
  BY McpAssumption
<1>4. \A r \in added : \E t \in listed :
        /\ r = [name |-> Prefixed(Services[at], t), raw |-> t, client |-> Client]
        /\ r.name = Prefixed(Services[at], t) /\ r.raw = t /\ r.client = Client
  BY DEF Entry
<1>5. \A t \in listed : Entry(t) \in added /\ Entry(t).raw = t
                        /\ Entry(t).client = Client
                        /\ Entry(t).name = Prefixed(Services[at], t)
  BY DEF Entry
<1>6. \A r, q \in added : r.name = q.name => r = q
  <2> SUFFICES ASSUME NEW r \in added, NEW q \in added, r.name = q.name
               PROVE  r = q
    OBVIOUS
  <2>1. PICK t \in listed :
          /\ r = [name |-> Prefixed(Services[at], t), raw |-> t, client |-> Client]
          /\ r.name = Prefixed(Services[at], t)
    BY <1>4
  <2>2. PICK u \in listed :
          /\ q = [name |-> Prefixed(Services[at], u), raw |-> u, client |-> Client]
          /\ q.name = Prefixed(Services[at], u)
    BY <1>4
  <2>3. Prefixed(Services[at], t) = Prefixed(Services[at], u)
    BY <2>1, <2>2
  <2>4. t = u
    BY <1>1, <1>3, <2>3, PrefixedDistinct
  <2> QED
    BY <2>1, <2>2, <2>4
<1>7. IsFiniteSet(names)
  <2> DEFINE f == [t \in listed |-> Prefixed(Services[at], t)]
  <2>1. IsFiniteSet(listed)
    BY McpAssumption, FS_Subset
  <2>2. \A t \in listed : f[t] \in names
    BY <1>5 DEF Names
  <2>3. \A n \in names : \E t \in listed : f[t] = n
    BY <1>4 DEF Names
  <2> HIDE DEF f
  <2>4. f \in [listed -> names]
    BY <2>2 DEF f
  <2>5. f \in Surjection(listed, names)
    BY <2>3, <2>4, Fun_IsSurj
  <2> QED
    BY <2>1, <2>5, FS_Surjection DEF ExistsSurjection
<1>8. Names(routes) \cap names = {}
  BY <1>2 DEF Names, Taken
<1>9. Names(routes') = Names(routes) \cup names
  BY <1>2 DEF Names
<1> HIDE DEF added, names
<1>10. /\ tools' \in Seq(Names(routes'))
       /\ IsInjective(tools')
       /\ ToSet(tools') = Names(routes')
  <2> DEFINE new == SetToSeq(names)
             old == Names(routes)
  <2>1. Lists(new, names)
    BY <1>7, Listing
  <2>2. Lists(tools, old)
    BY DEF IInv, RoutesExact, ToolsExact, Lists
  <2>3. old \cap names = {}
    BY <1>8
  <2> HIDE DEF new, old
  <2>4. Lists(tools \o new, old \cup names)
    BY <2>1, <2>2, <2>3, ListingsJoin
  <2> QED
    BY <1>2, <1>9, <2>4 DEF new, old, Lists
<1>11. ASSUME NEW r \in routes'
       PROVE  /\ r = [name |-> Prefixed(Services[r.client[1]], r.raw),
                      raw |-> r.raw, client |-> r.client]
              /\ \E c \in clients' : c[1] = r.client[1] /\ r.client[2] <= c[2]
              /\ r.raw \in ToolNames /\ r.client \in AllClients
  <2>1. CASE r \in routes
    <3>1. PICK c \in clients : c[1] = r.client[1] /\ r.client[2] <= c[2]
      BY <2>1 DEF IInv, RoutesExact
    <3>2. PICK d \in clients' : d[1] = c[1] /\ c[2] <= d[2]
      BY <1>0, <1>2, Replacing
    <3>3. /\ r.client \in AllClients /\ c \in AllClients /\ d \in AllClients
          /\ r.raw \in ToolNames
      BY <1>0, <1>2, <2>1, Replacing DEF IInv, TypeOK
    <3>4. \A x \in AllClients : x[2] \in Nat
      BY McpAssumption DEF AllClients
    <3>5. d[1] = r.client[1] /\ r.client[2] <= d[2]
      BY <3>1, <3>2, <3>3, <3>4
    <3> QED
      BY <2>1, <3>3, <3>5 DEF IInv, RoutesExact
  <2>2. CASE r \in added
    <3>1. PICK t \in listed :
            /\ r = [name |-> Prefixed(Services[at], t), raw |-> t,
                    client |-> Client]
            /\ r.raw = t /\ r.client = Client
      BY <1>4, <2>2
    <3>2. /\ Client[1] = at /\ Client[2] <= Client[2] /\ Client \in clients'
      BY <1>0, <1>2, Behind, Replacing DEF Client, IInv
    <3> QED
      BY <1>1, <1>2, <1>3, <3>1, <3>2
  <2> QED
    BY <1>2, <2>1, <2>2
<1>12. \A r, q \in routes' : r.name = q.name => r = q
  <2> SUFFICES ASSUME NEW r \in routes', NEW q \in routes', r.name = q.name
               PROVE  r = q
    OBVIOUS
  <2>1. \A x \in routes : x.name \in Names(routes)
    BY DEF Names
  <2>2. \A x \in added : x.name \in names
    BY DEF Names, names
  <2> QED
    BY <1>2, <1>6, <1>8, <2>1, <2>2 DEF IInv, RoutesExact
<1>13. Cardinality(routes') = Len(tools')
  BY <1>10, <1>12, CountByKey
<1>14. ASSUME NEW c \in DOMAIN offered'
       PROVE  {r.raw : r \in {q \in routes' : q.client = c}}
                = IF c \in clients' THEN offered'[c] ELSE {}
  <2>1. CASE c = Client
    <3>1. \A r \in routes : r.client # Client
      BY <1>0, Replacing
    <3>2. {q \in routes' : q.client = Client} = added
      BY <1>2, <1>4, <3>1
    <3>3. {r.raw : r \in added} = listed
      BY <1>4, <1>5
    <3> QED
      BY <1>0, <1>2, <2>1, <3>2, <3>3, Replacing
  <2>2. CASE c # Client
    <3>1. {q \in routes' : q.client = c} = {q \in routes : q.client = c}
      BY <1>2, <1>4, <2>2
    <3>2. c \in DOMAIN offered /\ offered'[c] = offered[c]
      BY <2>2
    <3>3. c \in clients' <=> c \in clients
      <4>1. c \in AllClients /\ c[2] = startups
        BY <3>2 DEF IInv, TypeOK, InOrder
      <4> QED
        BY <1>0, <1>2, <2>2, <4>1, Replacing
    <3> QED
      BY <3>1, <3>2, <3>3 DEF IInv, ToolsExact
  <2> QED
    BY <2>1, <2>2
<1>15. RoutesExact'
  BY <1>10, <1>11, <1>12 DEF RoutesExact, Names
<1> QED
  BY <1>10, <1>11, <1>13, <1>14, <1>15 DEF Names


\* A service that listed its tools is registered, or refused for their names.
LEMMA RegisterStep ==
    ASSUME IInv, pc = "listing", NEW listed \in SUBSET ToolNames, Register(listed),
           offered' = [c \in DOMAIN offered \cup {Client} |->
                         IF c = Client THEN listed ELSE offered[c]],
           UNCHANGED <<startups, failing, connected, history>>
    PROVE  IInv'
<1>0. pc \in Starting
  BY DEF Starting
<1>1. /\ clients' = Registered
      /\ stack' = Append(stack, at)
      /\ NextService
      /\ UNCHANGED <<startups, failing, connected, cutShort, leaked>>
      /\ DOMAIN offered' = DOMAIN offered \cup {Client}
      /\ \A c \in DOMAIN offered' :
           offered'[c] = IF c = Client THEN listed ELSE offered[c]
  BY DEF Register, history
<1>2. /\ startups > 0 /\ startups \in Nat /\ at \in 1..Len(Services) /\ at \in Nat
      /\ Client \in AllClients /\ Client[1] = at /\ Client[2] = startups
  BY <1>0, Behind DEF IInv, Client
<1>3. /\ stack' \in Seq(1..Len(Services)) /\ IsInjective(stack')
      /\ ToSet(stack') = ToSet(stack) \cup {at}
  <2>1. at \notin ToSet(stack)
    BY <1>0, <1>2, Behind DEF IInv
  <2>2. stack \in Seq(1..Len(Services)) /\ IsInjective(stack)
    BY DEF IInv, TypeOK
  <2> QED
    BY <1>1, <1>2, <2>1, <2>2, Pushed
<1>4. /\ \A c \in clients' \cup DOMAIN offered' : c[1] \in Nat
      /\ \A s \in ToSet(stack)' : s \in Nat /\ s <= at
  <2>1. \A s \in ToSet(stack') : s \in Nat /\ s <= at
    BY <1>0, <1>2, <1>3, Behind DEF IInv
  <2> QED
    BY <1>0, <1>1, <1>2, <2>1, Behind, Replacing DEF IInv, ToSet
<1>5. /\ \A c \in clients' : c[2] <= startups /\ (c[2] = startups => c[1] <= at)
      /\ \A c \in DOMAIN offered' : c[2] = startups /\ c[1] <= at
  BY <1>0, <1>1, <1>2, Behind, Replacing DEF IInv
<1>6. StackClients' = StackClients \cup {Client}
  BY <1>1, <1>3 DEF StackClients, Client, ToSet
<1>7. /\ ~cutShort => clients' = StackClients'
      /\ ~cutShort /\ ~leaked => connected' = StackClients'
  BY <1>0, <1>1, <1>6, Replacing DEF IInv, ConnectionsInv
<1>8. /\ InOrder' /\ ExposedExact' /\ ConnectionsInv'
      /\ pc' \in Starting \cup {"idle", "stopping"}
      /\ at' \in 0..Len(Services) /\ (at' = 0 <=> pc' \notin Starting)
      /\ owned' \in BOOLEAN /\ started' \in BOOLEAN
      /\ started' => owned'
  BY <1>0, <1>1, <1>2, <1>4, <1>5, <1>7, Onward DEF IInv
<1>9. /\ RoutesExact'
      /\ IsInjective(tools)'
      /\ (ToSet(tools) = Names(routes))'
      /\ (Cardinality(routes) = Len(tools))'
      /\ (\A c \in DOMAIN offered :
            {r.raw : r \in {q \in routes : q.client = c}}
              = IF c \in clients THEN offered[c] ELSE {})'
      /\ \A r \in routes' : r.raw \in ToolNames /\ r.client \in AllClients
  BY RegisterIndex
<1>10. TypeOK'
  <2>1. clients' \subseteq AllClients /\ \A c, d \in clients' : c[1] = d[1] => c = d
    BY <1>0, <1>1, Replacing
  <2> QED
    BY <1>1, <1>2, <1>3, <1>8, <1>9, <2>1 DEF IInv, TypeOK
<1>11. ToolsExact'
  BY <1>8, <1>9 DEF ToolsExact, ExposedExact
<1> QED
  BY <1>8, <1>9, <1>10, <1>11 DEF IInv

\* list_tools returned or raised: in each case what was listed is registered
\* as a whole or refused as a whole.
LEMMA ListToolsStep ==
    ASSUME IInv, ListTools
    PROVE  IInv'
<1> USE DEF history
<1>0. /\ pc = "listing" /\ pc \in Starting
      /\ UNCHANGED <<startups, failing, connected, cutShort, leaked>>
  BY DEF ListTools, Starting
<1>1. /\ startups > 0 /\ startups \in Nat /\ at \in 1..Len(Services) /\ at \in Nat
      /\ Client \in AllClients /\ Client[1] = at /\ Client[2] = startups
  BY <1>0, Behind DEF IInv, Client
<1>2. ASSUME NEW listed \in SUBSET ToolNames, Register(listed),
             offered' = [c \in DOMAIN offered \cup {Client} |->
                           IF c = Client THEN listed ELSE offered[c]]
      PROVE  IInv'
  BY <1>0, <1>2, RegisterStep
<1>3. ASSUME pc' = "discarding", UNCHANGED <<at, managerVars, handlerVars>>,
             \/ offered' = offered
             \/ \E listed \in SUBSET ToolNames :
                  offered' = [c \in DOMAIN offered \cup {Client} |->
                                IF c = Client THEN listed ELSE offered[c]]
      PROVE  IInv'
  <2> USE <1>3 DEF managerVars, handlerVars
  <2>1. /\ DOMAIN offered' \subseteq DOMAIN offered \cup {Client}
        /\ \A c \in DOMAIN offered' :
             /\ c # Client => c \in DOMAIN offered /\ offered'[c] = offered[c]
             /\ c = Client => offered'[c] \in SUBSET ToolNames
    <3>1. CASE offered' = offered
      BY <3>1 DEF IInv, TypeOK
    <3>2. CASE \E listed \in SUBSET ToolNames :
                 offered' = [c \in DOMAIN offered \cup {Client} |->
                               IF c = Client THEN listed ELSE offered[c]]
      BY <3>2
    <3> QED
      BY <3>1, <3>2
  <2>2. TypeOK'
    BY <1>0, <1>1, <2>1 DEF IInv, TypeOK, Starting
  <2>3. InOrder'
    BY <1>0, <1>1, <2>1 DEF IInv, InOrder, Starting
  <2>4. RoutesExact'
    BY DEF IInv, RoutesExact, Names
  <2>5. ExposedExact'
    BY <1>0 DEF IInv, ExposedExact, Starting
  <2>6. ToolsExact'
    <3>1. Client \notin clients
      BY <1>0, Replacing
    <3>2. \A r \in routes : r.client # Client
      BY <1>0, Replacing
    <3>3. ASSUME NEW c \in DOMAIN offered'
          PROVE  {r.raw : r \in {q \in routes : q.client = c}}
                   = IF c \in clients THEN offered'[c] ELSE {}
      <4>1. CASE c = Client
        BY <3>1, <3>2, <4>1
      <4>2. CASE c # Client
        BY <2>1, <4>2 DEF IInv, ToolsExact
      <4> QED
        BY <4>1, <4>2
    <3> QED
      BY <2>5, <3>3 DEF IInv, ToolsExact, ExposedExact, Names
  <2>7. ConnectionsInv'
    BY <1>0 DEF IInv, ConnectionsInv, Starting, StackClients, Client
  <2> QED
    BY <2>2, <2>3, <2>4, <2>5, <2>6, <2>7 DEF IInv
<1>4. \/ \E listed \in SUBSET ToolNames :
           /\ offered' = [c \in DOMAIN offered \cup {Client} |->
                            IF c = Client THEN listed ELSE offered[c]]
           /\ Register(listed) \/ Refuse(listed)
      \/ /\ pc' = "discarding"
         /\ UNCHANGED <<at, offered, managerVars, handlerVars>>
  BY DEF ListTools
<1> QED
  BY <1>2, <1>3, <1>4 DEF Refuse


\* A startup that is cut short keeps the index and loses its connections.
LEMMA CutShortStep ==
    ASSUME IInv, DiscardFails \/ CancelStartup
    PROVE  IInv'
<1>1. /\ pc \in Starting /\ pc' = "idle" /\ at' = 0 /\ cutShort' = TRUE
      /\ UNCHANGED <<startups, offered, stack, owned, clients, routes, tools,
                     exposed, started, failing>>
      /\ connected' \subseteq connected
      /\ leaked' = TRUE \/ leaked' = leaked
  BY DEF DiscardFails, CancelStartup, CloseRaises, managerVars, handlerVars,
         Starting
<1>2. TypeOK'
  <2>1. at' \in 0..Len(Services) /\ (at' = 0 <=> pc' \notin Starting)
    BY <1>1, ServiceNames DEF Starting
  <2>2. {owned', started', failing', cutShort', leaked'} \subseteq BOOLEAN
    BY <1>1 DEF IInv, TypeOK
  <2>3. connected' \subseteq AllClients
    BY <1>1 DEF IInv, TypeOK
  <2> QED
    BY <1>1, <2>1, <2>2, <2>3 DEF IInv, TypeOK, Starting
<1>3. InOrder'
  BY <1>1 DEF IInv, InOrder, Starting
<1>4. ExposedExact'
  BY <1>1 DEF IInv, ExposedExact, Starting
<1>5. RoutesExact' /\ ToolsExact'
  BY <1>1, <1>4, IndexStays DEF IInv
<1>6. ConnectionsInv'
  BY <1>1 DEF IInv, ConnectionsInv
<1> QED
  BY <1>2, <1>3, <1>4, <1>5, <1>6 DEF IInv

\* A shutdown begins, or has nothing to do.
LEMMA BeginShutdownStep ==
    ASSUME IInv, BeginShutdown
    PROVE  IInv'
<1>1. /\ pc = "idle" /\ started /\ pc' = "stopping" /\ failing' = FALSE
      /\ UNCHANGED <<startups, at, offered, stack, owned, clients, routes, tools,
                     exposed, started, connected, cutShort, leaked>>
  BY DEF BeginShutdown, managerVars, handlerVars, history
<1>2. TypeOK'
  BY <1>1 DEF IInv, TypeOK, Starting
<1>3. InOrder'
  BY <1>1 DEF IInv, InOrder, Starting
<1>4. ExposedExact'
  BY <1>1 DEF IInv, ExposedExact, Starting
<1>5. RoutesExact' /\ ToolsExact'
  BY <1>1, <1>4, IndexStays DEF IInv
<1>6. ConnectionsInv'
  BY <1>1 DEF IInv, ConnectionsInv, Starting, StackClients
<1> QED
  BY <1>2, <1>3, <1>4, <1>5, <1>6 DEF IInv

\* The service on top of the exit stack goes, its client with it unless the
\* close failed.
LEMMA CloseServiceStep ==
    ASSUME IInv, CloseService
    PROVE  IInv'
<1>1. /\ pc = "stopping" /\ stack # <<>> /\ stack' = Front(stack)
      /\ \/ /\ connected' = connected \ {OnTop}
            /\ UNCHANGED <<failing, leaked>>
         \/ /\ connected' \in {connected, connected \ {OnTop}}
            /\ leaked' = TRUE /\ failing' = TRUE
      /\ UNCHANGED <<pc, startups, at, offered, owned, clients, routes, tools,
                     exposed, started, cutShort>>
  BY DEF CloseService, Disconnect, CloseRaises, handlerVars
<1>2. /\ stack' \in Seq(1..Len(Services)) /\ IsInjective(stack')
      /\ stack[Len(stack)] \in ToSet(stack)
      /\ ToSet(stack') = ToSet(stack) \ {stack[Len(stack)]}
  <2>1. stack \in Seq(1..Len(Services)) /\ IsInjective(stack)
    BY DEF IInv, TypeOK
  <2> QED
    BY <1>1, <2>1, Popped
<1>3. TypeOK'
  BY <1>1, <1>2 DEF IInv, TypeOK
<1>4. InOrder'
  BY <1>1 DEF IInv, InOrder, Starting
<1>5. ExposedExact'
  BY <1>1 DEF IInv, ExposedExact
<1>6. RoutesExact' /\ ToolsExact'
  BY <1>1, <1>5, IndexStays DEF IInv
<1>7. StackClients' = StackClients \ {OnTop}
  <2> DEFINE top == stack[Len(stack)]
             old == ToSet(stack)
             new == ToSet(stack')
  <2>1. /\ StackClients = {<<s, startups>> : s \in old}
        /\ StackClients' = {<<s, startups>> : s \in new}
        /\ OnTop = <<top, startups>>
    BY <1>1 DEF StackClients, OnTop, ToSet
  <2>2. new = old \ {top}
    BY <1>2
  <2> HIDE DEF top, old, new
  <2> QED
    BY <2>1, <2>2
<1>8. ConnectionsInv'
  BY <1>1, <1>7 DEF IInv, ConnectionsInv, ExposedExact, Starting
<1> QED
  BY <1>3, <1>4, <1>5, <1>6, <1>8 DEF IInv

\* A shutdown whose stack is empty forgets every service.
LEMMA ShutdownEndsStep ==
    ASSUME IInv, ShutdownEnds
    PROVE  IInv'
<1>1. /\ pc = "stopping" /\ stack = <<>> /\ pc' = "idle" /\ owned' = FALSE
      /\ clients' = {} /\ routes' = {} /\ tools' = <<>> /\ exposed' = <<>>
      /\ started' = FALSE
      /\ UNCHANGED <<startups, at, offered, stack, failing, connected, cutShort,
                     leaked>>
  BY DEF ShutdownEnds, history
<1>0. ToSet(stack) = {} /\ ToSet(tools') = {} /\ Len(tools') = 0
      /\ Names(routes') = {} /\ IsInjective(tools')
  BY <1>1 DEF ToSet, Names, IsInjective
<1>2. TypeOK'
  BY <1>1 DEF IInv, TypeOK, Starting
<1>3. InOrder'
  BY <1>1 DEF IInv, InOrder, Starting
<1>4. ExposedExact'
  BY <1>1 DEF ExposedExact, Starting
<1>5. RoutesExact'
  BY <1>1 DEF RoutesExact, Names
<1>6. ToolsExact'
  <2>1. (ToSet(tools) = Names(routes))'
    BY <1>0 DEF ToSet, Names
  <2>2. (Cardinality(routes) = Len(tools))'
    BY <1>0, <1>1, FS_EmptySet
  <2> QED
    BY <1>0, <1>1, <2>1, <2>2 DEF ToolsExact
<1>7. StackClients = {}
  BY <1>0 DEF StackClients
<1>8. ConnectionsInv'
  BY <1>1, <1>7 DEF IInv, ConnectionsInv, ExposedExact, Starting
<1> QED
  BY <1>2, <1>3, <1>4, <1>5, <1>6, <1>8 DEF IInv

\* A shutdown that raised leaves the handler as it was; some client may be
\* left, and the next attempt finds the exit stack empty.
LEMMA ShutdownFailsStep ==
    ASSUME IInv, ShutdownFails
    PROVE  IInv'
<1>1. /\ pc = "stopping" /\ failing /\ pc' = "idle"
      /\ UNCHANGED <<startups, at, offered, stack, owned, clients, routes, tools,
                     exposed, started, failing, connected, cutShort, leaked>>
  BY DEF ShutdownFails, managerVars, handlerVars, history
<1>2. TypeOK'
  BY <1>1 DEF IInv, TypeOK, Starting
<1>3. InOrder'
  BY <1>1 DEF IInv, InOrder, Starting
<1>4. ExposedExact'
  BY <1>1 DEF IInv, ExposedExact, Starting
<1>5. RoutesExact' /\ ToolsExact'
  BY <1>1, <1>4, IndexStays DEF IInv
<1>6. ConnectionsInv'
  BY <1>1 DEF IInv, ConnectionsInv, ExposedExact, Starting, StackClients
<1> QED
  BY <1>2, <1>3, <1>4, <1>5, <1>6 DEF IInv

\* A stuttering step.
LEMMA StutterStep ==
    ASSUME IInv, UNCHANGED vars
    PROVE  IInv'
<1> USE DEF vars
<1>1. TypeOK'
  BY DEF IInv, TypeOK
<1>2. InOrder'
  BY DEF IInv, InOrder
<1>3. ExposedExact'
  BY DEF IInv, ExposedExact
<1>4. RoutesExact' /\ ToolsExact'
  BY <1>3, IndexStays DEF IInv
<1>5. ConnectionsInv'
  BY DEF IInv, ConnectionsInv, StackClients, Client
<1> QED
  BY <1>1, <1>2, <1>3, <1>4, <1>5 DEF IInv

-----------------------------------------------------------------------------
(* The results.                                                            *)

\* At every step of startups and shutdowns, of any number and whatever fails,
\* the registered services, their tools and their connections agree.
THEOREM Invariant == Spec => []IInv
<1>1. Init => IInv
  BY InitInv
<1>2. IInv /\ [Next]_vars => IInv'
  <2> SUFFICES ASSUME IInv, [Next]_vars PROVE IInv'
    OBVIOUS
  <2>1. CASE BeginStartup
    BY <2>1, BeginStartupStep
  <2>2. CASE Connect
    BY <2>2, ConnectStep
  <2>3. CASE ListTools
    BY <2>3, ListToolsStep
  <2>4. CASE Discard
    BY <2>4, DiscardStep
  <2>5. CASE DiscardFails \/ CancelStartup
    BY <2>5, CutShortStep
  <2>6. CASE BeginShutdown
    BY <2>6, BeginShutdownStep
  <2>7. CASE CloseService
    BY <2>7, CloseServiceStep
  <2>8. CASE ShutdownEnds
    BY <2>8, ShutdownEndsStep
  <2>9. CASE ShutdownFails
    BY <2>9, ShutdownFailsStep
  <2>10. CASE UNCHANGED vars
    BY <2>10, StutterStep
  <2> QED
    BY <2>1, <2>2, <2>3, <2>4, <2>5, <2>6, <2>7, <2>8, <2>9, <2>10 DEF Next
<1> QED
  BY <1>1, <1>2, PTL DEF Spec

\* No two tools the agent offers a model have one name, each has its route,
\* and a service contributes all of its tools or none.
THEOREM IndexExact == Spec => []ToolsExact
<1>1. IInv => ToolsExact
  BY DEF IInv
<1> QED
  BY <1>1, Invariant, PTL

\* As long as no startup was cut short and no close failed, an agent at rest
\* holds the connections of its registered services and no other, and an
\* agent that was shut down has forgotten all of them.
THEOREM NothingLeftOpen == Spec => []ConnectionsExact
<1>1. IInv => ConnectionsExact
  <2> SUFFICES ASSUME IInv, pc = "idle", ~cutShort
               PROVE  /\ ~leaked => connected = clients
                      /\ ~started => clients = {} /\ routes = {} /\ exposed = <<>>
    BY DEF ConnectionsExact
  <2>1. CASE started
    BY <2>1 DEF IInv, ConnectionsInv
  <2>2. CASE ~started
    <3>1. clients = {} /\ exposed = <<>> /\ (~leaked => connected = {})
      BY <2>2 DEF IInv, ConnectionsInv
    <3>2. routes = {}
      BY <3>1 DEF IInv, RoutesExact
    <3> QED
      BY <2>2, <3>1, <3>2
  <2> QED
    BY <2>1, <2>2
<1> QED
  BY <1>1, Invariant, PTL

================================================================================
