-------------------------- MODULE ToolProgress_proof --------------------------
(***************************************************************************)
(* Proofs about ToolProgress, for any set of background tasks and any      *)
(* number of runs, calls and cancellations.  IInv is inductive; what the   *)
(* sink sees of a call follows from it.                                    *)
(***************************************************************************)
EXTENDS ToolProgress, FiniteSetTheorems, SequenceTheorems, TLAPS

-----------------------------------------------------------------------------
(* Queues of waiters, each of them in its queue once.                      *)

\* A waiter that comes is behind the others.
LEMMA AppendWaiter ==
    ASSUME NEW S, NEW q \in Seq(S), NEW x \in S, IsInjective(q),
           ~Contains(q, x)
    PROVE  /\ Append(q, x) \in Seq(S)
           /\ IsInjective(Append(q, x))
           /\ \A y : Contains(Append(q, x), y) <=> Contains(q, y) \/ y = x
<1> DEFINE r == Append(q, x)
<1>1. /\ r \in Seq(S) /\ Len(r) = Len(q) + 1 /\ Len(q) \in Nat
      /\ \A i \in 1..Len(q) : r[i] = q[i]
      /\ r[Len(q) + 1] = x
  BY AppendProperties, LenProperties
<1>2. DOMAIN r = 1..Len(r) /\ DOMAIN q = 1..Len(q)
  BY <1>1, LenProperties
<1>3. \A i \in 1..Len(q) : q[i] # x
  BY DEF Contains
<1> HIDE DEF r
<1>4. IsInjective(r)
  BY <1>1, <1>2, <1>3 DEF IsInjective
<1>5. \A y : Contains(r, y) <=> Contains(q, y) \/ y = x
  BY <1>1 DEF Contains
<1> QED
  BY <1>1, <1>4, <1>5 DEF r

\* The first waiter goes, and only it.
LEMMA TailWaiter ==
    ASSUME NEW S, NEW q \in Seq(S), IsInjective(q), q # <<>>
    PROVE  /\ Tail(q) \in Seq(S)
           /\ IsInjective(Tail(q))
           /\ Contains(q, Head(q))
           /\ \A y : Contains(Tail(q), y) <=> Contains(q, y) /\ y # Head(q)
<1> DEFINE r == Tail(q)
<1>1. /\ r \in Seq(S) /\ Len(r) = Len(q) - 1 /\ Len(q) \in Nat \ {0}
      /\ \A i \in 1..Len(r) : r[i] = q[i + 1]
  BY HeadTailProperties, EmptySeq
<1>2. DOMAIN r = 1..Len(r) /\ DOMAIN q = 1..Len(q) /\ Head(q) = q[1]
  BY <1>1, LenProperties
<1> HIDE DEF r
<1>3. IsInjective(r)
  <2> SUFFICES ASSUME NEW i \in 1..Len(r), NEW j \in 1..Len(r), r[i] = r[j]
               PROVE  i = j
    BY <1>2 DEF IsInjective
  <2>1. i + 1 \in 1..Len(q) /\ j + 1 \in 1..Len(q)
    BY <1>1
  <2>2. q[i + 1] = q[j + 1]
    BY <1>1
  <2>3. i + 1 = j + 1
    BY <1>2, <2>1, <2>2 DEF IsInjective
  <2> QED
    BY <1>1, <2>3
<1>4. Contains(q, Head(q))
  BY <1>1, <1>2 DEF Contains
<1>5. ASSUME NEW y PROVE Contains(r, y) <=> Contains(q, y) /\ y # Head(q)
  <2>1. ASSUME Contains(r, y) PROVE Contains(q, y) /\ y # Head(q)
    <3>1. PICK i \in 1..Len(r) : q[i + 1] = y
      BY <1>1, <2>1 DEF Contains
    <3> QED
      BY <1>1, <1>2, <3>1, SMTT(60) DEF Contains, IsInjective
  <2>2. ASSUME Contains(q, y), y # Head(q) PROVE Contains(r, y)
    <3>1. PICK i \in 1..Len(q) : q[i] = y
      BY <2>2 DEF Contains
    <3>2. i - 1 \in 1..Len(r) /\ r[i - 1] = y
      BY <1>1, <1>2, <2>2, <3>1
    <3> QED
      BY <3>2 DEF Contains
  <2> QED
    BY <2>1, <2>2
<1> QED
  BY <1>1, <1>3, <1>4, <1>5 DEF r

\* A waiter that is cancelled gives up its place, and the others stay.
LEMMA RemoveWaiter ==
    ASSUME NEW S, NEW q \in Seq(S), IsInjective(q), NEW i \in 1..Len(q)
    PROVE  /\ RemoveAt(q, i) \in Seq(S)
           /\ IsInjective(RemoveAt(q, i))
           /\ \A y : Contains(RemoveAt(q, i), y) <=> Contains(q, y) /\ y # q[i]
<1> DEFINE a == SubSeq(q, 1, i - 1)
           b == SubSeq(q, i + 1, Len(q))
           r == a \o b
<1>a. Len(q) \in Nat /\ i <= Len(q)
  BY LenProperties
<1>0. Len(q) \in Nat /\ DOMAIN q = 1..Len(q) /\ \A j \in 1..Len(q) : q[j] \in S
  BY LenProperties, ElementOfSeq
<1>1. a \in Seq(S) /\ Len(a) = i - 1 /\ \A j \in 1..(i - 1) : a[j] = q[j]
  BY <1>0, SubSeqProperties
<1>2. /\ b \in Seq(S) /\ Len(b) = Len(q) - i
      /\ \A j \in 1..(Len(q) - i) : b[j] = q[i + j]
  <2>1. i + 1 \in Int /\ Len(q) \in Int /\ \A j \in (i + 1)..Len(q) : q[j] \in S
    BY <1>0
  <2>2. /\ b \in Seq(S)
        /\ Len(b) = IF i + 1 <= Len(q) THEN Len(q) - (i + 1) + 1 ELSE 0
        /\ \A j \in 1..(Len(q) - (i + 1) + 1) : b[j] = q[(i + 1) + j - 1]
    BY <2>1, SubSeqProperties
  <2> HIDE DEF b
  <2>3. Len(b) = Len(q) - i
    <3>1. CASE i + 1 <= Len(q)
      BY <1>a, <2>2, <3>1
    <3>2. CASE i = Len(q)
      BY <1>a, <2>2, <3>2
    <3> QED
      BY <1>a, <3>1, <3>2
  <2>4. ASSUME NEW j \in 1..(Len(q) - i) PROVE b[j] = q[i + j]
    <3>1. j \in 1..(Len(q) - (i + 1) + 1) /\ (i + 1) + j - 1 = i + j
      BY <1>0
    <3>2. b[j] = q[(i + 1) + j - 1]
      BY <2>2, <3>1
    <3> QED
      BY <3>1, <3>2
  <2> QED
    BY <2>2, <2>3, <2>4
<1> HIDE DEF a, b
<1>3. /\ r \in Seq(S) /\ Len(r) = Len(q) - 1
      /\ \A j \in 1..Len(r) : r[j] = IF j < i THEN q[j] ELSE q[j + 1]
  <2>1. /\ r \in Seq(S) /\ Len(r) = Len(a) + Len(b)
        /\ \A j \in 1..Len(a) + Len(b) :
             r[j] = IF j <= Len(a) THEN a[j] ELSE b[j - Len(a)]
    BY <1>1, <1>2, ConcatProperties
  <2> QED
    BY <1>0, <1>1, <1>2, <2>1, SMTT(60)
<1>4. DOMAIN r = 1..Len(r)
  BY <1>3, LenProperties
<1>5. RemoveAt(q, i) = r
  BY DEF RemoveAt, a, b
<1> HIDE DEF r
<1>6. IsInjective(r)
  <2> SUFFICES ASSUME NEW j \in 1..Len(r), NEW k \in 1..Len(r), r[j] = r[k]
               PROVE  j = k
    BY <1>4 DEF IsInjective
  <2> DEFINE at(m) == IF m < i THEN m ELSE m + 1
  <2>1. at(j) \in 1..Len(q) /\ at(k) \in 1..Len(q)
    BY <1>0, <1>3
  <2>2. q[at(j)] = q[at(k)]
    BY <1>3
  <2>3. at(j) = at(k)
    BY <1>0, <2>1, <2>2 DEF IsInjective
  <2> QED
    BY <1>3, <2>3
<1>7. ASSUME NEW y PROVE Contains(r, y) <=> Contains(q, y) /\ y # q[i]
  <2>1. ASSUME Contains(r, y) PROVE Contains(q, y) /\ y # q[i]
    <3>1. PICK j \in 1..Len(r) : r[j] = y
      BY <2>1 DEF Contains
    <3>2. PICK k \in 1..Len(q) : q[k] = y /\ k # i
      BY <1>0, <1>3, <3>1
    <3> QED
      BY <1>0, <3>2 DEF Contains, IsInjective
  <2>2. ASSUME Contains(q, y), y # q[i] PROVE Contains(r, y)
    <3>1. PICK j \in 1..Len(q) : q[j] = y /\ j # i
      BY <2>2 DEF Contains
    <3>2. \E k \in 1..Len(r) : r[k] = y
      <4>1. CASE j < i
        BY <1>0, <1>3, <3>1, <4>1
      <4>2. CASE j > i
        <5>1. j - 1 \in 1..Len(r) /\ r[j - 1] = y
          BY <1>0, <1>3, <3>1, <4>2
        <5> QED
          BY <5>1
      <4> QED
        BY <3>1, <4>1, <4>2
    <3> QED
      BY <3>2 DEF Contains
  <2> QED
    BY <2>1, <2>2
<1> QED
  BY <1>3, <1>5, <1>6, <1>7

-----------------------------------------------------------------------------
(* Steps of the tasks of a call.                                           *)

USE DEF mainVars, callVars

Waiters == Tasks \cup {Main}

\* The invariant but for its types and the muted updates.
Calm == LockExact /\ QueueExact /\ OpenExact /\ FreshUntilBegun /\ CallInRun

\* The run is none of the tasks, and the bounds are numbers.
LEMMA Names == /\ Main \notin Tasks /\ None \notin Tasks /\ Main # None
               /\ Work \in Tasks /\ MaxCalls \in Nat /\ MaxRuns \in Nat
               /\ MaxCancels \in Nat
BY ProgressAssumption DEF ProgressAssumption, Tasks

\* What a task may be doing.
LEMMA States ==
    /\ {"none", "running", "waiting", "scheduled", "emitting"} \subseteq TaskStates
    /\ {"none", "running", "waiting"} \cap Publishing = {}
BY DEF TaskStates, Publishing

\* A task exists only in a call that was dispatched.
LEMMA TaskBegun ==
    ASSUME IInv, NEW d \in Calls, NEW t \in Tasks, task[d][t] # "none"
    PROVE  ~NotBegun(d) /\ d <= call
BY DEF IInv, FreshUntilBegun, NotBegun, TypeOK, Calls

\* What the steps of a task t of call d have in common: they change the
\* reporter of the call and the task, and at most send the run's own task on
\* to interrupt the call.
MainGoesOn ==
    /\ UNCHANGED <<run, call, runOf, aborted>>
    /\ \/ pc' = pc
       \/ pc \in {"dispatching", "interrupting"} /\ pc' = "interrupting"
    /\ active' \in BOOLEAN /\ unwinding' \in BOOLEAN
    /\ cancels' \in 0..MaxCancels /\ cancels' >= cancels

\* The reporter R goes with the state v of the task.
Fits(R, d, t, v) ==
    /\ R \in Reporters /\ v \in TaskStates
    /\ R.open = reporter[d].open
    /\ IsInjective(R.queue)
    /\ R.holder # None => R.open
    /\ \A u \in Tasks : R.holder = u <=>
           IF u = t THEN v \in Publishing ELSE task[d][u] \in Publishing
    /\ \A x \in Waiters : Contains(R.queue, x) <=>
           IF x = t THEN v = "waiting" ELSE Contains(reporter[d].queue, x)

\* Where the run itself does nothing, it goes on as before.
LEMMA MainStays ==
    ASSUME IInv, UNCHANGED mainVars
    PROVE  MainGoesOn
BY DEF IInv, TypeOK, MainGoesOn

\* A step of one task on its reporter, with the run left as it is.
LEMMA TaskStep ==
    ASSUME IInv, NEW d \in Calls, NEW t \in Tasks, NEW R, NEW v,
           Fits(R, d, t, v),
           ~NotBegun(d), d <= call,
           reporter' = [reporter EXCEPT ![d] = R],
           task' = [task EXCEPT ![d][t] = v],
           muted' \in [Calls -> Nat],
           MainGoesOn
    PROVE  TypeOK' /\ Calm'
<1> USE Names DEF MainGoesOn, Fits
<1>0. TypeOK /\ LockExact /\ QueueExact /\ OpenExact /\ FreshUntilBegun /\ CallInRun
  BY DEF IInv
<1>1. /\ reporter \in [Calls -> Reporters]
      /\ task \in [Calls -> [Tasks -> TaskStates]]
      /\ \A c \in Calls : IsInjective(reporter[c].queue)
  BY <1>0 DEF TypeOK
<1>2. \A c \in Calls : reporter'[c] = IF c = d THEN R ELSE reporter[c]
  BY <1>1
<1>3. \A c \in Calls, u \in Tasks :
        task'[c][u] = IF c = d /\ u = t THEN v ELSE task[c][u]
  BY <1>1
<1>4. TypeOK'
  <2>1. reporter' \in [Calls -> Reporters]
    BY <1>1
  <2>2. task' \in [Calls -> [Tasks -> TaskStates]]
    BY <1>1
  <2>3. \A c \in Calls : IsInjective(reporter'[c].queue)
    BY <1>1, <1>2
  <2>4. pc' \in Locations
    BY <1>0 DEF TypeOK, Locations, Executing
  <2> QED
    BY <1>0, <2>1, <2>2, <2>3, <2>4 DEF TypeOK
<1>5. LockExact'
  BY <1>0, <1>2, <1>3 DEF LockExact
<1>6. QueueExact'
  <2> SUFFICES ASSUME NEW c \in Calls, NEW x \in Waiters
               PROVE  Waits(c, x)' <=> Contains(reporter'[c].queue, x)
    BY DEF QueueExact, Waiters
  <2>1. Waits(c, x) <=> Contains(reporter[c].queue, x)
    BY <1>0 DEF QueueExact, Waiters
  <2>2. CASE x = Main
    <3>1. x # t
      BY <2>2
    <3>2. Waits(c, x)' <=> Waits(c, x)
      BY <2>2 DEF Waits
    <3> QED
      BY <1>2, <2>1, <3>1, <3>2
  <2>3. CASE x # Main
    <3>1. x \in Tasks
      BY <2>3 DEF Waiters
    <3>2. /\ Waits(c, x)' <=> task'[c][x] = "waiting"
          /\ Waits(c, x) <=> task[c][x] = "waiting"
      BY <2>3 DEF Waits
    <3> QED
      BY <1>2, <1>3, <2>1, <3>1, <3>2
  <2> QED
    BY <2>2, <2>3
<1>7. OpenExact'
  <2> SUFFICES ASSUME NEW c \in Calls, reporter'[c].open
               PROVE  c <= call' /\ (CallOver(c)' => cancels' > 0)
    BY DEF OpenExact
  <2>1. reporter[c].open
    BY <1>2
  <2>2. c <= call /\ (CallOver(c) => cancels > 0)
    BY <1>0, <2>1 DEF OpenExact
  <2>3. CallOver(c)' => CallOver(c)
    BY DEF CallOver, Executing
  <2>4. cancels \in Nat
    BY <1>0 DEF TypeOK
  <2> QED
    BY <2>2, <2>3, <2>4
<1>8. FreshUntilBegun'
  <2> SUFFICES ASSUME NEW c \in Calls, NotBegun(c)'
               PROVE  ~reporter'[c].open /\ \A u \in Tasks : task'[c][u] = "none"
    BY DEF FreshUntilBegun
  <2>1. NotBegun(c)
    BY DEF NotBegun
  <2>2. c # d
    BY <2>1
  <2> QED
    BY <1>0, <1>2, <1>3, <2>1, <2>2 DEF FreshUntilBegun
<1>9. CallInRun'
  BY <1>0 DEF CallInRun, Executing
<1> QED
  BY <1>4, <1>5, <1>6, <1>7, <1>8, <1>9 DEF Calm

\* An update is scheduled only in a call that no abort has reached.
LEMMA MutedKept ==
    ASSUME IInv, NEW d \in Calls, NEW t \in Tasks, NEW v \in TaskStates,
           task' = [task EXCEPT ![d][t] = v],
           v # "scheduled" \/ ~Cancelled(d),
           UNCHANGED <<muted, call, runOf, aborted>>
    PROVE  MutedExact'
<1>1. task \in [Calls -> [Tasks -> TaskStates]]
  BY DEF IInv, TypeOK
<1>2. \A c \in Calls, u \in Tasks :
        task'[c][u] = IF c = d /\ u = t THEN v ELSE task[c][u]
  BY <1>1
<1>3. \A c \in Calls : Cancelled(c)' <=> Cancelled(c)
  BY DEF Cancelled
<1> QED
  BY <1>2, <1>3 DEF IInv, MutedExact

\* What the invariant says of one call and one of its tasks.
LEMMA OfCall ==
    ASSUME IInv, NEW d \in Calls
    PROVE  /\ reporter[d] \in Reporters
           /\ reporter[d].queue \in Seq(Waiters)
           /\ IsInjective(reporter[d].queue)
           /\ reporter = [reporter EXCEPT ![d] = reporter[d]]
           /\ \A t \in Tasks :
                /\ task[d][t] \in TaskStates
                /\ task = [task EXCEPT ![d][t] = task[d][t]]
                /\ reporter[d].holder = t <=> task[d][t] \in Publishing
                /\ Contains(reporter[d].queue, t) <=> task[d][t] = "waiting"
           /\ reporter[d].holder # None => reporter[d].open
<1>1. reporter \in [Calls -> Reporters] /\ task \in [Calls -> [Tasks -> TaskStates]]
        /\ IsInjective(reporter[d].queue)
  BY DEF IInv, TypeOK
<1>2. reporter[d].queue \in Seq(Waiters)
  BY <1>1 DEF Reporters, Waiters
<1>3. \A t \in Tasks : Contains(reporter[d].queue, t) <=> task[d][t] = "waiting"
  <2> SUFFICES ASSUME NEW t \in Tasks
               PROVE  Contains(reporter[d].queue, t) <=> task[d][t] = "waiting"
    OBVIOUS
  <2>1. Waits(d, t) <=> Contains(reporter[d].queue, t)
    BY DEF IInv, QueueExact
  <2> QED
    BY <2>1, Names DEF Waits
<1>4. \A t \in Tasks : reporter[d].holder = t <=> task[d][t] \in Publishing
  BY DEF IInv, LockExact
<1>5. reporter[d].holder # None => reporter[d].open
  BY DEF IInv, LockExact
<1> QED
  BY <1>1, <1>2, <1>3, <1>4, <1>5

\* The new records of a reporter are reporters.
LEMMA ReporterTypes ==
    ASSUME NEW r \in Reporters, NEW q \in Seq(Waiters),
           NEW h \in Tasks \cup {None}, NEW b \in BOOLEAN
    PROVE  /\ [r EXCEPT !.queue = q] \in Reporters
           /\ [r EXCEPT !.holder = h, !.queue = q] \in Reporters
           /\ [r EXCEPT !.holder = h, !.drain = b] \in Reporters
           /\ [r EXCEPT !.drain = b] \in Reporters
           /\ [r EXCEPT !.open = b] \in Reporters
           /\ [r EXCEPT !.open = b, !.queue = q] \in Reporters
BY DEF Reporters, Waiters

\* The fields of those that a task writes.
LEMMA ReporterFields ==
    ASSUME NEW r \in Reporters, NEW q, NEW h, NEW b
    PROVE  /\ [r EXCEPT !.queue = q].holder = r.holder
           /\ [r EXCEPT !.queue = q].queue = q
           /\ [r EXCEPT !.queue = q].open = r.open
           /\ [r EXCEPT !.holder = h, !.queue = q].holder = h
           /\ [r EXCEPT !.holder = h, !.queue = q].queue = q
           /\ [r EXCEPT !.holder = h, !.queue = q].open = r.open
           /\ [r EXCEPT !.holder = h, !.drain = b].holder = h
           /\ [r EXCEPT !.holder = h, !.drain = b].queue = r.queue
           /\ [r EXCEPT !.holder = h, !.drain = b].open = r.open
           /\ [r EXCEPT !.drain = b].holder = r.holder
           /\ [r EXCEPT !.drain = b].queue = r.queue
           /\ [r EXCEPT !.drain = b].open = r.open
BY DEF Reporters

\* A task that neither waits nor publishes fits any reporter it left.
LEMMA IdleFits ==
    ASSUME IInv, NEW d \in Calls, NEW t \in Tasks,
           task[d][t] \in {"none", "running"}, NEW v \in {"none", "running"}
    PROVE  Fits(reporter[d], d, t, v)
<1>1. v \in TaskStates /\ v \notin Publishing /\ v # "waiting"
        /\ task[d][t] \notin Publishing /\ task[d][t] # "waiting"
  BY DEF TaskStates, Publishing
<1> QED
  BY <1>1, OfCall DEF Fits

\* A task ends without a report.
LEMMA TaskEndsStep ==
    ASSUME IInv, NEW d \in Calls, NEW t \in Tasks, TaskEnds(d, t)
    PROVE  IInv'
<1>1. /\ task[d][t] = "running" /\ task' = [task EXCEPT ![d][t] = "none"]
      /\ UNCHANGED <<mainVars, reporter, muted>>
  BY DEF TaskEnds
<1>2. reporter' = [reporter EXCEPT ![d] = reporter[d]]
  BY <1>1, OfCall
<1>3. ~NotBegun(d) /\ d <= call
  BY <1>1, TaskBegun
<1>4. MainGoesOn /\ muted' \in [Calls -> Nat]
  BY <1>1, MainStays DEF IInv, TypeOK
<1>5. Fits(reporter[d], d, t, "none")
  BY <1>1, IdleFits
<1>6. TypeOK' /\ Calm'
  BY <1>1, <1>2, <1>3, <1>4, <1>5, TaskStep
<1>7. MutedExact'
  BY <1>1, States, MutedKept
<1> QED
  BY <1>6, <1>7 DEF IInv, Calm

\* The handler starts a task of its own.
LEMMA SpawnStep ==
    ASSUME IInv, NEW t \in Background, SpawnBackground(t)
    PROVE  IInv'
<1> DEFINE d == call
<1>1. /\ pc \in {"dispatching", "interrupting"}
      /\ task[d][t] = "none" /\ task' = [task EXCEPT ![d][t] = "running"]
      /\ UNCHANGED <<mainVars, reporter, muted>>
  BY DEF SpawnBackground
<1>2. d \in Calls /\ t \in Tasks
  BY <1>1 DEF IInv, CallInRun, TypeOK, Executing, Calls, Tasks
<1>3. ~NotBegun(d) /\ d <= call
  BY <1>1, <1>2 DEF NotBegun, Calls
<1> HIDE DEF d
<1>4. reporter' = [reporter EXCEPT ![d] = reporter[d]]
  BY <1>1, <1>2, OfCall
<1>5. MainGoesOn /\ muted' \in [Calls -> Nat]
  BY <1>1, MainStays DEF IInv, TypeOK
<1>6. Fits(reporter[d], d, t, "running")
  BY <1>1, <1>2, IdleFits
<1>7. TypeOK' /\ Calm'
  BY <1>1, <1>2, <1>3, <1>4, <1>5, <1>6, TaskStep
<1>8. MutedExact'
  BY <1>1, <1>2, States, MutedKept
<1> QED
  BY <1>7, <1>8 DEF IInv, Calm

\* With the lock free and itself at the head of the queue or not in it, a
\* reporting task takes the lock or goes on.
LEMMA AdmitStep ==
    ASSUME IInv, NEW d \in Calls, NEW t \in Tasks,
           task[d][t] \in {"running", "waiting"},
           reporter[d].holder = None,
           NEW q \in Seq(Waiters), IsInjective(q),
           \A x \in Waiters :
               Contains(q, x) <=> Contains(reporter[d].queue, x) /\ x # t,
           Admit(d, t, q), UNCHANGED <<mainVars, muted>>
    PROVE  IInv'
<1>1. ~NotBegun(d) /\ d <= call
  BY TaskBegun
<1>2. MainGoesOn /\ muted' \in [Calls -> Nat]
  BY MainStays DEF IInv, TypeOK
<1>3. {"scheduled", "running"} \subseteq TaskStates /\ "running" \notin Publishing
        /\ "scheduled" \in Publishing /\ "waiting" \notin Publishing
  BY DEF TaskStates, Publishing
<1>4. \A u \in Tasks : task[d][u] \notin Publishing
  BY OfCall, Names
<1>5. CASE Accepts(d)
  <2> DEFINE R == [reporter[d] EXCEPT !.holder = t, !.queue = q]
  <2>1. /\ task' = [task EXCEPT ![d][t] = "scheduled"]
        /\ reporter' = [reporter EXCEPT ![d] = R]
    BY <1>5, SMTT(60) DEF Admit
  <2>2. R \in Reporters
    BY OfCall, ReporterTypes
  <2>3. R.holder = t /\ R.queue = q /\ R.open = reporter[d].open
    BY OfCall, ReporterFields
  <2>4. reporter[d].open
    BY <1>5 DEF Accepts
  <2> HIDE DEF R
  <2>5. Fits(R, d, t, "scheduled")
    BY <1>3, <1>4, <2>2, <2>3, <2>4 DEF Fits
  <2>6. TypeOK' /\ Calm'
    BY <1>1, <1>2, <2>1, <2>5, TaskStep
  <2>7. MutedExact'
    BY <1>3, <1>5, <2>1, MutedKept DEF Accepts
  <2> QED
    BY <2>6, <2>7 DEF IInv, Calm
<1>6. CASE ~Accepts(d)
  <2> DEFINE R == [reporter[d] EXCEPT !.queue = q]
  <2>1. /\ task' = [task EXCEPT ![d][t] = "running"]
        /\ reporter' = [reporter EXCEPT ![d] = R]
    BY <1>6 DEF Admit
  <2>2. R \in Reporters
    BY OfCall, ReporterTypes
  <2>3. R.holder = None /\ R.queue = q /\ R.open = reporter[d].open
    BY OfCall, ReporterFields
  <2> HIDE DEF R
  <2>4. Fits(R, d, t, "running")
    BY <1>3, <1>4, <2>2, <2>3, Names DEF Fits
  <2>5. TypeOK' /\ Calm'
    BY <1>1, <1>2, <2>1, <2>4, TaskStep
  <2>6. MutedExact'
    BY <1>3, <2>1, States, MutedKept
  <2> QED
    BY <2>5, <2>6 DEF IInv, Calm
<1> QED
  BY <1>5, <1>6

\* A task reports: it is admitted, refused or queued.
LEMMA ReportStep ==
    ASSUME IInv, NEW d \in Calls, NEW t \in Tasks, Report(d, t)
    PROVE  IInv'
<1>1. task[d][t] = "running" /\ UNCHANGED <<mainVars, muted>>
  BY DEF Report
<1>2. ~Contains(reporter[d].queue, t)
  BY <1>1, OfCall
<1>3. CASE LockFree(d) /\ Admit(d, t, reporter[d].queue)
  <2>1. \A x \in Waiters : Contains(reporter[d].queue, x) <=>
            Contains(reporter[d].queue, x) /\ x # t
    BY <1>2
  <2>2. reporter[d].holder = None
    BY <1>3 DEF LockFree
  <2> QED
    BY <1>1, <1>3, <2>1, <2>2, OfCall, AdmitStep
<1>4. CASE /\ reporter' = [reporter EXCEPT ![d].queue = Append(@, t)]
           /\ task' = [task EXCEPT ![d][t] = "waiting"]
  <2> DEFINE q == Append(reporter[d].queue, t)
             R == [reporter[d] EXCEPT !.queue = q]
  <2>1. reporter' = [reporter EXCEPT ![d] = R]
    BY <1>4
  <2>2. q \in Seq(Waiters) /\ IsInjective(q)
          /\ \A x : Contains(q, x) <=> Contains(reporter[d].queue, x) \/ x = t
    BY <1>2, OfCall, AppendWaiter, SMTT(60) DEF Waiters
  <2> HIDE DEF q
  <2>3. R \in Reporters
    BY <2>2, OfCall, ReporterTypes
  <2>4. R.holder = reporter[d].holder /\ R.queue = q /\ R.open = reporter[d].open
    BY OfCall, ReporterFields
  <2> HIDE DEF R
  <2>5. "waiting" \in TaskStates /\ "waiting" \notin Publishing /\ "running" \notin Publishing
    BY DEF TaskStates, Publishing
  <2>6. Fits(R, d, t, "waiting")
    BY <1>1, <2>2, <2>3, <2>4, <2>5, OfCall DEF Fits
  <2>7. MainGoesOn /\ muted' \in [Calls -> Nat] /\ ~NotBegun(d) /\ d <= call
    BY <1>1, MainStays, TaskBegun DEF IInv, TypeOK
  <2>8. TypeOK' /\ Calm'
    BY <1>4, <2>1, <2>6, <2>7, TaskStep
  <2>9. MutedExact'
    BY <1>1, <1>4, States, MutedKept
  <2> QED
    BY <2>8, <2>9 DEF IInv, Calm
<1> QED
  BY <1>3, <1>4 DEF Report

\* The first task of the queue gets the lock.
LEMMA ReportAcquiresStep ==
    ASSUME IInv, NEW d \in Calls, NEW t \in Tasks, ReportAcquires(d, t)
    PROVE  IInv'
<1>1. /\ task[d][t] = "waiting" /\ reporter[d].holder = None
      /\ reporter[d].queue # <<>> /\ Head(reporter[d].queue) = t
      /\ Admit(d, t, Tail(reporter[d].queue)) /\ UNCHANGED <<mainVars, muted>>
  BY DEF ReportAcquires
<1> DEFINE q == Tail(reporter[d].queue)
<1>2. q \in Seq(Waiters) /\ IsInjective(q)
        /\ \A x : Contains(q, x) <=> Contains(reporter[d].queue, x) /\ x # t
  BY <1>1, OfCall, TailWaiter
<1> HIDE DEF q
<1>3. Admit(d, t, q)
  BY <1>1 DEF q
<1> QED
  BY <1>1, <1>2, <1>3, AdmitStep

\* The lock is left by the task that held it.
LEMMA ReleaseStep ==
    ASSUME IInv, NEW d \in Calls, NEW t \in Tasks, task[d][t] \in Publishing,
           Release(d, t), MainGoesOn, UNCHANGED muted
    PROVE  IInv'
<1> DEFINE R == [reporter[d] EXCEPT !.holder = None, !.drain = FALSE]
<1>1. /\ reporter' = [reporter EXCEPT ![d] = R]
      /\ task' = [task EXCEPT ![d][t] = "running"]
  BY SMTT(60) DEF Release
<1>2. R \in Reporters
  BY OfCall, ReporterTypes
<1>3. R.holder = None /\ R.queue = reporter[d].queue /\ R.open = reporter[d].open
  BY OfCall, ReporterFields
<1> HIDE DEF R
<1>4. "running" \in TaskStates /\ "running" \notin Publishing /\ "waiting" \notin Publishing
        /\ "none" \notin Publishing
  BY DEF TaskStates, Publishing
<1>5. reporter[d].holder = t /\ \A u \in Tasks \ {t} : task[d][u] \notin Publishing
  BY OfCall
<1>6. Fits(R, d, t, "running")
  <2>1. \A u \in Tasks : R.holder = u <=>
            IF u = t THEN "running" \in Publishing ELSE task[d][u] \in Publishing
    BY <1>3, <1>4, <1>5, Names
  <2>2. ~Contains(reporter[d].queue, t)
    BY <1>4, OfCall
  <2> QED
    BY <1>2, <1>3, <1>4, <2>1, <2>2, OfCall DEF Fits
<1>7. muted' \in [Calls -> Nat] /\ ~NotBegun(d) /\ d <= call
  BY <1>4, TaskBegun DEF IInv, TypeOK
<1>8. TypeOK' /\ Calm'
  BY <1>1, <1>6, <1>7, TaskStep
<1>9. MutedExact'
  BY <1>1, States, MutedKept DEF MainGoesOn
<1> QED
  BY <1>8, <1>9 DEF IInv, Calm

\* The sink is done with an update.
LEMMA EmissionEndsStep ==
    ASSUME IInv, NEW d \in Calls, NEW t \in Tasks, EmissionEnds(d, t)
    PROVE  IInv'
<1>1. MainGoesOn
  BY MainStays DEF EmissionEnds
<1> QED
  BY <1>1, ReleaseStep DEF EmissionEnds, Publishing

\* An update that the sink gets after an abort was scheduled before it; it is
\* the first of its call, and no other is on its way.
LEMMA EmissionStartsStep ==
    ASSUME IInv, NEW d \in Calls, NEW t \in Tasks, EmissionStarts(d, t)
    PROVE  IInv'
<1>1. task[d][t] = "scheduled" /\ task[d][t] \in Publishing /\ UNCHANGED mainVars
  BY DEF EmissionStarts, Publishing
<1>2. MainGoesOn
  BY <1>1, MainStays
<1>3. CASE Release(d, t) /\ UNCHANGED muted
  BY <1>1, <1>2, <1>3, ReleaseStep
<1>4. CASE /\ task' = [task EXCEPT ![d][t] = "emitting"]
           /\ muted' = IF Cancelled(d) THEN [muted EXCEPT ![d] = @ + 1] ELSE muted
           /\ UNCHANGED reporter
  <2>1. reporter' = [reporter EXCEPT ![d] = reporter[d]]
    BY <1>4, OfCall
  <2>2. "emitting" \in TaskStates /\ "emitting" \in Publishing /\ "waiting" \notin Publishing
    BY DEF TaskStates, Publishing
  <2>3. ~Contains(reporter[d].queue, t)
    BY <1>1, OfCall
  <2>4. Fits(reporter[d], d, t, "emitting")
    BY <1>1, <2>2, <2>3, OfCall DEF Fits
  <2>5. ~NotBegun(d) /\ d <= call
    BY <1>1, TaskBegun
  <2>6. muted \in [Calls -> Nat]
    BY DEF IInv, TypeOK
  <2>7. muted' \in [Calls -> Nat]
    BY <1>4, <2>6
  <2>8. TypeOK' /\ Calm'
    BY <1>2, <1>4, <2>1, <2>4, <2>5, <2>7, TaskStep
  <2>9. MutedExact'
    <3>1. \A u \in Tasks \ {t} : task[d][u] # "scheduled"
      BY <1>1, OfCall DEF Publishing
    <3>2. task \in [Calls -> [Tasks -> TaskStates]]
      BY DEF IInv, TypeOK
    <3>3. \A c \in Calls, u \in Tasks :
            task'[c][u] = IF c = d /\ u = t THEN "emitting" ELSE task[c][u]
      BY <1>4, <3>2
    <3>4. \A c \in Calls : Cancelled(c)' <=> Cancelled(c)
      BY <1>1 DEF Cancelled
    <3>5. MutedExact
      BY DEF IInv
    <3>6. muted[d] = 0
      BY <1>1, <3>5 DEF MutedExact
    <3>7. \A c \in Calls : c # d => muted'[c] = muted[c]
      BY <1>4, <2>6
    <3>8. muted'[d] = IF Cancelled(d) THEN 1 ELSE 0
      BY <1>4, <2>6, <3>6
    <3> SUFFICES ASSUME NEW c \in Calls, muted'[c] # 0
                 PROVE  /\ muted'[c] = 1 /\ c <= call' /\ Cancelled(c)'
                        /\ \A u \in Tasks : task'[c][u] # "scheduled"
      BY DEF MutedExact
    <3>9. CASE c = d
      BY <1>1, <2>5, <3>1, <3>3, <3>4, <3>8, <3>9
    <3>10. CASE c # d
      BY <1>1, <3>3, <3>4, <3>5, <3>7, <3>10 DEF MutedExact
    <3> QED
      BY <3>9, <3>10
  <2> QED
    BY <2>8, <2>9 DEF IInv, Calm
<1> QED
  BY <1>3, <1>4 DEF EmissionStarts

\* task.cancel() keeps the lock with a task whose update is still on its way
\* and takes a waiter out of the queue.
LEMMA InterruptStep ==
    ASSUME IInv, NEW d \in Calls, NEW t \in Tasks, Interrupt(d, t),
           MainGoesOn, UNCHANGED muted, ~NotBegun(d), d <= call
    PROVE  IInv'
<1>0. muted' \in [Calls -> Nat]
  BY DEF IInv, TypeOK
<1>1. CASE /\ task[d][t] = "waiting"
           /\ reporter' = [reporter EXCEPT ![d] = Unqueue(d, t)]
           /\ task' = [task EXCEPT ![d][t] = "running"]
  <2> DEFINE i == CHOOSE j \in 1..Len(reporter[d].queue) : reporter[d].queue[j] = t
             q == RemoveAt(reporter[d].queue, i)
             R == [reporter[d] EXCEPT !.queue = q]
  <2>1. reporter' = [reporter EXCEPT ![d] = R]
    BY <1>1 DEF Unqueue
  <2>2. Contains(reporter[d].queue, t)
    BY <1>1, OfCall
  <2>3. \E j \in 1..Len(reporter[d].queue) : reporter[d].queue[j] = t
    BY <2>2 DEF Contains
  <2>4. i \in 1..Len(reporter[d].queue) /\ reporter[d].queue[i] = t
    BY <2>3, SMTT(60)
  <2> HIDE DEF i
  <2>5. q \in Seq(Waiters) /\ IsInjective(q)
          /\ \A x : Contains(q, x) <=> Contains(reporter[d].queue, x) /\ x # t
    BY <2>4, OfCall, RemoveWaiter
  <2> HIDE DEF q
  <2>6. R \in Reporters
    BY <2>5, OfCall, ReporterTypes
  <2>7. R.holder = reporter[d].holder /\ R.queue = q /\ R.open = reporter[d].open
    BY OfCall, ReporterFields
  <2> HIDE DEF R
  <2>8. "running" \in TaskStates /\ "waiting" \notin Publishing /\ "running" \notin Publishing
    BY DEF TaskStates, Publishing
  <2>9. Fits(R, d, t, "running")
    BY <1>1, <2>5, <2>6, <2>7, <2>8, OfCall DEF Fits
  <2>10. TypeOK' /\ Calm'
    BY <1>0, <1>1, <2>1, <2>9, TaskStep
  <2>11. MutedExact'
    BY <1>1, States, MutedKept DEF MainGoesOn
  <2> QED
    BY <2>10, <2>11 DEF IInv, Calm
<1>2. CASE /\ task[d][t] \in Publishing
           /\ reporter' = [reporter EXCEPT ![d] = Drain(d)]
           /\ UNCHANGED task
  <2> DEFINE R == [reporter[d] EXCEPT !.drain = TRUE]
  <2>1. reporter' = [reporter EXCEPT ![d] = R] /\ task' = [task EXCEPT ![d][t] = task[d][t]]
    BY <1>2, OfCall DEF Drain
  <2>2. R \in Reporters
    BY OfCall, ReporterTypes
  <2>3. /\ R.holder = reporter[d].holder /\ R.queue = reporter[d].queue
        /\ R.open = reporter[d].open
    BY OfCall, ReporterFields
  <2> HIDE DEF R
  <2>4. Fits(R, d, t, task[d][t])
    BY <1>2, <2>2, <2>3, OfCall DEF Fits
  <2>5. TypeOK' /\ Calm'
    BY <1>0, <2>1, <2>4, TaskStep
  <2>6. MutedExact'
    BY <1>2 DEF IInv, MutedExact, Cancelled, MainGoesOn
  <2> QED
    BY <2>5, <2>6 DEF IInv, Calm
<1>3. CASE /\ task[d][t] \in Publishing
           /\ reporter' = [reporter EXCEPT ![d] =
                               [@ EXCEPT !.holder = None, !.drain = FALSE]]
           /\ task' = [task EXCEPT ![d][t] = "running"]
  <2>1. Release(d, t)
    BY <1>3 DEF Release
  <2> QED
    BY <1>3, <2>1, ReleaseStep
<1>4. CASE task[d][t] \in {"none", "running"} /\ UNCHANGED <<reporter, task>>
  <2>1. /\ reporter' = [reporter EXCEPT ![d] = reporter[d]]
        /\ task' = [task EXCEPT ![d][t] = task[d][t]]
    BY <1>4, OfCall
  <2>2. Fits(reporter[d], d, t, task[d][t])
    BY <1>4, IdleFits
  <2>3. TypeOK' /\ Calm'
    BY <1>0, <2>1, <2>2, TaskStep
  <2>4. MutedExact'
    BY <1>4 DEF IInv, MutedExact, Cancelled, MainGoesOn
  <2> QED
    BY <2>3, <2>4 DEF IInv, Calm
<1> QED
  BY <1>1, <1>2, <1>3, <1>4 DEF Interrupt

-----------------------------------------------------------------------------
(* Steps of the run's own task.                                            *)

MainTypes ==
    /\ pc \in Locations
    /\ run \in 0..MaxRuns /\ call \in 0..MaxCalls /\ cancels \in 0..MaxCancels
    /\ active \in BOOLEAN /\ unwinding \in BOOLEAN
    /\ runOf \in [Calls -> 0..MaxRuns]
    /\ aborted \subseteq 1..MaxRuns

\* A step of the run outside its tool calls: it may begin the next call, and
\* forgets neither an abort nor the run of a call.
LEMMA MainStep ==
    ASSUME IInv, UNCHANGED callVars, MainTypes', CallInRun',
           pc \notin Executing, pc' \notin Executing,
           call' >= call, cancels' >= cancels, aborted \subseteq aborted',
           \A c \in Calls : c <= call => runOf'[c] = runOf[c],
           \A c \in Calls : NotBegun(c)' => NotBegun(c)
    PROVE  IInv'
<1>1. TypeOK'
  BY DEF IInv, TypeOK, MainTypes
<1>2. LockExact'
  BY DEF IInv, LockExact
<1>3. QueueExact'
  <2>1. "closing" \in Executing
    BY DEF Executing
  <2>2. \A c \in Calls, x \in Waiters : Waits(c, x)' <=> Waits(c, x)
    BY <2>1 DEF Waits
  <2> QED
    BY <2>2 DEF IInv, QueueExact, Waiters
<1>4. call \in Nat /\ call' \in Nat /\ cancels \in Nat /\ cancels' \in Nat
        /\ Calls \subseteq Nat
  BY DEF IInv, TypeOK, MainTypes, Calls
<1>5. OpenExact'
  <2> SUFFICES ASSUME NEW c \in Calls, reporter[c].open
               PROVE  c <= call' /\ cancels' > 0
    BY DEF OpenExact
  <2>1. CallOver(c)
    BY DEF CallOver
  <2>2. c <= call /\ cancels > 0
    BY <2>1 DEF IInv, OpenExact
  <2>3. c \in Nat
    BY <1>4
  <2> QED
    BY <1>4, <2>2, <2>3
<1>6. MutedExact'
  <2>1. muted' = muted /\ task' = task
    BY DEF callVars
  <2> SUFFICES ASSUME NEW c \in Calls, muted[c] # 0
               PROVE  /\ muted[c] = 1 /\ c <= call' /\ Cancelled(c)'
                      /\ \A t \in Tasks : task[c][t] # "scheduled"
    BY <2>1 DEF MutedExact
  <2>2. /\ muted[c] = 1 /\ c <= call /\ Cancelled(c)
        /\ \A t \in Tasks : task[c][t] # "scheduled"
    BY DEF IInv, MutedExact
  <2>3. c \in Nat
    BY <1>4
  <2>4. c <= call'
    BY <1>4, <2>2, <2>3
  <2>5. Cancelled(c)'
    BY <2>2 DEF Cancelled
  <2> QED
    BY <2>2, <2>4, <2>5
<1>7. FreshUntilBegun'
  BY DEF IInv, FreshUntilBegun
<1> QED
  BY <1>1, <1>2, <1>3, <1>5, <1>6, <1>7 DEF IInv

\* The actions that only move the run between its tool calls.
LEMMA OutsideSteps ==
    ASSUME IInv,
           \/ BeginRun \/ StartCall \/ EndTurn \/ TurnSettled \/ EndRun
           \/ CallSettled
    PROVE  IInv'
<1> USE Names DEF Executing
<1>0. MainTypes /\ CallInRun /\ Calls = 1..MaxCalls
  BY DEF IInv, TypeOK, MainTypes, Calls
<1>1. CASE StartCall
  <2>1. /\ pc = "outside" /\ pc' = "toolStarted" /\ call' = call + 1
        /\ runOf' = [runOf EXCEPT ![call + 1] = run]
        /\ UNCHANGED <<run, active, aborted, unwinding, cancels, callVars>>
        /\ call < MaxCalls
    BY <1>1 DEF StartCall
  <2>2. MainTypes'
    BY <1>0, <2>1 DEF MainTypes, Locations, MainEmits
  <2>3. CallInRun'
    BY <1>0, <2>1 DEF CallInRun, MainTypes
  <2>4. \A c \in Calls : c <= call => runOf'[c] = runOf[c]
    BY <1>0, <2>1 DEF MainTypes
  <2>5. \A c \in Calls : NotBegun(c)' => NotBegun(c)
    BY <1>0, <2>1 DEF NotBegun, MainTypes
  <2> QED
    BY <1>0, <2>1, <2>2, <2>3, <2>4, <2>5, MainStep DEF MainTypes
<1>2. CASE BeginRun \/ EndTurn \/ TurnSettled \/ EndRun \/ CallSettled
  <2>1. /\ pc \in {"idle", "outside", "turnCompleted", "finished", "toolCompleted"}
        /\ pc' \in {"outside", "turnCompleted", "finished", "idle"}
        /\ UNCHANGED <<call, runOf, aborted, cancels, callVars>>
    BY <1>2 DEF BeginRun, EndTurn, TurnSettled, EndRun, CallSettled
  <2>2. run' \in 0..MaxRuns /\ (pc' # "idle" => run' > 0)
    BY <1>0, <1>2 DEF BeginRun, EndTurn, TurnSettled, EndRun, CallSettled,
       MainTypes, CallInRun
  <2>3. active' \in BOOLEAN /\ unwinding' \in BOOLEAN
    BY <1>0, <1>2
    DEF BeginRun, EndTurn, TurnSettled, EndRun, CallSettled, MainTypes
  <2>4. MainTypes'
    BY <1>0, <2>1, <2>2, <2>3 DEF MainTypes, Locations, MainEmits
  <2>5. CallInRun'
    BY <2>1, <2>2 DEF CallInRun
  <2>6. \A c \in Calls : NotBegun(c)' => NotBegun(c)
    BY <2>1 DEF NotBegun
  <2>7. call \in Nat /\ cancels \in Nat
    BY <1>0 DEF MainTypes
  <2> QED
    BY <2>1, <2>4, <2>5, <2>6, <2>7, MainStep
<1> QED
  BY <1>1, <1>2

\* The run is aborted.
LEMMA AbortStep == ASSUME IInv, Abort PROVE IInv'
<1>1. /\ pc # "idle" /\ aborted' = aborted \cup {run}
      /\ UNCHANGED <<pc, run, active, call, runOf, unwinding, cancels, callVars>>
  BY DEF Abort
<1>2. run \in 1..MaxRuns
  BY <1>1, Names DEF IInv, TypeOK, CallInRun
<1>3. TypeOK'
  BY <1>1, <1>2 DEF IInv, TypeOK
<1>4. LockExact'
  BY <1>1 DEF IInv, LockExact
<1>5. QueueExact'
  BY <1>1 DEF IInv, QueueExact, Waits
<1>6. OpenExact'
  BY <1>1 DEF IInv, OpenExact, CallOver
<1>7. MutedExact'
  BY <1>1 DEF IInv, MutedExact, Cancelled
<1>8. FreshUntilBegun'
  BY <1>1 DEF IInv, FreshUntilBegun, NotBegun
<1>9. CallInRun'
  BY <1>1 DEF IInv, CallInRun
<1> QED
  BY <1>3, <1>4, <1>5, <1>6, <1>7, <1>8, <1>9 DEF IInv

-----------------------------------------------------------------------------
(* Steps of the run's own task on the reporter of its call.                *)

\* While a call is executed the run is in one of its calls.
LEMMA InCall ==
    ASSUME IInv, pc \in Executing \cup {"toolStarted"}
    PROVE  call \in Calls /\ call \in Nat /\ run > 0
BY DEF IInv, TypeOK, CallInRun, Calls, Executing

\* A step of the run on the reporter of its call.  The call's tasks go on as
\* they are, but for the handler's task that the dispatch makes.
LEMMA CallStep ==
    ASSUME IInv, NEW R \in Reporters, IsInjective(R.queue),
           pc \in Executing \cup {"toolStarted"},
           pc' \in Executing \cup MainEmits, pc' # "toolStarted",
           reporter' = [reporter EXCEPT ![call] = R],
           \/ UNCHANGED task
           \/ /\ task[call][Work] = "none"
              /\ task' = [task EXCEPT ![call][Work] = "running"],
           active' \in BOOLEAN, unwinding' \in BOOLEAN,
           cancels' \in 0..MaxCancels, cancels' >= cancels,
           UNCHANGED <<run, call, runOf, aborted, muted>>,
           R.holder = reporter[call].holder,
           R.holder # None => R.open,
           pc' \notin Executing => ~R.open \/ cancels' > 0,
           \A x \in Tasks :
               Contains(R.queue, x) <=> Contains(reporter[call].queue, x),
           Contains(R.queue, Main) <=> pc' = "closing"
    PROVE  IInv'
<1> USE Names
<1>0. TypeOK /\ LockExact /\ QueueExact /\ OpenExact /\ MutedExact /\ CallInRun
        /\ FreshUntilBegun
  BY DEF IInv
<1>1. call \in Calls /\ run > 0
  BY InCall
<1>2. /\ reporter \in [Calls -> Reporters]
      /\ task \in [Calls -> [Tasks -> TaskStates]]
      /\ \A c \in Calls : IsInjective(reporter[c].queue)
      /\ Calls \subseteq Nat
  BY <1>0 DEF TypeOK, Calls
<1>3. \A c \in Calls : reporter'[c] = IF c = call THEN R ELSE reporter[c]
  BY <1>2
<1>4. \A c \in Calls, u \in Tasks :
        \/ task'[c][u] = task[c][u]
        \/ c = call /\ task[c][u] = "none" /\ task'[c][u] = "running"
  BY <1>2
<1>5. TypeOK'
  <2>1. reporter' \in [Calls -> Reporters]
    BY <1>2
  <2>2. task' \in [Calls -> [Tasks -> TaskStates]]
    BY <1>2, States
  <2>3. \A c \in Calls : IsInjective(reporter'[c].queue)
    BY <1>2, <1>3
  <2>4. pc' \in Locations
    BY DEF Locations
  <2> QED
    BY <1>0, <2>1, <2>2, <2>3, <2>4 DEF TypeOK
<1>6. LockExact'
  <2> SUFFICES ASSUME NEW c \in Calls
               PROVE  /\ \A t \in Tasks :
                           reporter'[c].holder = t <=> task'[c][t] \in Publishing
                      /\ reporter'[c].holder # None => reporter'[c].open
    BY DEF LockExact
  <2>1. reporter'[c].holder = reporter[c].holder
    BY <1>3
  <2>2. \A t \in Tasks : task'[c][t] \in Publishing <=> task[c][t] \in Publishing
    BY <1>4, States
  <2>3. reporter'[c].holder # None => reporter'[c].open
    BY <1>0, <1>3 DEF LockExact
  <2> QED
    BY <1>0, <2>1, <2>2, <2>3 DEF LockExact
<1>7. QueueExact'
  <2> SUFFICES ASSUME NEW c \in Calls, NEW x \in Waiters
               PROVE  Waits(c, x)' <=> Contains(reporter'[c].queue, x)
    BY DEF QueueExact, Waiters
  <2>1. Waits(c, x) <=> Contains(reporter[c].queue, x)
    BY <1>0 DEF QueueExact, Waiters
  <2>2. CASE x = Main
    <3>1. CASE c = call
      BY <1>3, <2>2, <3>1 DEF Waits
    <3>2. CASE c # call
      BY <1>3, <2>1, <2>2, <3>2 DEF Waits
    <3> QED
      BY <3>1, <3>2
  <2>3. CASE x # Main
    <3>1. x \in Tasks
      BY <2>3 DEF Waiters
    <3>2. Waits(c, x)' <=> Waits(c, x)
      BY <1>4, <2>3, <3>1 DEF Waits
    <3>3. Contains(reporter'[c].queue, x) <=> Contains(reporter[c].queue, x)
      BY <1>3, <3>1
    <3> QED
      BY <2>1, <3>2, <3>3
  <2> QED
    BY <2>2, <2>3
<1>8. OpenExact'
  <2> SUFFICES ASSUME NEW c \in Calls, reporter'[c].open
               PROVE  c <= call' /\ (CallOver(c)' => cancels' > 0)
    BY DEF OpenExact
  <2>0. cancels \in Nat /\ cancels' \in Nat
    BY <1>0 DEF TypeOK
  <2>1. CASE c = call
    BY <1>2, <1>3, <2>1 DEF CallOver
  <2>2. CASE c # call
    <3>1. reporter[c].open /\ CallOver(c)
      BY <1>3, <2>2 DEF CallOver
    <3> QED
      BY <1>0, <2>0, <3>1 DEF OpenExact
  <2> QED
    BY <2>1, <2>2
<1>9. MutedExact'
  <2>1. \A c \in Calls : Cancelled(c)' <=> Cancelled(c)
    BY DEF Cancelled
  <2>2. \A c \in Calls, u \in Tasks :
          task'[c][u] = "scheduled" => task[c][u] = "scheduled"
    BY <1>4
  <2> QED
    BY <1>0, <2>1, <2>2 DEF MutedExact
<1>10. FreshUntilBegun'
  <2> SUFFICES ASSUME NEW c \in Calls, NotBegun(c)'
               PROVE  ~reporter'[c].open /\ \A t \in Tasks : task'[c][t] = "none"
    BY DEF FreshUntilBegun
  <2>1. c > call
    BY DEF NotBegun
  <2>2. NotBegun(c) /\ c # call
    BY <1>1, <1>2, <2>1 DEF NotBegun
  <2> QED
    BY <1>0, <1>3, <1>4, <2>2 DEF FreshUntilBegun
<1>11. CallInRun'
  BY <1>0, <1>1 DEF CallInRun, TypeOK, Calls
<1> QED
  BY <1>5, <1>6, <1>7, <1>8, <1>9, <1>10, <1>11 DEF IInv

\* The run waits for the lock of its call's reporter only in close().
LEMMA MainWaits ==
    ASSUME IInv, pc \in Executing \cup {"toolStarted"}
    PROVE  Contains(reporter[call].queue, Main) <=> pc = "closing"
<1>1. Waits(call, Main) <=> Contains(reporter[call].queue, Main)
  BY InCall DEF IInv, QueueExact
<1> QED
  BY <1>1 DEF Waits

\* The parts of a reporter that its opening and closing leave alone.
LEMMA FieldsOfCall ==
    ASSUME NEW r \in Reporters, NEW q, NEW b
    PROVE  /\ [r EXCEPT !.open = b].holder = r.holder
           /\ [r EXCEPT !.open = b].queue = r.queue
           /\ [r EXCEPT !.open = b].open = b
           /\ [r EXCEPT !.open = b, !.queue = q].holder = r.holder
           /\ [r EXCEPT !.open = b, !.queue = q].queue = q
           /\ [r EXCEPT !.open = b, !.queue = q].open = b
BY DEF Reporters

\* A call is dispatched with a reporter of its own.
LEMMA DispatchStep == ASSUME IInv, Dispatch PROVE IInv'
<1> DEFINE R == [reporter[call] EXCEPT !.open = TRUE]
<1>1. /\ pc = "toolStarted" /\ pc' = "dispatching"
      /\ reporter' = [reporter EXCEPT ![call] = R]
      /\ \/ task' = [task EXCEPT ![call][Work] = "running"]
         \/ UNCHANGED task
      /\ UNCHANGED <<run, active, call, runOf, aborted, unwinding, cancels, muted>>
  BY DEF Dispatch
<1>2. call \in Calls /\ pc \in Executing \cup {"toolStarted"}
  BY <1>1, InCall
<1>3. task[call][Work] = "none"
  BY <1>1, <1>2, Names DEF IInv, FreshUntilBegun, NotBegun
<1>4. R \in Reporters
  BY <1>2, OfCall, ReporterTypes
<1>5. R.holder = reporter[call].holder /\ R.queue = reporter[call].queue /\ R.open
  BY <1>2, OfCall, FieldsOfCall
<1> HIDE DEF R
<1>6. Contains(R.queue, Main) <=> pc' = "closing"
  BY <1>1, <1>2, <1>5, MainWaits
<1>7. /\ active \in BOOLEAN /\ unwinding \in BOOLEAN
      /\ cancels \in 0..MaxCancels /\ cancels >= cancels
  BY Names DEF IInv, TypeOK
<1>8. IsInjective(R.queue) /\ pc' \in Executing
  BY <1>1, <1>2, <1>5, OfCall DEF Executing
<1> QED
  BY <1>1, <1>2, <1>3, <1>4, <1>5, <1>6, <1>7, <1>8, CallStep

\* Behind close() the run is out of the call.
LEMMA AfterCloseOutside ==
    AfterClose \in MainEmits /\ AfterClose \notin Executing
      /\ AfterClose # "toolStarted" /\ AfterClose # "closing"
BY DEF AfterClose, MainEmits, Executing

\* close() makes the reporter refuse at once, or waits behind the others.
LEMMA CloseStep == ASSUME IInv, Close PROVE IInv'
<1>1. /\ pc \in {"dispatching", "interrupting"} /\ CloseReporter
      /\ UNCHANGED <<run, active, call, runOf, aborted, unwinding, cancels,
                     task, muted>>
  BY DEF Close
<1>2. pc \in Executing \cup {"toolStarted"} /\ pc # "closing"
  BY <1>1 DEF Executing
<1>3. call \in Calls /\ ~Contains(reporter[call].queue, Main)
  BY <1>2, InCall, MainWaits
<1>4. /\ active \in BOOLEAN /\ unwinding \in BOOLEAN
      /\ cancels \in 0..MaxCancels /\ cancels >= cancels
  BY Names DEF IInv, TypeOK
<1>5. CASE /\ reporter[call].holder = None
           /\ reporter' = [reporter EXCEPT ![call].open = FALSE]
           /\ pc' = AfterClose
  <2> DEFINE R == [reporter[call] EXCEPT !.open = FALSE]
  <2>1. reporter' = [reporter EXCEPT ![call] = R] /\ R \in Reporters
    BY <1>3, <1>5, OfCall, ReporterTypes
  <2>2. /\ R.holder = reporter[call].holder /\ R.queue = reporter[call].queue
        /\ ~R.open /\ IsInjective(R.queue)
    BY <1>3, OfCall, FieldsOfCall
  <2> HIDE DEF R
  <2>3. Contains(R.queue, Main) <=> pc' = "closing"
    BY <1>3, <1>5, <2>2, AfterCloseOutside
  <2> QED
    BY <1>1, <1>2, <1>4, <1>5, <2>1, <2>2, <2>3, AfterCloseOutside, CallStep
<1>6. CASE /\ reporter' = [reporter EXCEPT ![call].queue = Append(@, Main)]
           /\ pc' = "closing"
  <2> DEFINE q == Append(reporter[call].queue, Main)
             R == [reporter[call] EXCEPT !.queue = q]
  <2>1. reporter' = [reporter EXCEPT ![call] = R]
    BY <1>6
  <2>2. q \in Seq(Waiters) /\ IsInjective(q)
          /\ \A x : Contains(q, x) <=> Contains(reporter[call].queue, x) \/ x = Main
    BY <1>3, OfCall, AppendWaiter, SMTT(60) DEF Waiters
  <2> HIDE DEF q
  <2>3. R \in Reporters
    BY <1>3, <2>2, OfCall, ReporterTypes
  <2>4. R.holder = reporter[call].holder /\ R.queue = q /\ R.open = reporter[call].open
    BY <1>3, OfCall, ReporterFields
  <2> HIDE DEF R
  <2>5. Contains(R.queue, Main) <=> pc' = "closing"
    BY <1>6, <2>2, <2>4
  <2>6. \A x \in Tasks : Contains(R.queue, x) <=> Contains(reporter[call].queue, x)
    BY <2>2, <2>4, Names
  <2>7. R.holder # None => R.open
    BY <1>3, <2>4, OfCall
  <2>8. pc' \in Executing /\ pc' # "toolStarted"
    BY <1>6 DEF Executing
  <2> QED
    BY <1>1, <1>2, <1>4, <2>1, <2>2, <2>3, <2>4, <2>5, <2>6, <2>7, <2>8,
       CallStep
<1> QED
  BY <1>1, <1>5, <1>6 DEF CloseReporter

\* close() gets the lock it waited for.
LEMMA CloseAcquiresStep == ASSUME IInv, CloseAcquires PROVE IInv'
<1> DEFINE q == Tail(reporter[call].queue)
           R == [reporter[call] EXCEPT !.open = FALSE, !.queue = q]
<1>1. /\ pc = "closing" /\ reporter[call].holder = None
      /\ reporter[call].queue # <<>> /\ Head(reporter[call].queue) = Main
      /\ reporter' = [reporter EXCEPT ![call] = R] /\ pc' = AfterClose
      /\ UNCHANGED <<run, active, call, runOf, aborted, unwinding, cancels,
                     task, muted>>
  BY DEF CloseAcquires
<1>2. call \in Calls /\ pc \in Executing \cup {"toolStarted"}
  BY <1>1, InCall DEF Executing
<1>3. q \in Seq(Waiters) /\ IsInjective(q)
        /\ \A x : Contains(q, x) <=> Contains(reporter[call].queue, x) /\ x # Main
  BY <1>1, <1>2, OfCall, TailWaiter
<1> HIDE DEF q
<1>4. R \in Reporters
  BY <1>2, <1>3, OfCall, ReporterTypes
<1>5. R.holder = reporter[call].holder /\ R.queue = q /\ ~R.open
  BY <1>2, OfCall, FieldsOfCall
<1> HIDE DEF R
<1>6. Contains(R.queue, Main) <=> pc' = "closing"
  BY <1>1, <1>3, <1>5, AfterCloseOutside
<1>7. \A x \in Tasks : Contains(R.queue, x) <=> Contains(reporter[call].queue, x)
  BY <1>3, <1>5, Names
<1>8. /\ active \in BOOLEAN /\ unwinding \in BOOLEAN
      /\ cancels \in 0..MaxCancels /\ cancels >= cancels
  BY Names DEF IInv, TypeOK
<1> QED
  BY <1>1, <1>2, <1>3, <1>4, <1>5, <1>6, <1>7, <1>8, AfterCloseOutside, CallStep

\* An abort cancels the handler under way.
LEMMA AbortInterruptsStep == ASSUME IInv, AbortInterrupts PROVE IInv'
<1>1. /\ pc = "dispatching" /\ pc' = "interrupting" /\ Interrupt(call, Work)
      /\ UNCHANGED <<run, active, call, runOf, aborted, unwinding, cancels, muted>>
  BY DEF AbortInterrupts
<1>2. call \in Calls /\ call \in Nat
  BY <1>1, InCall DEF Executing
<1>3. ~NotBegun(call) /\ call <= call
  BY <1>1, <1>2 DEF NotBegun
<1>4. MainGoesOn
  BY <1>1, Names DEF MainGoesOn, IInv, TypeOK
<1> QED
  BY <1>1, <1>2, <1>3, <1>4, Names, InterruptStep

\* A task that reports is cancelled.
LEMMA CancelBackgroundStep ==
    ASSUME IInv, NEW d \in Calls, NEW t \in Background, CancelBackground(d, t)
    PROVE  IInv'
<1>1. /\ cancels < MaxCancels /\ cancels' = cancels + 1
      /\ task[d][t] \in Publishing \cup {"waiting"} /\ Interrupt(d, t)
      /\ UNCHANGED <<pc, run, active, call, runOf, aborted, unwinding, muted>>
  BY DEF CancelBackground
<1>2. t \in Tasks
  BY DEF Tasks
<1>3. ~NotBegun(d) /\ d <= call
  BY <1>1, <1>2, States, TaskBegun DEF Publishing
<1>4. MainGoesOn
  BY <1>1, Names DEF MainGoesOn, IInv, TypeOK
<1> QED
  BY <1>1, <1>2, <1>3, <1>4, InterruptStep

\* The caller's cancellation, by what the run is waiting for.
LEMMA CancelCallerStep == ASSUME IInv, CancelCaller PROVE IInv'
<1>1. /\ cancels < MaxCancels /\ cancels' = cancels + 1 /\ unwinding' = TRUE
      /\ active' = (active /\ pc # "finished")
      /\ UNCHANGED <<run, call, runOf, aborted, muted>>
  BY DEF CancelCaller
<1>2. /\ active' \in BOOLEAN /\ unwinding' \in BOOLEAN
      /\ cancels' \in 0..MaxCancels /\ cancels' >= cancels /\ cancels' > 0
  <2>1. cancels \in 0..MaxCancels /\ active \in BOOLEAN
    BY DEF IInv, TypeOK
  <2>2. active' \in BOOLEAN
    BY <1>1, <2>1, Zenon
  <2> QED
    BY <1>1, <2>1, <2>2, Names
<1>3. CASE /\ pc \in {"dispatching", "interrupting"} /\ pc' = "interrupting"
           /\ Interrupt(call, Work)
  <2>1. call \in Calls /\ call \in Nat
    BY <1>3, InCall DEF Executing
  <2>2. ~NotBegun(call) /\ call <= call
    BY <1>3, <2>1 DEF NotBegun
  <2>3. MainGoesOn
    BY <1>1, <1>2, <1>3 DEF MainGoesOn
  <2> QED
    BY <1>1, <1>3, <2>1, <2>2, <2>3, Names, InterruptStep
<1>4. CASE /\ pc = "closing" /\ pc' = "turnCompleted"
           /\ reporter' = [reporter EXCEPT ![call] = Unqueue(call, Main)]
           /\ UNCHANGED task
  <2> DEFINE i == CHOOSE j \in 1..Len(reporter[call].queue) :
                      reporter[call].queue[j] = Main
             q == RemoveAt(reporter[call].queue, i)
             R == [reporter[call] EXCEPT !.queue = q]
  <2>1. call \in Calls /\ pc \in Executing \cup {"toolStarted"}
    BY <1>4, InCall DEF Executing
  <2>2. reporter' = [reporter EXCEPT ![call] = R]
    BY <1>4 DEF Unqueue
  <2>3. Contains(reporter[call].queue, Main)
    BY <1>4, <2>1, MainWaits
  <2>4. \E j \in 1..Len(reporter[call].queue) : reporter[call].queue[j] = Main
    BY <2>3 DEF Contains
  <2>5. i \in 1..Len(reporter[call].queue) /\ reporter[call].queue[i] = Main
    BY <2>4, SMTT(60)
  <2> HIDE DEF i
  <2>6. q \in Seq(Waiters) /\ IsInjective(q)
          /\ \A x : Contains(q, x) <=> Contains(reporter[call].queue, x) /\ x # Main
    BY <2>1, <2>5, OfCall, RemoveWaiter
  <2> HIDE DEF q
  <2>7. R \in Reporters
    BY <2>1, <2>6, OfCall, ReporterTypes
  <2>8. R.holder = reporter[call].holder /\ R.queue = q /\ R.open = reporter[call].open
    BY <2>1, OfCall, ReporterFields
  <2> HIDE DEF R
  <2>9. Contains(R.queue, Main) <=> pc' = "closing"
    BY <1>4, <2>6, <2>8
  <2>10. \A x \in Tasks : Contains(R.queue, x) <=> Contains(reporter[call].queue, x)
    BY <2>6, <2>8, Names
  <2>11. R.holder # None => R.open
    BY <2>1, <2>8, OfCall
  <2>12. pc' \in MainEmits /\ pc' # "toolStarted"
    BY <1>4 DEF MainEmits
  <2> QED
    BY <1>1, <1>2, <1>4, <2>1, <2>2, <2>6, <2>7, <2>8, <2>9, <2>10, <2>11, <2>12,
       CallStep
<1>5. CASE /\ pc \in {"outside", "toolStarted", "toolCompleted", "turnCompleted",
                      "finished"}
           /\ pc' \in {"turnCompleted", "finished", "idle"}
           /\ UNCHANGED <<reporter, task>>
  <2>1. MainTypes'
    BY <1>1, <1>2, <1>5 DEF MainTypes, IInv, TypeOK, Locations, MainEmits
  <2>2. CallInRun'
    BY <1>1, <1>5 DEF IInv, CallInRun, Executing
  <2>3. \A c \in Calls : NotBegun(c)' => NotBegun(c)
    BY <1>1, <1>5 DEF NotBegun
  <2>4. pc \notin Executing /\ pc' \notin Executing
    BY <1>5 DEF Executing
  <2>5. call \in Nat
    BY DEF IInv, TypeOK
  <2> QED
    BY <1>1, <1>2, <1>5, <2>1, <2>2, <2>3, <2>4, <2>5, MainStep
<1> QED
  BY <1>3, <1>4, <1>5 DEF CancelCaller

-----------------------------------------------------------------------------

\* The initial state satisfies the invariant: no call has begun.
LEMMA InitIInv == Init => IInv
<1> SUFFICES ASSUME Init PROVE IInv
  OBVIOUS
<1> USE Names DEF Init
<1>1. /\ NewReporter \in Reporters /\ NewReporter.queue = <<>>
      /\ NewReporter.holder = None /\ ~NewReporter.open
  <2>1. <<>> \in Seq(Tasks \cup {Main})
    BY EmptySeq
  <2> QED
    BY <2>1 DEF NewReporter, Reporters
<1>2. IsInjective(<<>>) /\ \A x : ~Contains(<<>>, x)
  BY DEF IsInjective, Contains
<1>3. TypeOK
  <2>1. pc \in Locations /\ call \in 0..MaxCalls /\ run \in 0..MaxRuns
          /\ cancels \in 0..MaxCancels
    BY DEF Locations
  <2>2. /\ reporter \in [Calls -> Reporters]
        /\ \A c \in Calls : IsInjective(reporter[c].queue)
    BY <1>1, <1>2
  <2>3. task \in [Calls -> [Tasks -> TaskStates]]
    BY States
  <2>4. runOf \in [Calls -> 0..MaxRuns] /\ muted \in [Calls -> Nat]
    OBVIOUS
  <2> QED
    BY <2>1, <2>2, <2>3, <2>4 DEF TypeOK
<1>4. LockExact
  BY <1>1, States DEF LockExact
<1>5. QueueExact
  BY <1>1, <1>2 DEF QueueExact, Waits
<1>6. OpenExact /\ FreshUntilBegun
  BY <1>1 DEF OpenExact, FreshUntilBegun
<1>7. MutedExact /\ CallInRun
  BY DEF MutedExact, CallInRun, Executing
<1> QED
  BY <1>3, <1>4, <1>5, <1>6, <1>7 DEF IInv

\* A stuttering step.
LEMMA UnchangedStep == ASSUME IInv, UNCHANGED vars PROVE IInv'
BY DEF IInv, vars, TypeOK, LockExact, QueueExact, OpenExact, MutedExact,
   FreshUntilBegun, CallInRun, Waits, CallOver, Cancelled, NotBegun

\* IInv holds in every reachable state.
THEOREM Invariant == Spec => []IInv
<1>1. IInv /\ [Next]_vars => IInv'
  <2> SUFFICES ASSUME IInv, [Next]_vars PROVE IInv'
    OBVIOUS
  <2>1. CASE UNCHANGED vars
    BY <2>1, UnchangedStep
  <2>2. CASE BeginRun \/ StartCall \/ EndTurn \/ TurnSettled \/ EndRun \/ CallSettled
    BY <2>2, OutsideSteps
  <2>3. CASE Abort
    BY <2>3, AbortStep
  <2>4. CASE Dispatch
    BY <2>4, DispatchStep
  <2>5. CASE Close
    BY <2>5, CloseStep
  <2>6. CASE CloseAcquires
    BY <2>6, CloseAcquiresStep
  <2>7. CASE AbortInterrupts
    BY <2>7, AbortInterruptsStep
  <2>8. CASE CancelCaller
    BY <2>8, CancelCallerStep
  <2>9. ASSUME NEW t \in Background, SpawnBackground(t) PROVE IInv'
    BY <2>9, SpawnStep
  <2>10. ASSUME NEW c \in Calls, Deliver(c) \/ Grant(c) PROVE IInv'
    BY <2>10, EmissionStartsStep, EmissionEndsStep, ReportAcquiresStep
       DEF Deliver, Grant
  <2>11. ASSUME NEW c \in Calls, NEW t \in Tasks, TaskEnds(c, t) \/ Report(c, t)
         PROVE  IInv'
    BY <2>11, TaskEndsStep, ReportStep
  <2>12. ASSUME NEW c \in Calls, NEW t \in Background, CancelBackground(c, t)
         PROVE  IInv'
    BY <2>12, CancelBackgroundStep
  <2> QED
    BY <2>1, <2>2, <2>3, <2>4, <2>5, <2>6, <2>7, <2>8, <2>9, <2>10, <2>11, <2>12
       DEF Next
<1> QED
  BY InitIInv, <1>1, PTL DEF Spec

-----------------------------------------------------------------------------
(* What follows.                                                           *)

\* Every reporter, queue and task of the tool calls keeps its type, and no
\* task is in a lock's queue twice.
THEOREM TypeCorrect == Spec => []TypeOK
<1>1. IInv => TypeOK
  BY DEF IInv
<1> QED
  BY Invariant, <1>1, PTL

\* Once close() has returned no task of the call has an update in the sink or
\* on its way, however many tasks the handler left behind.
THEOREM ClosedQuiet == Spec => []ClosedCallIsQuiet
<1>1. IInv => ClosedCallIsQuiet
  <2> SUFFICES ASSUME IInv, NEW c \in Calls, NEW t \in Tasks,
                      ~reporter[c].open, task[c][t] \in Publishing
               PROVE  FALSE
    BY DEF ClosedCallIsQuiet
  <2>1. reporter[c].holder = t
    BY OfCall
  <2> QED
    BY <2>1, Names, OfCall
<1> QED
  BY Invariant, <1>1, PTL

\* The updates of a call reach the sink one at a time, and unless a close()
\* was interrupted the sink never has two events of the run.
THEOREM EventsSerial == Spec => []EventsDoNotOverlap
<1>1. ASSUME NEW S, \A x, y \in S : x = y
      PROVE  Cardinality(S) <= 1 /\ Cardinality(S) \in Nat /\ (S = {} => Cardinality(S) = 0)
  <2>1. CASE S = {}
    BY <2>1, FS_EmptySet
  <2>2. CASE S # {}
    <3>1. PICK x \in S : S = {x}
      BY <1>1, <2>2
    <3>2. Cardinality(S) = 1
      BY <3>1, FS_Singleton
    <3> QED
      BY <2>2, <3>2
  <2> QED
    BY <2>1, <2>2
<1>2. IInv => EventsDoNotOverlap
  <2> SUFFICES ASSUME IInv PROVE EventsDoNotOverlap
    OBVIOUS
  <2>1. \A c \in Calls :
          Cardinality({t \in Tasks : task[c][t] \in Publishing}) <= 1
    <3> SUFFICES ASSUME NEW c \in Calls
                 PROVE  Cardinality({t \in Tasks : task[c][t] \in Publishing}) <= 1
      OBVIOUS
    <3>1. \A t, u \in {v \in Tasks : task[c][v] \in Publishing} : t = u
      BY OfCall
    <3> QED
      BY <1>1, <3>1
  <2>2. ASSUME Leaked = {}
        PROVE  Cardinality({e \in Calls \X Tasks : task[e[1]][e[2]] = "emitting"})
                 + (IF pc \in MainEmits THEN 1 ELSE 0) <= 1
    <3> DEFINE E == {e \in Calls \X Tasks : task[e[1]][e[2]] = "emitting"}
    <3>1. ASSUME NEW e \in E
          PROVE  /\ e[1] = call /\ pc \in Executing
                 /\ reporter[call].holder = e[2] /\ e = <<call, e[2]>>
      <4>1. e[1] \in Calls /\ e[2] \in Tasks /\ e = <<e[1], e[2]>>
              /\ task[e[1]][e[2]] \in Publishing
        BY DEF Publishing
      <4>2. reporter[e[1]].holder = e[2]
        BY <4>1, OfCall
      <4>3. reporter[e[1]].open
        BY <4>1, <4>2, OfCall, Names
      <4>4. e[1] <= call /\ e[1] \in 1..call
        BY <4>1, <4>3 DEF IInv, OpenExact, Calls, TypeOK
      <4>5. ~CallOver(e[1])
        BY <2>2, <4>3, <4>4 DEF Leaked
      <4> QED
        BY <4>1, <4>2, <4>5 DEF CallOver
    <3> HIDE DEF E
    <3>2. \A d, e \in E : d = e
      BY <3>1
    <3>3. Cardinality(E) <= 1 /\ Cardinality(E) \in Nat /\ (E = {} => Cardinality(E) = 0)
      BY <1>1, <3>2
    <3>4. pc \in MainEmits => E = {}
      BY <3>1 DEF MainEmits, Executing
    <3>5. Cardinality(E) + (IF pc \in MainEmits THEN 1 ELSE 0) <= 1
      BY <3>3, <3>4
    <3> QED
      BY <3>5 DEF E
  <2> QED
    BY <2>1, <2>2 DEF EventsDoNotOverlap
<1> QED
  BY Invariant, <1>2, PTL

\* An abort lets at most one more update of a call through.
THEOREM AbortSilences == Spec => []AbortMutes
<1>1. IInv => AbortMutes
  BY DEF IInv, MutedExact, AbortMutes, TypeOK
<1> QED
  BY Invariant, <1>1, PTL

\* Only a cancellation of the caller's task leaves a reporter open behind its
\* call: without one the sink never has two events of the run at all.
THEOREM LeakNeedsCancel == Spec => [](cancels = 0 => Leaked = {})
<1>1. IInv => (cancels = 0 => Leaked = {})
  <2> SUFFICES ASSUME IInv, cancels = 0, NEW c \in 1..call, reporter[c].open,
                      CallOver(c)
               PROVE  FALSE
    BY DEF Leaked
  <2>1. c \in Calls
    BY Names DEF IInv, TypeOK, Calls
  <2> QED
    BY <2>1 DEF IInv, OpenExact
<1> QED
  BY Invariant, <1>1, PTL
==============================================================================
