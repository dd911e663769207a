------------------------ MODULE AgentOperations_proof ------------------------
(***************************************************************************)
(* Proofs about AgentOperations, for any set of callers and any number of  *)
(* resources.  IInv is inductive; the safety properties follow from it.    *)
(***************************************************************************)
EXTENDS AgentOperations, FiniteSetTheorems, SequenceTheorems, TLAPS

USE DEF lockVars, resourceVars

\* The set that _pending_operations counts is finite.
LEMMA EnteredFinite == IsFiniteSet(Entered) /\ Cardinality(Entered) \in Nat
<1>1. Entered \in SUBSET Callers
  BY DEF Entered
<1>2. IsFiniteSet(Entered)
  BY <1>1, FS_Subset, OperationsAssumption
<1> QED
  BY <1>2, FS_CardinalityType

\* The initial state satisfies the invariant: nobody has entered.
LEMMA InitIInv == Init => IInv
<1> SUFFICES ASSUME Init PROVE IInv
  OBVIOUS
<1> USE OperationsAssumption DEF Init
<1>1. TypeOK
  <2>1. pc \in [Callers -> PCs]
    BY DEF PCs
  <2>2. op \in [Callers -> Operations \cup {NoOperation}]
    OBVIOUS
  <2>3. aborted \in [Callers -> BOOLEAN] /\ owed \in [Callers -> SUBSET Callers]
    OBVIOUS
  <2>4. queue \in Seq(Callers) /\ at \in 0..Resources /\ up \subseteq 1..Resources
    OBVIOUS
  <2> QED
    BY <2>1, <2>2, <2>3, <2>4 DEF TypeOK
<1>2. Entered = {}
  BY DEF Entered, Critical, Tracked, NoOperation
<1>3. PendingExact
  BY <1>2, FS_EmptySet DEF PendingExact
<1>4. HolderIsCritical /\ AbortIsScoped
  BY DEF HolderIsCritical, AbortIsScoped, Critical
<1>5. OwedAreEntered /\ IdleWaitCoversEntered
  BY DEF OwedAreEntered, IdleWaitCoversEntered
<1>6. ShutdownOnlyStops
  BY DEF ShutdownOnlyStops, NoOperation
<1>7. ResourcesInv
  BY DEF ResourcesInv, AtRest, AllDown
<1> QED
  BY <1>1, <1>3, <1>4, <1>5, <1>6, <1>7 DEF IInv

-----------------------------------------------------------------------------
(* Type correctness of each step.                                          *)

\* Leaving the count: it was positive, since the caller was counted.
LEMMA UncountType ==
  ASSUME IInv, NEW c \in Callers, pc[c] \in Critical \cup {"queued"},
         Uncount(c)
  PROVE  /\ pc' \in [Callers -> PCs]
         /\ pending' \in Nat
         /\ idle' \in BOOLEAN
<1> USE DEF IInv, TypeOK
<1>1. CASE op[c] \notin Tracked
  BY <1>1 DEF Uncount, PCs
<1>2. CASE op[c] \in Tracked
  <2>1. c \in Entered
    BY <1>2 DEF Entered
  <2>2. pending > 0
    BY <2>1, EnteredFinite, FS_EmptySet DEF PendingExact
  <2>3. pending' \in Nat
    BY <1>2, <2>2 DEF Uncount
  <2>4. idle' \in BOOLEAN
    BY <1>2 DEF Uncount
  <2>5. pc' \in [Callers -> PCs]
    BY <1>2 DEF Uncount, PCs
  <2> QED
    BY <2>3, <2>4, <2>5
<1> QED
  BY <1>1, <1>2

\* Taking the lock keeps what it assigns in its type.
LEMMA TakeLockType ==
  ASSUME TypeOK, NEW c \in Callers, TakeLock(c)
  PROVE  /\ holder' \in Callers \cup {None}
         /\ pc' \in [Callers -> PCs]
         /\ at' \in 0..Resources
         /\ active' \in Callers \cup {None}
BY OperationsAssumption
   DEF TakeLock, TypeOK, FirstAwait, FirstResource, PCs, Critical

\* Every step keeps every variable in its type.
LEMMA TypeStep == IInv /\ [Next]_vars => TypeOK'
<1> SUFFICES ASSUME IInv, [Next]_vars PROVE TypeOK'
  OBVIOUS
<1>0. TypeOK
  BY DEF IInv
<1> USE OperationsAssumption
<1>1. CASE UNCHANGED vars
  BY <1>0, <1>1 DEF vars, TypeOK
<1>2. ASSUME NEW c \in Callers, Schedule(c) PROVE TypeOK'
  BY <1>0, <1>2 DEF Schedule, TypeOK, PCs
<1>3. ASSUME NEW c \in Callers, Enter(c) PROVE TypeOK'
  <2>1. pending' \in Nat /\ idle' \in BOOLEAN
    <3>1. CountOperation(c)
      BY <1>3 DEF Enter
    <3>2. pending' = pending + 1 \/ pending' = pending
      BY <3>1 DEF CountOperation
    <3>3. idle' = FALSE \/ idle' = idle
      BY <3>1 DEF CountOperation
    <3>4. pending' \in Nat
      BY <1>0, <3>2 DEF TypeOK
    <3>5. idle' \in BOOLEAN
      BY <1>0, <3>3 DEF TypeOK
    <3> QED
      BY <3>4, <3>5
  <2>2. CASE TakeLock(c) /\ UNCHANGED queue
    BY <1>0, <1>3, <2>1, <2>2, TakeLockType DEF Enter, TypeOK
  <2>3. CASE /\ queue' = Append(queue, c)
             /\ pc' = [pc EXCEPT ![c] = "queued"]
             /\ UNCHANGED <<holder, at, active>>
    <3>1. pc' \in [Callers -> PCs]
      BY <1>0, <2>3 DEF TypeOK, PCs
    <3>2. queue' \in Seq(Callers)
      BY <1>0, <2>3 DEF TypeOK
    <3> QED
      BY <1>0, <1>3, <2>1, <2>3, <3>1, <3>2 DEF Enter, TypeOK
  <2> QED
    BY <1>3, <2>2, <2>3 DEF Enter
<1>4. ASSUME NEW c \in Callers, Acquire(c) PROVE TypeOK'
  <2>1. queue' \in Seq(Callers)
    BY <1>0, <1>4 DEF Acquire, TypeOK
  <2> QED
    BY <1>0, <1>4, <2>1, TakeLockType DEF Acquire, TypeOK
<1>5. ASSUME NEW c \in Callers, SkillsReady(c) PROVE TypeOK'
  <2>1. pc' \in [Callers -> PCs]
    BY <1>0, <1>5 DEF SkillsReady, AfterStartup, TypeOK, PCs, Critical
  <2>2. at' \in 0..Resources /\ up' \subseteq 1..Resources
    BY <1>0, <1>5 DEF SkillsReady, AfterStartup, TypeOK
  <2> QED
    BY <1>0, <1>5, <2>1, <2>2 DEF SkillsReady, TypeOK
<1>6. ASSUME NEW c \in Callers, SkillsFail(c) PROVE TypeOK'
  <2>1. pc' \in [Callers -> PCs]
    BY <1>0, <1>6 DEF SkillsFail, TypeOK, PCs, Critical
  <2>2. at' \in 0..Resources /\ up' \subseteq 1..Resources
    BY <1>0, <1>6 DEF SkillsFail, TypeOK
  <2> QED
    BY <1>0, <1>6, <2>1, <2>2 DEF SkillsFail, TypeOK
<1>7. ASSUME NEW c \in Callers, ResourceStarts(c) PROVE TypeOK'
  <2>1. pc' \in [Callers -> PCs]
    BY <1>0, <1>7 DEF ResourceStarts, AfterStartup, TypeOK, PCs, Critical
  <2>2. at' \in 0..Resources /\ up' \subseteq 1..Resources
    BY <1>0, <1>7 DEF ResourceStarts, AfterStartup, TypeOK
  <2> QED
    BY <1>0, <1>7, <2>1, <2>2 DEF ResourceStarts, TypeOK
<1>8. ASSUME NEW c \in Callers, ResourceFails(c) PROVE TypeOK'
  <2>1. pc' \in [Callers -> PCs]
    BY <1>0, <1>8 DEF ResourceFails, FirstUndone, TypeOK, PCs, Critical
  <2>2. at \in 1..Resources /\ up \subseteq 1..Resources
    BY <1>0, <1>8 DEF ResourceFails, TypeOK
  <2>3. at' \in 0..Resources
    BY <1>8, <2>2, OperationsAssumption
       DEF ResourceFails, FirstUndone, OperationsAssumption
  <2>4. up' \subseteq 1..Resources
    BY <1>8, <2>2 DEF ResourceFails
  <2> QED
    BY <1>0, <1>8, <2>1, <2>3, <2>4 DEF ResourceFails, TypeOK
<1>9. ASSUME NEW c \in Callers, ResourceUndone(c) PROVE TypeOK'
  <2>1. pc' \in [Callers -> PCs]
    BY <1>0, <1>9 DEF ResourceUndone, TypeOK, PCs, Critical
  <2>2. at' \in 0..Resources /\ up' \subseteq 1..Resources
    BY <1>0, <1>9 DEF ResourceUndone, TypeOK
  <2> QED
    BY <1>0, <1>9, <2>1, <2>2 DEF ResourceUndone, TypeOK
<1>10. ASSUME NEW c \in Callers, ResourceStops(c) PROVE TypeOK'
  <2>1. pc' \in [Callers -> PCs]
    BY <1>0, <1>10 DEF ResourceStops, TypeOK, PCs, Critical
  <2>2. at' \in 0..Resources /\ up' \subseteq 1..Resources
    BY <1>0, <1>10 DEF ResourceStops, TypeOK
  <2> QED
    BY <1>0, <1>10, <2>1, <2>2 DEF ResourceStops, TypeOK
<1>11. ASSUME NEW c \in Callers, RestartTools(c) PROVE TypeOK'
  <2>1. pc' \in [Callers -> PCs]
    BY <1>0, <1>11 DEF RestartTools, TypeOK, PCs, Critical
  <2>2. at' \in 0..Resources /\ up' \subseteq 1..Resources
    BY <1>0, <1>11 DEF RestartTools, TypeOK
  <2> QED
    BY <1>0, <1>11, <2>1, <2>2 DEF RestartTools, TypeOK
<1>12. ASSUME NEW c \in Callers, BodyEnds(c) PROVE TypeOK'
  <2>1. pc' \in [Callers -> PCs]
    BY <1>0, <1>12 DEF BodyEnds, TypeOK, PCs, Critical
  <2>2. at' \in 0..Resources /\ up' \subseteq 1..Resources
    BY <1>0, <1>12 DEF BodyEnds, TypeOK
  <2> QED
    BY <1>0, <1>12, <2>1, <2>2 DEF BodyEnds, TypeOK
<1>13. ASSUME NEW c \in Callers, CancelHolder(c) PROVE TypeOK'
  <2>1. pc' \in [Callers -> PCs]
    BY <1>0, <1>13 DEF CancelHolder, TypeOK, PCs, Critical
  <2>2. at' \in 0..Resources /\ up' \subseteq 1..Resources
    BY <1>0, <1>13 DEF CancelHolder, TypeOK
  <2> QED
    BY <1>0, <1>13, <2>1, <2>2 DEF CancelHolder, TypeOK
<1>14. ASSUME NEW c \in Callers, Leave(c) PROVE TypeOK'
  <2>1. pc' \in [Callers -> PCs] /\ pending' \in Nat /\ idle' \in BOOLEAN
    BY <1>14, UncountType DEF Leave, Critical
  <2>2. op' \in [Callers -> Operations \cup {NoOperation}]
    BY <1>0, <1>14 DEF Leave, Forget, TypeOK
  <2>3. aborted' \in [Callers -> BOOLEAN] /\ owed' \in [Callers -> SUBSET Callers]
    BY <1>0, <1>14 DEF Leave, Forget, TypeOK
  <2> QED
    BY <1>0, <1>14, <2>1, <2>2, <2>3 DEF Leave, ClearActive, TypeOK
<1>15. ASSUME NEW c \in Callers, CancelScheduled(c) PROVE TypeOK'
  <2>1. pc' \in [Callers -> PCs]
    BY <1>0, <1>15 DEF CancelScheduled, TypeOK, PCs
  <2>2. op' \in [Callers -> Operations \cup {NoOperation}]
    BY <1>0, <1>15 DEF CancelScheduled, Forget, TypeOK
  <2>3. aborted' \in [Callers -> BOOLEAN] /\ owed' \in [Callers -> SUBSET Callers]
    BY <1>0, <1>15 DEF CancelScheduled, Forget, TypeOK
  <2> QED
    BY <1>0, <1>15, <2>1, <2>2, <2>3 DEF CancelScheduled, TypeOK
<1>16. ASSUME NEW c \in Callers, CancelQueued(c) PROVE TypeOK'
  <2>1. pc' \in [Callers -> PCs] /\ pending' \in Nat /\ idle' \in BOOLEAN
    BY <1>16, UncountType DEF CancelQueued
  <2>2. op' \in [Callers -> Operations \cup {NoOperation}]
    BY <1>0, <1>16 DEF CancelQueued, Forget, TypeOK
  <2>3. aborted' \in [Callers -> BOOLEAN] /\ owed' \in [Callers -> SUBSET Callers]
    BY <1>0, <1>16 DEF CancelQueued, Forget, TypeOK
  <2>4. PICK i \in 1..Len(queue) : queue' = RemoveAt(queue, i)
    BY <1>16 DEF CancelQueued, Without
  <2>5. queue' \in Seq(Callers)
    <3>1. SubSeq(queue, 1, i - 1) \in Seq(Callers)
      BY <1>0, SubSeqProperties DEF TypeOK
    <3>2. SubSeq(queue, i + 1, Len(queue)) \in Seq(Callers)
      BY <1>0, SubSeqProperties DEF TypeOK
    <3> QED
      BY <2>4, <3>1, <3>2, ConcatProperties DEF RemoveAt
  <2> QED
    BY <1>0, <1>16, <2>1, <2>2, <2>3, <2>5 DEF CancelQueued, TypeOK
<1>17. ASSUME NEW c \in Callers, WaitForIdle(c) PROVE TypeOK'
  <2>1. pc' \in [Callers -> PCs]
    BY <1>0, <1>17 DEF WaitForIdle, TypeOK, PCs
  <2>2. owed' \in [Callers -> SUBSET Callers]
    BY <1>0, <1>17 DEF WaitForIdle, TypeOK, Entered
  <2> QED
    BY <1>0, <1>17, <2>1, <2>2 DEF WaitForIdle, TypeOK
<1>18. ASSUME NEW c \in Callers, WaitReturns(c) PROVE TypeOK'
  <2>1. pc' \in [Callers -> PCs]
    BY <1>0, <1>18 DEF WaitReturns, TypeOK, PCs
  <2>2. owed' \in [Callers -> SUBSET Callers]
    BY <1>0, <1>18 DEF WaitReturns, TypeOK, Entered
  <2> QED
    BY <1>0, <1>18, <2>1, <2>2 DEF WaitReturns, TypeOK
<1>19. CASE Abort
  BY <1>0, <1>19 DEF Abort, TypeOK
<1>20. CASE RestoreSession
  BY <1>0, <1>20 DEF RestoreSession, TypeOK
<1> QED
  BY <1>1, <1>2, <1>3, <1>4, <1>5, <1>6, <1>7, <1>8, <1>9, <1>10, <1>11, <1>12,
     <1>13, <1>14, <1>15, <1>16, <1>17, <1>18, <1>19, <1>20
  DEF Next, Step

-----------------------------------------------------------------------------
(* The rest of the invariant, by what kind of step a caller takes.         *)

Inv == HolderIsCritical /\ PendingExact /\ AbortIsScoped
         /\ OwedAreEntered /\ IdleWaitCoversEntered

\* A step inside the critical section moves one caller between its awaits
\* and touches neither the lock nor the count.
LEMMA InnerStep ==
    ASSUME IInv, NEW c \in Callers, NEW v \in Critical,
           pc[c] \in Critical,
           pc' = [pc EXCEPT ![c] = v],
           UNCHANGED <<op, lockVars, epoch, owed>>
    PROVE  Inv'
<1> USE DEF IInv
<1>0. pc \in [Callers -> PCs]
  BY DEF TypeOK
<1>1. \A d \in Callers : pc'[d] = IF d = c THEN v ELSE pc[d]
  BY <1>0
<1>2. Entered' = Entered
  BY <1>1 DEF Entered
<1>3. HolderIsCritical'
  BY <1>1 DEF HolderIsCritical
<1>4. PendingExact'
  BY <1>2 DEF PendingExact
<1>5. AbortIsScoped'
  BY <1>1 DEF AbortIsScoped
<1>6. OwedAreEntered'
  BY <1>2 DEF OwedAreEntered
<1>7. IdleWaitCoversEntered'
  BY <1>1 DEF IdleWaitCoversEntered, Critical
<1> QED
  BY <1>3, <1>4, <1>5, <1>6, <1>7 DEF Inv

\* A step that only moves a caller between locations outside the queue and
\* the critical section.
LEMMA OuterStep ==
    ASSUME IInv, NEW c \in Callers, NEW v \in {"out", "scheduled", "idling"},
           pc[c] \in {"out", "scheduled", "woken"},
           pc' = [pc EXCEPT ![c] = v],
           op' \in [Callers -> Operations \cup {NoOperation}],
           \A d \in Callers : d # c => op'[d] = op[d],
           UNCHANGED <<holder, active, pending, idle>>,
           \A d \in Callers : aborted'[d] => aborted[d],
           \A d \in Callers : owed'[d] \subseteq Entered
                             /\ (d # c => owed'[d] \subseteq owed[d])
    PROVE  Inv'
<1> USE DEF IInv
<1>0. pc \in [Callers -> PCs]
  BY DEF TypeOK
<1>1. \A d \in Callers : pc'[d] = IF d = c THEN v ELSE pc[d]
  BY <1>0
<1>2. Entered' = Entered
  BY <1>1 DEF Entered, Critical
<1>3. HolderIsCritical'
  BY <1>1 DEF HolderIsCritical, Critical
<1>4. PendingExact'
  BY <1>2 DEF PendingExact
<1>5. AbortIsScoped'
  BY <1>1 DEF AbortIsScoped, Critical
<1>6. OwedAreEntered'
  BY <1>2 DEF OwedAreEntered
<1>7. IdleWaitCoversEntered'
  BY <1>1 DEF IdleWaitCoversEntered
<1> QED
  BY <1>3, <1>4, <1>5, <1>6, <1>7 DEF Inv

\* Entering the count: the set it counts grows by the caller or not at all.
LEMMA CountStep ==
    ASSUME IInv, NEW c \in Callers, NEW v \in Critical \cup {"queued"},
           pc[c] = "scheduled", CountOperation(c),
           pc' = [pc EXCEPT ![c] = v], op' = op
    PROVE  PendingExact' /\ Entered \subseteq Entered'
<1> USE DEF IInv
<1>1. \A d \in Callers : pc'[d] = IF d = c THEN v ELSE pc[d]
  BY DEF TypeOK
<1>2. c \notin Entered
  BY DEF Entered, Critical
<1>3. pending \in Nat /\ pending = Cardinality(Entered)
  BY DEF TypeOK, PendingExact
<1>4. CASE op[c] \in Tracked
  <2>1. Entered' = Entered \cup {c}
    BY <1>1, <1>4 DEF Entered, Critical
  <2>2. Cardinality(Entered') = Cardinality(Entered) + 1
    BY <2>1, <1>2, EnteredFinite, FS_AddElement
  <2>3. pending' = pending + 1
    BY <1>4 DEF CountOperation
  <2>4. pending' = Cardinality(Entered') /\ pending' # 0
    BY <1>3, <2>2, <2>3
  <2>5. ~idle'
    BY <1>4 DEF CountOperation
  <2> QED
    BY <2>1, <2>4, <2>5 DEF PendingExact
<1>5. CASE op[c] \notin Tracked
  <2>1. Entered' = Entered
    BY <1>1, <1>5 DEF Entered
  <2>2. UNCHANGED <<pending, idle>>
    BY <1>5 DEF CountOperation
  <2> QED
    BY <2>1, <2>2 DEF PendingExact
<1> QED
  BY <1>4, <1>5

\* The lock passes to a caller while nobody holds it.
LEMMA TakeLockStep ==
    ASSUME IInv, NEW c \in Callers, pc[c] \in {"scheduled", "queued"},
           holder = None, TakeLock(c), op' = op, aborted' = aborted,
           owed' = owed, Entered \subseteq Entered'
    PROVE  HolderIsCritical' /\ AbortIsScoped' /\ OwedAreEntered'
             /\ IdleWaitCoversEntered'
<1> USE DEF IInv
<1>1. PICK v \in {"starting", "stopping", "leaving"} :
          pc' = [pc EXCEPT ![c] = v]
  BY DEF TakeLock, FirstAwait
<1>2. \A d \in Callers : pc'[d] = IF d = c THEN v ELSE pc[d]
  BY <1>1 DEF TypeOK
<1>3. holder' = c
  BY DEF TakeLock
<1>4. \A d \in Callers : pc[d] \notin Critical
  BY OperationsAssumption DEF HolderIsCritical
<1>5. HolderIsCritical'
  BY <1>2, <1>3, <1>4 DEF HolderIsCritical, Critical
<1>6. AbortIsScoped'
  <2>1. \A d \in Callers : active # d /\ ~aborted[d]
    BY <1>4 DEF AbortIsScoped, TypeOK
  <2>2. \A d \in Callers : active' = d => d = c /\ op[c] \in Tracked
    BY <2>1 DEF TakeLock
  <2> QED
    BY <1>2, <2>1, <2>2 DEF AbortIsScoped, Critical
<1>7. OwedAreEntered'
  BY DEF OwedAreEntered
<1>8. IdleWaitCoversEntered'
  BY <1>2 DEF IdleWaitCoversEntered
<1> QED
  BY <1>5, <1>6, <1>7, <1>8

\* Leaving the count: the caller is forgotten by the count and by every
\* waiter, and the waiters are woken only when nobody is left.
LEMMA UncountStep ==
    ASSUME IInv, NEW c \in Callers, pc[c] \in Critical \cup {"queued"},
           Uncount(c), Forget(c)
    PROVE  /\ PendingExact'
           /\ OwedAreEntered'
           /\ IdleWaitCoversEntered'
           /\ pc'[c] = "out"
           /\ \A d \in Callers \ {c} :
                pc'[d] \in Critical <=> pc[d] \in Critical
           /\ \A d \in Callers \ {c} : op'[d] = op[d] /\ aborted'[d] = aborted[d]
           /\ ~aborted'[c]
<1> USE DEF IInv
<1>0. /\ pc \in [Callers -> PCs] /\ op \in [Callers -> Operations \cup {NoOperation}]
      /\ aborted \in [Callers -> BOOLEAN] /\ owed \in [Callers -> SUBSET Callers]
      /\ pending \in Nat
  BY DEF TypeOK
<1>1. /\ pc'[c] = "out"
      /\ \A d \in Callers \ {c} :
            \/ pc'[d] = pc[d]
            \/ op[c] \in Tracked /\ idle' /\ pc[d] = "idling" /\ pc'[d] = "woken"
  BY <1>0 DEF Uncount
<1>2. /\ \A d \in Callers \ {c} : op'[d] = op[d] /\ aborted'[d] = aborted[d]
      /\ ~aborted'[c]
      /\ \A d \in Callers : owed'[d] = owed[d] \ {c}
  BY <1>0 DEF Forget
<1>3. Entered' = Entered \ {c}
  BY <1>1, <1>2 DEF Entered, Critical
<1>4. OwedAreEntered'
  BY <1>2, <1>3 DEF OwedAreEntered
<1>5. PendingExact'
  <2>1. CASE op[c] \in Tracked
    <3>1. c \in Entered
      BY <2>1 DEF Entered
    <3>2. Cardinality(Entered') = Cardinality(Entered) - 1
      BY <1>3, <3>1, EnteredFinite, FS_RemoveElement
    <3>3. pending' = pending - 1
      BY <2>1 DEF Uncount
    <3>4. idle' <=> pending = 1
      BY <2>1 DEF Uncount
    <3>5. pending = 1 <=> pending' = 0
      BY <1>0, <3>3
    <3>6. pending' = Cardinality(Entered')
      BY <3>2, <3>3 DEF PendingExact
    <3> QED
      BY <3>4, <3>5, <3>6 DEF PendingExact
  <2>2. CASE op[c] \notin Tracked
    <3>1. Entered' = Entered
      BY <1>3, <2>2 DEF Entered
    <3> QED
      BY <2>2, <3>1 DEF Uncount, PendingExact
  <2> QED
    BY <2>1, <2>2
<1>6. IdleWaitCoversEntered'
  <2> SUFFICES ASSUME NEW d \in Callers, pc'[d] = "woken" PROVE owed'[d] = {}
    BY DEF IdleWaitCoversEntered
  <2>1. d # c
    BY <1>1
  <2>2. CASE pc[d] = "woken"
    BY <1>2, <2>2 DEF IdleWaitCoversEntered
  <2>3. CASE pc[d] # "woken"
    <3>1. op[c] \in Tracked /\ idle'
      BY <1>1, <2>1, <2>3
    <3>2. pending' = 0
      BY <1>5, <3>1 DEF PendingExact
    <3>3. IsFiniteSet(Entered')
      BY <1>3, EnteredFinite, FS_RemoveElement
    <3>4. Entered' = {}
      BY <1>5, <3>2, <3>3, FS_EmptySet DEF PendingExact
    <3> QED
      BY <1>4, <3>4 DEF OwedAreEntered
  <2> QED
    BY <2>2, <2>3
<1>7. \A d \in Callers \ {c} : pc'[d] \in Critical <=> pc[d] \in Critical
  BY <1>1 DEF Critical
<1> QED
  BY <1>1, <1>2, <1>4, <1>5, <1>6, <1>7

-----------------------------------------------------------------------------
(* The steps, one by one.                                                  *)

\* Entering an operation, with the lock free or not.
LEMMA EnterStep == ASSUME IInv, NEW c \in Callers, Enter(c) PROVE Inv'
<1> USE DEF IInv
<1>1. pc[c] = "scheduled" /\ CountOperation(c) /\ op' = op
        /\ aborted' = aborted /\ owed' = owed
  BY DEF Enter
<1>2. CASE LockFree /\ TakeLock(c)
  <2>1. PICK v \in Critical : pc' = [pc EXCEPT ![c] = v]
    BY <1>2 DEF TakeLock, FirstAwait, Critical
  <2>2. PendingExact' /\ Entered \subseteq Entered'
    BY <1>1, <2>1, CountStep
  <2>3. HolderIsCritical' /\ AbortIsScoped' /\ OwedAreEntered'
          /\ IdleWaitCoversEntered'
    BY <1>1, <1>2, <2>2, TakeLockStep DEF LockFree
  <2> QED
    BY <2>2, <2>3 DEF Inv
<1>3. CASE pc' = [pc EXCEPT ![c] = "queued"] /\ UNCHANGED <<holder, at, active>>
  <2>1. PendingExact' /\ Entered \subseteq Entered'
    BY <1>1, <1>3, CountStep
  <2>2. \A d \in Callers : pc'[d] = IF d = c THEN "queued" ELSE pc[d]
    BY <1>3 DEF TypeOK
  <2>3. HolderIsCritical'
    BY <1>1, <1>3, <2>2 DEF HolderIsCritical, Critical
  <2>4. AbortIsScoped'
    BY <1>1, <1>3, <2>2 DEF AbortIsScoped, Critical
  <2>5. OwedAreEntered'
    BY <1>1, <2>1 DEF OwedAreEntered
  <2>6. IdleWaitCoversEntered'
    BY <1>1, <2>2 DEF IdleWaitCoversEntered
  <2> QED
    BY <2>1, <2>3, <2>4, <2>5, <2>6 DEF Inv
<1> QED
  BY <1>2, <1>3 DEF Enter

\* The first waiter takes the lock: it was counted when it entered.
LEMMA AcquireStep == ASSUME IInv, NEW c \in Callers, Acquire(c) PROVE Inv'
<1> USE DEF IInv
<1>1. /\ pc[c] = "queued" /\ holder = None /\ TakeLock(c) /\ op' = op
      /\ aborted' = aborted /\ owed' = owed /\ UNCHANGED <<pending, idle>>
  BY DEF Acquire, LockFree
<1>2. PICK v \in Critical : pc' = [pc EXCEPT ![c] = v]
  BY <1>1 DEF TakeLock, FirstAwait, Critical
<1>3. \A d \in Callers : pc'[d] = IF d = c THEN v ELSE pc[d]
  BY <1>2 DEF TypeOK
<1>4. Entered' = Entered
  BY <1>1, <1>3 DEF Entered, Critical
<1>5. PendingExact'
  BY <1>1, <1>4 DEF PendingExact
<1>6. HolderIsCritical' /\ AbortIsScoped' /\ OwedAreEntered'
        /\ IdleWaitCoversEntered'
  BY <1>1, <1>4, TakeLockStep
<1> QED
  BY <1>5, <1>6 DEF Inv

\* Leaving the lock and the count: nobody is left in the critical section.
LEMMA LeaveStep == ASSUME IInv, NEW c \in Callers, Leave(c) PROVE Inv'
<1> USE DEF IInv
<1>1. pc[c] \in Critical /\ holder' = None /\ ClearActive(c) /\ Uncount(c)
        /\ Forget(c)
  BY DEF Leave, Critical
<1>2. /\ PendingExact' /\ OwedAreEntered' /\ IdleWaitCoversEntered'
      /\ pc'[c] = "out"
      /\ \A d \in Callers \ {c} : pc'[d] \in Critical <=> pc[d] \in Critical
      /\ \A d \in Callers \ {c} : op'[d] = op[d] /\ aborted'[d] = aborted[d]
      /\ ~aborted'[c]
  BY <1>1, UncountStep
<1>3. \A d \in Callers \ {c} : pc[d] \notin Critical
  BY <1>1 DEF HolderIsCritical
<1>4. HolderIsCritical'
  BY <1>1, <1>2, <1>3, OperationsAssumption DEF HolderIsCritical, Critical
<1>5. \A d \in Callers : active' # d
  <2>1. active' = None \/ (active' = active /\ active # c)
    BY <1>1, OperationsAssumption DEF ClearActive
  <2> QED
    BY <2>1, <1>3, OperationsAssumption DEF AbortIsScoped
<1>6. \A d \in Callers : ~aborted'[d]
  BY <1>2, <1>3 DEF AbortIsScoped
<1>7. AbortIsScoped'
  BY <1>5, <1>6 DEF AbortIsScoped
<1> QED
  BY <1>2, <1>4, <1>7 DEF Inv

\* A waiter cancelled in the queue leaves the count but held no lock.
LEMMA CancelQueuedStep ==
    ASSUME IInv, NEW c \in Callers, CancelQueued(c) PROVE Inv'
<1> USE DEF IInv
<1>1. pc[c] = "queued" /\ holder' = holder /\ active' = active /\ Uncount(c)
        /\ Forget(c)
  BY DEF CancelQueued
<1>2. /\ PendingExact' /\ OwedAreEntered' /\ IdleWaitCoversEntered'
      /\ pc'[c] = "out"
      /\ \A d \in Callers \ {c} : pc'[d] \in Critical <=> pc[d] \in Critical
      /\ \A d \in Callers \ {c} : op'[d] = op[d] /\ aborted'[d] = aborted[d]
      /\ ~aborted'[c]
  BY <1>1, UncountStep
<1>3. pc[c] \notin Critical /\ pc'[c] \notin Critical
  BY <1>1, <1>2 DEF Critical
<1>4. HolderIsCritical'
  BY <1>1, <1>2, <1>3 DEF HolderIsCritical
<1>5. AbortIsScoped'
  BY <1>1, <1>2, <1>3 DEF AbortIsScoped
<1> QED
  BY <1>2, <1>4, <1>5 DEF Inv

\* Waiting for idle: the event is set only when nobody has entered, so a
\* waiter that returns at once is owed nothing.
LEMMA WaitForIdleStep ==
    ASSUME IInv, NEW c \in Callers, WaitForIdle(c) PROVE Inv'
<1> USE DEF IInv
<1>0. /\ pc[c] = "out" /\ op' = op /\ owed' = [owed EXCEPT ![c] = Entered]
      /\ UNCHANGED lockVars
      /\ pc' = [pc EXCEPT ![c] = IF idle THEN "woken" ELSE "idling"]
  BY DEF WaitForIdle
<1>1. \A d \in Callers : owed'[d] = IF d = c THEN Entered ELSE owed[d]
  BY <1>0 DEF TypeOK
<1>2. \A d \in Callers :
         pc'[d] = IF d = c THEN IF idle THEN "woken" ELSE "idling" ELSE pc[d]
  BY <1>0 DEF TypeOK
<1>3. Entered' = Entered
  BY <1>0, <1>2 DEF Entered, Critical
<1>4. HolderIsCritical'
  BY <1>0, <1>2 DEF HolderIsCritical, Critical
<1>5. PendingExact'
  BY <1>0, <1>3 DEF PendingExact
<1>6. AbortIsScoped'
  BY <1>0, <1>2 DEF AbortIsScoped, Critical
<1>7. OwedAreEntered'
  BY <1>1, <1>3 DEF OwedAreEntered
<1>8. IdleWaitCoversEntered'
  <2>1. idle => Entered = {}
    BY EnteredFinite, FS_EmptySet DEF PendingExact
  <2> QED
    BY <1>1, <1>2, <2>1 DEF IdleWaitCoversEntered
<1> QED
  BY <1>4, <1>5, <1>6, <1>7, <1>8 DEF Inv

\* Every step keeps the invariant.
LEMMA InvStep == IInv /\ [Next]_vars => Inv'
<1> SUFFICES ASSUME IInv, [Next]_vars PROVE Inv'
  OBVIOUS
<1>0. TypeOK
  BY DEF IInv
<1>1. CASE UNCHANGED vars
  <2>1. Entered' = Entered
    BY <1>1 DEF vars, Entered
  <2> QED
    BY <1>1, <2>1 DEF vars, IInv, Inv, HolderIsCritical, PendingExact,
       AbortIsScoped, OwedAreEntered, IdleWaitCoversEntered
<1>2. ASSUME NEW c \in Callers, Schedule(c) PROVE Inv'
  <2>1. op' \in [Callers -> Operations \cup {NoOperation}]
    BY <1>0, <1>2 DEF Schedule, TypeOK
  <2>2. \A d \in Callers : d # c => op'[d] = op[d]
    BY <1>0, <1>2 DEF Schedule, TypeOK
  <2>3. \A d \in Callers : owed'[d] \subseteq Entered /\ owed'[d] \subseteq owed[d]
    BY <1>2 DEF Schedule, IInv, OwedAreEntered
  <2> QED
    BY <1>2, <2>1, <2>2, <2>3, OuterStep DEF Schedule
<1>3. ASSUME NEW c \in Callers, Enter(c) PROVE Inv'
  BY <1>3, EnterStep
<1>4. ASSUME NEW c \in Callers, Acquire(c) PROVE Inv'
  BY <1>4, AcquireStep
<1>5. ASSUME NEW c \in Callers, SkillsReady(c) PROVE Inv'
  <2>1. pc[c] \in Critical
    BY <1>5 DEF SkillsReady, Critical
  <2>2. PICK v \in Critical : pc' = [pc EXCEPT ![c] = v]
    <3>1. pc = [pc EXCEPT ![c] = pc[c]]
      BY <1>0 DEF TypeOK
    <3> QED
      BY <1>5, <2>1, <3>1 DEF SkillsReady, AfterStartup, Critical
  <2> QED
    BY <1>5, <2>1, <2>2, InnerStep DEF SkillsReady
<1>6. ASSUME NEW c \in Callers, SkillsFail(c) PROVE Inv'
  BY <1>6, InnerStep DEF SkillsFail, Critical
<1>7. ASSUME NEW c \in Callers, ResourceStarts(c) PROVE Inv'
  <2>1. pc[c] \in Critical
    BY <1>7 DEF ResourceStarts, Critical
  <2>2. PICK v \in Critical : pc' = [pc EXCEPT ![c] = v]
    <3>1. pc = [pc EXCEPT ![c] = pc[c]]
      BY <1>0 DEF TypeOK
    <3> QED
      BY <1>7, <2>1, <3>1 DEF ResourceStarts, AfterStartup, Critical
  <2> QED
    BY <1>7, <2>1, <2>2, InnerStep DEF ResourceStarts
<1>8. ASSUME NEW c \in Callers, ResourceFails(c) PROVE Inv'
  BY <1>8, InnerStep DEF ResourceFails, Critical
<1>9. ASSUME NEW c \in Callers, ResourceUndone(c) PROVE Inv'
  <2>1. pc[c] \in Critical
    BY <1>9 DEF ResourceUndone, Critical
  <2>2. PICK v \in Critical : pc' = [pc EXCEPT ![c] = v]
    <3>1. pc = [pc EXCEPT ![c] = pc[c]]
      BY <1>0 DEF TypeOK
    <3> QED
      BY <1>9, <2>1, <3>1 DEF ResourceUndone, Critical
  <2> QED
    BY <1>9, <2>1, <2>2, InnerStep DEF ResourceUndone
<1>10. ASSUME NEW c \in Callers, ResourceStops(c) PROVE Inv'
  <2>1. pc[c] \in Critical
    BY <1>10 DEF ResourceStops, Critical
  <2>2. PICK v \in Critical : pc' = [pc EXCEPT ![c] = v]
    <3>1. pc = [pc EXCEPT ![c] = pc[c]]
      BY <1>0 DEF TypeOK
    <3> QED
      BY <1>10, <2>1, <3>1 DEF ResourceStops, Critical
  <2> QED
    BY <1>10, <2>1, <2>2, InnerStep DEF ResourceStops
<1>11. ASSUME NEW c \in Callers, RestartTools(c) PROVE Inv'
  <2>1. pc' = [pc EXCEPT ![c] = pc[c]] /\ pc[c] \in Critical
    BY <1>0, <1>11 DEF RestartTools, TypeOK, Critical
  <2> QED
    BY <1>11, <2>1, InnerStep DEF RestartTools
<1>12. ASSUME NEW c \in Callers, BodyEnds(c) PROVE Inv'
  BY <1>12, InnerStep DEF BodyEnds, Critical
<1>13. ASSUME NEW c \in Callers, CancelHolder(c) PROVE Inv'
  BY <1>13, InnerStep DEF CancelHolder, Critical, Held
<1>14. ASSUME NEW c \in Callers, Leave(c) PROVE Inv'
  BY <1>14, LeaveStep
<1>15. ASSUME NEW c \in Callers, CancelScheduled(c) PROVE Inv'
  <2>1. op' \in [Callers -> Operations \cup {NoOperation}]
    BY <1>0, <1>15 DEF CancelScheduled, Forget, TypeOK
  <2>2. \A d \in Callers : d # c => op'[d] = op[d]
    BY <1>0, <1>15 DEF CancelScheduled, Forget, TypeOK
  <2>3. \A d \in Callers : aborted'[d] => aborted[d]
    BY <1>0, <1>15 DEF CancelScheduled, Forget, TypeOK
  <2>4. \A d \in Callers : owed'[d] \subseteq Entered /\ owed'[d] \subseteq owed[d]
    BY <1>0, <1>15 DEF CancelScheduled, Forget, IInv, OwedAreEntered, TypeOK
  <2> QED
    BY <1>15, <2>1, <2>2, <2>3, <2>4, OuterStep DEF CancelScheduled
<1>16. ASSUME NEW c \in Callers, CancelQueued(c) PROVE Inv'
  BY <1>16, CancelQueuedStep
<1>17. ASSUME NEW c \in Callers, WaitForIdle(c) PROVE Inv'
  BY <1>17, WaitForIdleStep
<1>18. ASSUME NEW c \in Callers, WaitReturns(c) PROVE Inv'
  <2>1. op' \in [Callers -> Operations \cup {NoOperation}]
    BY <1>0, <1>18 DEF WaitReturns, TypeOK
  <2>2. \A d \in Callers : owed'[d] \subseteq Entered /\ owed'[d] \subseteq owed[d]
    BY <1>0, <1>18 DEF WaitReturns, IInv, OwedAreEntered, TypeOK
  <2> QED
    BY <1>18, <2>1, <2>2, OuterStep DEF WaitReturns
<1>19. CASE Abort
  <2>1. Entered' = Entered
    BY <1>19 DEF Abort, Entered
  <2>2. AbortIsScoped'
    BY <1>0, <1>19 DEF Abort, IInv, AbortIsScoped, TypeOK
  <2> QED
    BY <1>19, <2>1, <2>2 DEF Abort, IInv, Inv, HolderIsCritical, PendingExact,
       OwedAreEntered, IdleWaitCoversEntered
<1>20. CASE RestoreSession
  <2>1. Entered' = Entered
    BY <1>20 DEF RestoreSession, Entered
  <2> QED
    BY <1>20, <2>1 DEF RestoreSession, IInv, Inv, HolderIsCritical, PendingExact,
       AbortIsScoped, OwedAreEntered, IdleWaitCoversEntered
<1> QED
  BY <1>1, <1>2, <1>3, <1>4, <1>5, <1>6, <1>7, <1>8, <1>9, <1>10, <1>11, <1>12,
     <1>13, <1>14, <1>15, <1>16, <1>17, <1>18, <1>19, <1>20 DEF Next, Step

-----------------------------------------------------------------------------
(* The resources, by where the lock's holder is.                           *)

\* The caller in the critical section is the one whose progress counts.
LEMMA HolderProgress ==
    ASSUME IInv, NEW c \in Callers, pc[c] \in Critical, ~cut
    PROVE  holder = c /\ Progress(c)
<1>1. holder = c /\ holder # None
  BY OperationsAssumption DEF IInv, HolderIsCritical
<1> QED
  BY <1>1 DEF IInv, ResourcesInv

\* A step of the lock's holder keeps the resources right if it keeps them
\* right at the place it goes to.
LEMMA HolderMoves ==
    ASSUME IInv, NEW c \in Callers, pc[c] \in Critical, UNCHANGED holder,
           ~cut' => ~cut /\ Progress(c)'
    PROVE  ResourcesInv'
<1>1. holder = c
  BY DEF IInv, HolderIsCritical
<1> QED
  BY <1>1, OperationsAssumption DEF ResourcesInv

\* A step outside the lock leaves its holder and the resources alone.
LEMMA ResourcesKept ==
    ASSUME IInv, UNCHANGED <<holder, started, toolsUp, up, at, cut>>,
           \A d \in Callers :
               pc[d] \in Critical => pc'[d] = pc[d] /\ op'[d] = op[d]
    PROVE  ResourcesInv'
<1> SUFFICES ASSUME ~cut' PROVE /\ holder = None => AtRest'
                                /\ holder # None => Progress(holder)'
  BY DEF ResourcesInv
<1>1. ~cut
  OBVIOUS
<1>2. CASE holder = None
  BY <1>1, <1>2 DEF IInv, ResourcesInv, AtRest, AllUp, AllDown
<1>3. CASE holder # None
  <2>1. holder \in Callers
    BY <1>3 DEF IInv, TypeOK
  <2>2. pc[holder] \in Critical
    BY <2>1 DEF IInv, HolderIsCritical
  <2>3. pc'[holder] = pc[holder] /\ op'[holder] = op[holder]
    BY <2>1, <2>2
  <2>4. Progress(holder)
    BY <1>1, <1>3 DEF IInv, ResourcesInv
  <2>5. Progress(holder)'
    BY <2>3, <2>4 DEF Progress, AtRest, AllUp, AllDown
  <2> QED
    BY <1>3, <2>5
<1> QED
  BY <1>2, <1>3

\* The lock is taken while the resources are at rest: a startup begins with
\* the skills, a shutdown with the last resource that is up.
LEMMA TakeLockResources ==
    ASSUME IInv, NEW c \in Callers, holder = None, TakeLock(c),
           UNCHANGED <<op, started, toolsUp, up, cut>>
    PROVE  ResourcesInv'
<1> SUFFICES ASSUME ~cut' PROVE Progress(c)'
  BY OperationsAssumption DEF ResourcesInv, TakeLock
<1>1. AtRest
  BY DEF IInv, ResourcesInv
<1>2. pc'[c] = FirstAwait(c) /\ at' = FirstResource(c)
  BY DEF TakeLock, IInv, TypeOK
<1>3. Resources \in Nat /\ Resources > 0
  BY OperationsAssumption DEF OperationsAssumption
<1>4. CASE op[c] # "shutdown"
  BY <1>1, <1>2, <1>4
     DEF Progress, FirstAwait, FirstResource, AtRest, AllUp, AllDown
<1>5. CASE op[c] = "shutdown" /\ started
  BY <1>1, <1>2, <1>3, <1>5
     DEF Progress, FirstAwait, FirstResource, AtRest, AllUp, AllDown
<1>6. CASE op[c] = "shutdown" /\ ~started
  BY <1>1, <1>2, <1>6
     DEF Progress, FirstAwait, FirstResource, AtRest, AllUp, AllDown
<1> QED
  BY <1>4, <1>5, <1>6

\* Every step keeps what is started in line with where the lock's holder is.
LEMMA ResourcesStep == IInv /\ [Next]_vars => ResourcesInv'
<1> SUFFICES ASSUME IInv, [Next]_vars PROVE ResourcesInv'
  OBVIOUS
<1> USE OperationsAssumption
<1>0. TypeOK
  BY DEF IInv
<1>a. Resources \in Nat /\ Resources > 0 /\ at \in 0..Resources
        /\ up \subseteq 1..Resources /\ pc \in [Callers -> PCs]
  BY <1>0 DEF OperationsAssumption, TypeOK
<1>1. CASE UNCHANGED vars
  BY <1>1, ResourcesKept DEF vars
<1>2. ASSUME NEW c \in Callers, Schedule(c) PROVE ResourcesInv'
  BY <1>0, <1>2, ResourcesKept DEF Schedule, TypeOK, Critical
<1>3. ASSUME NEW c \in Callers, Enter(c) PROVE ResourcesInv'
  <2>1. CASE LockFree /\ TakeLock(c)
    BY <1>3, <2>1, TakeLockResources DEF Enter, LockFree
  <2>2. CASE pc' = [pc EXCEPT ![c] = "queued"] /\ UNCHANGED <<holder, at>>
    BY <1>0, <1>3, <2>2, ResourcesKept DEF Enter, TypeOK, Critical
  <2> QED
    BY <1>3, <2>1, <2>2 DEF Enter
<1>4. ASSUME NEW c \in Callers, Acquire(c) PROVE ResourcesInv'
  BY <1>4, TakeLockResources DEF Acquire, LockFree
<1>5. ASSUME NEW c \in Callers, SkillsReady(c) PROVE ResourcesInv'
  <2>1. pc[c] = "starting" /\ at = 0 /\ pc[c] \in Critical
    BY <1>5 DEF SkillsReady, Critical
  <2>2. ASSUME ~cut' PROVE ~cut /\ Progress(c)'
    <3>1. ~cut
      BY <1>5, <2>2 DEF SkillsReady
    <3>2. AtRest
      BY <2>1, <3>1, HolderProgress DEF Progress
    <3>3. op[c] # "shutdown"
      BY <2>1 DEF IInv, ShutdownOnlyStops
    <3>4. CASE started
      <4>1. pc'[c] = AfterStartup(c) /\ at' = 0
        BY <1>a, <1>5, <2>1, <3>4 DEF SkillsReady
      <4>2. AllUp'
        BY <1>5, <3>2, <3>4 DEF SkillsReady, AtRest, AllUp, AllDown
      <4> QED
        BY <1>5, <3>1, <3>3, <4>1, <4>2
           DEF SkillsReady, AfterStartup, Progress, AtRest
    <3>5. CASE ~started
      <4>1. pc'[c] = "starting" /\ at' = 1
        BY <1>5, <2>1, <3>5 DEF SkillsReady
      <4>2. ~started' /\ ~toolsUp' /\ up' = {}
        BY <1>5, <3>2, <3>5 DEF SkillsReady, AtRest, AllUp, AllDown
      <4> QED
        BY <3>1, <4>1, <4>2 DEF Progress
    <3> QED
      BY <3>4, <3>5
  <2> QED
    BY <1>5, <2>1, <2>2, HolderMoves DEF SkillsReady
<1>6. ASSUME NEW c \in Callers, SkillsFail(c) PROVE ResourcesInv'
  <2>1. pc[c] = "starting" /\ at = 0 /\ pc[c] \in Critical
    BY <1>6 DEF SkillsFail, Critical
  <2>2. ASSUME ~cut' PROVE ~cut /\ Progress(c)'
    <3>1. ~cut
      BY <1>6, <2>2 DEF SkillsFail
    <3>2. AtRest
      BY <2>1, <3>1, HolderProgress DEF Progress
    <3>3. pc'[c] = "raising"
      BY <1>a, <1>6 DEF SkillsFail
    <3> QED
      BY <1>6, <3>1, <3>2, <3>3
         DEF SkillsFail, Progress, AtRest, AllUp, AllDown
  <2> QED
    BY <1>6, <2>1, <2>2, HolderMoves DEF SkillsFail
<1>7. ASSUME NEW c \in Callers, ResourceStarts(c) PROVE ResourcesInv'
  <2>1. pc[c] = "starting" /\ at > 0 /\ pc[c] \in Critical
    BY <1>a, <1>7 DEF ResourceStarts, Critical
  <2>2. ASSUME ~cut' PROVE ~cut /\ Progress(c)'
    <3>1. ~cut
      BY <1>7, <2>2 DEF ResourceStarts
    <3>2. ~started /\ ~toolsUp /\ up = 1..(at - 1)
      BY <2>1, <3>1, HolderProgress DEF Progress
    <3>3. up' = 1..at
      BY <1>a, <1>7, <2>1, <3>2 DEF ResourceStarts
    <3>4. op[c] # "shutdown" /\ op' = op
      BY <1>7, <2>1 DEF IInv, ShutdownOnlyStops, ResourceStarts
    <3>5. CASE at < Resources /\ at' = at + 1 /\ UNCHANGED <<pc, started, toolsUp>>
      BY <1>a, <2>1, <3>1, <3>2, <3>3, <3>5 DEF Progress
    <3>6. CASE /\ at = Resources
               /\ pc' = [pc EXCEPT ![c] = AfterStartup(c)]
               /\ started' /\ toolsUp' /\ at' = 0
      <4>1. AllUp'
        BY <3>3, <3>6 DEF AllUp
      <4>2. pc'[c] = AfterStartup(c)
        BY <1>a, <3>6
      <4> QED
        BY <3>1, <3>4, <3>6, <4>1, <4>2 DEF AfterStartup, Progress, AtRest
    <3> QED
      BY <1>7, <3>5, <3>6 DEF ResourceStarts
  <2> QED
    BY <1>7, <2>1, <2>2, HolderMoves DEF ResourceStarts
<1>8. ASSUME NEW c \in Callers, ResourceFails(c) PROVE ResourcesInv'
  <2>1. pc[c] = "starting" /\ at > 0 /\ pc[c] \in Critical
    BY <1>a, <1>8 DEF ResourceFails, Critical
  <2>2. ASSUME ~cut' PROVE ~cut /\ Progress(c)'
    <3>1. ~cut
      BY <1>8, <2>2 DEF ResourceFails
    <3>2. ~started /\ ~toolsUp /\ up = 1..(at - 1)
      BY <2>1, <3>1, HolderProgress DEF Progress
    <3>3. pc'[c] = "undoing" /\ ~started' /\ ~toolsUp'
      BY <1>a, <1>8, <3>2 DEF ResourceFails
    <3>4. CASE at' = FirstUndone /\ UNCHANGED up
      <4>1. at' > 0 /\ up' \subseteq 1..at'
        BY <1>a, <2>1, <3>2, <3>4 DEF FirstUndone
      <4> QED
        BY <3>1, <3>3, <4>1 DEF Progress
    <3>5. CASE up' = up \cup {at} /\ UNCHANGED at
      <4>1. at' > 0 /\ up' \subseteq 1..at'
        BY <1>a, <2>1, <3>2, <3>5
      <4> QED
        BY <3>1, <3>3, <4>1 DEF Progress
    <3> QED
      BY <1>8, <3>4, <3>5 DEF ResourceFails
  <2> QED
    BY <1>8, <2>1, <2>2, HolderMoves DEF ResourceFails
<1>9. ASSUME NEW c \in Callers, ResourceUndone(c) PROVE ResourcesInv'
  <2>1. pc[c] = "undoing" /\ pc[c] \in Critical
    BY <1>9 DEF ResourceUndone, Critical
  <2>2. ASSUME ~cut' PROVE ~cut /\ Progress(c)'
    <3>1. ~cut
      BY <1>9, <2>2 DEF ResourceUndone
    <3>2. at > 0 /\ ~started /\ ~toolsUp /\ up \subseteq 1..at
      BY <2>1, <3>1, HolderProgress DEF Progress
    <3>3. up' = up \ {at} /\ ~started' /\ ~toolsUp'
      BY <1>9, <3>2 DEF ResourceUndone
    <3>4. CASE at > 1 /\ at' = at - 1 /\ UNCHANGED pc
      BY <1>a, <2>1, <3>1, <3>2, <3>3, <3>4 DEF Progress
    <3>5. CASE at = 1 /\ pc' = [pc EXCEPT ![c] = "raising"]
      <4>1. up' = {}
        BY <3>2, <3>3, <3>5
      <4>2. pc'[c] = "raising"
        BY <1>a, <3>5
      <4> QED
        BY <3>1, <3>3, <4>1, <4>2 DEF Progress, AtRest, AllDown
    <3> QED
      BY <1>9, <3>4, <3>5 DEF ResourceUndone
  <2> QED
    BY <1>9, <2>1, <2>2, HolderMoves DEF ResourceUndone
<1>10. ASSUME NEW c \in Callers, ResourceStops(c) PROVE ResourcesInv'
  <2>1. pc[c] = "stopping" /\ pc[c] \in Critical
    BY <1>10 DEF ResourceStops, Critical
  <2>2. ASSUME ~cut' PROVE ~cut /\ Progress(c)'
    <3>1. ~cut
      BY <1>10, <2>2 DEF ResourceStops
    <3>2. at > 0 /\ up \subseteq 1..at
      BY <2>1, <3>1, HolderProgress DEF Progress
    <3>3. up' = up \ {at}
      BY <1>10 DEF ResourceStops
    <3>4. CASE at > 1 /\ at' = at - 1 /\ UNCHANGED pc
      BY <1>a, <2>1, <3>1, <3>2, <3>3, <3>4 DEF Progress
    <3>5. CASE at = 1 /\ pc' = [pc EXCEPT ![c] = "leaving"] /\ started' = FALSE
      <4>1. up' = {} /\ ~started'
        BY <3>2, <3>3, <3>5
      <4>2. pc'[c] = "leaving"
        BY <1>a, <3>5
      <4>3. ~(at > 2) /\ toolsUp' = (toolsUp /\ at > 2)
        BY <1>10, <3>5 DEF ResourceStops
      <4>4. ~toolsUp'
        BY <4>3, Zenon
      <4> QED
        BY <3>1, <4>1, <4>2, <4>4 DEF Progress, AtRest, AllDown
    <3> QED
      BY <1>10, <3>4, <3>5 DEF ResourceStops
  <2> QED
    BY <1>10, <2>1, <2>2, HolderMoves DEF ResourceStops
<1>11. ASSUME NEW c \in Callers, RestartTools(c) PROVE ResourcesInv'
  <2>1. pc[c] = "body" /\ pc[c] \in Critical /\ ~toolsUp
    BY <1>11 DEF RestartTools, Critical
  <2>2. cut
    BY <2>1, HolderProgress DEF Progress, AllUp
  <2> QED
    BY <1>11, <2>2 DEF RestartTools, ResourcesInv
<1>12. ASSUME NEW c \in Callers, BodyEnds(c) PROVE ResourcesInv'
  <2>1. pc[c] = "body" /\ pc[c] \in Critical
    BY <1>12 DEF BodyEnds, Critical
  <2>2. ASSUME ~cut' PROVE ~cut /\ Progress(c)'
    <3>1. ~cut
      BY <1>12, <2>2 DEF BodyEnds
    <3>2. AllUp
      BY <2>1, <3>1, HolderProgress DEF Progress
    <3>3. op[c] # "shutdown"
      BY <2>1 DEF IInv, ShutdownOnlyStops
    <3>4. pc'[c] \in {"leaving", "raising"}
      BY <1>a, <1>12 DEF BodyEnds
    <3> QED
      BY <1>12, <3>1, <3>2, <3>3, <3>4 DEF BodyEnds, Progress, AtRest, AllUp
  <2> QED
    BY <1>12, <2>1, <2>2, HolderMoves DEF BodyEnds
<1>13. ASSUME NEW c \in Callers, CancelHolder(c) PROVE ResourcesInv'
  <2>1. pc[c] \in Critical
    BY <1>13 DEF CancelHolder, Held, Critical
  <2>2. ASSUME ~cut' PROVE ~cut /\ Progress(c)'
    <3>1. ~cut /\ pc[c] = "body"
      BY <1>13, <2>2 DEF CancelHolder
    <3>2. AllUp
      BY <2>1, <3>1, HolderProgress DEF Progress
    <3>3. pc'[c] = "raising"
      BY <1>a, <1>13 DEF CancelHolder
    <3> QED
      BY <1>13, <3>1, <3>2, <3>3 DEF CancelHolder, Progress, AtRest, AllUp
  <2> QED
    BY <1>13, <2>1, <2>2, HolderMoves DEF CancelHolder
<1>14. ASSUME NEW c \in Callers, Leave(c) PROVE ResourcesInv'
  <2>1. pc[c] \in {"leaving", "raising"} /\ pc[c] \in Critical
    BY <1>14 DEF Leave, Critical
  <2>2. ASSUME ~cut' PROVE AtRest'
    <3>1. ~cut
      BY <1>14, <2>2 DEF Leave
    <3>2. AtRest
      BY <2>1, <3>1, HolderProgress DEF Progress, AtRest
    <3> QED
      BY <1>14, <3>2 DEF Leave, AtRest, AllUp, AllDown
  <2> QED
    BY <1>14, <2>2 DEF Leave, ResourcesInv
<1>15. ASSUME NEW c \in Callers, CancelScheduled(c) PROVE ResourcesInv'
  BY <1>0, <1>15, ResourcesKept DEF CancelScheduled, Forget, TypeOK, Critical
<1>16. ASSUME NEW c \in Callers, CancelQueued(c) PROVE ResourcesInv'
  <2>1. \A d \in Callers : pc[d] \in Critical => pc'[d] = pc[d] /\ op'[d] = op[d]
    <3>1. pc[c] = "queued" /\ Uncount(c) /\ Forget(c)
      BY <1>16 DEF CancelQueued
    <3> QED
      BY <1>0, <3>1 DEF Uncount, Forget, TypeOK, Critical
  <2> QED
    BY <1>16, <2>1, ResourcesKept DEF CancelQueued
<1>17. ASSUME NEW c \in Callers, WaitForIdle(c) PROVE ResourcesInv'
  BY <1>0, <1>17, ResourcesKept DEF WaitForIdle, TypeOK, Critical
<1>18. ASSUME NEW c \in Callers, WaitReturns(c) PROVE ResourcesInv'
  BY <1>0, <1>18, ResourcesKept DEF WaitReturns, TypeOK, Critical
<1>19. CASE Abort
  BY <1>19, ResourcesKept DEF Abort
<1>20. CASE RestoreSession
  BY <1>20, ResourcesKept DEF RestoreSession
<1> QED
  BY <1>1, <1>2, <1>3, <1>4, <1>5, <1>6, <1>7, <1>8, <1>9, <1>10, <1>11, <1>12,
     <1>13, <1>14, <1>15, <1>16, <1>17, <1>18, <1>19, <1>20 DEF Next, Step

\* A shutdown goes from the queue to stopping and out: no step takes it into
\* a startup or a body.
LEMMA ShutdownStep == IInv /\ [Next]_vars => ShutdownOnlyStops'
<1> SUFFICES ASSUME IInv, [Next]_vars, NEW d \in Callers, op'[d] = "shutdown",
                    pc'[d] \in {"starting", "undoing", "body"}
             PROVE  FALSE
  BY DEF ShutdownOnlyStops
<1> USE DEF IInv, TypeOK, ShutdownOnlyStops
<1>1. CASE UNCHANGED vars
  BY <1>1 DEF vars
<1>2. ASSUME NEW c \in Callers, Enter(c) \/ Acquire(c) PROVE FALSE
  <2>1. op' = op
    BY <1>2 DEF Enter, Acquire
  <2>2. pc' = [pc EXCEPT ![c] = FirstAwait(c)] \/ pc' = [pc EXCEPT ![c] = "queued"]
    BY <1>2 DEF Enter, Acquire, TakeLock
  <2> QED
    BY <2>1, <2>2 DEF FirstAwait
<1>3. ASSUME NEW c \in Callers,
             \/ SkillsReady(c) \/ SkillsFail(c) \/ ResourceStarts(c)
             \/ ResourceFails(c)
      PROVE  FALSE
  <2>1. op' = op /\ pc[c] = "starting" /\ \A e \in Callers \ {c} : pc'[e] = pc[e]
    BY <1>3 DEF SkillsReady, SkillsFail, ResourceStarts, ResourceFails
  <2> QED
    BY <2>1
<1>4. ASSUME NEW c \in Callers,
             \/ ResourceUndone(c) \/ ResourceStops(c) \/ RestartTools(c)
             \/ BodyEnds(c) \/ CancelHolder(c)
      PROVE  FALSE
  <2>1. /\ op' = op
        /\ \A e \in Callers : pc'[e] = pc[e] \/ pc'[e] \in {"leaving", "raising"}
    BY <1>4 DEF ResourceUndone, ResourceStops, RestartTools, BodyEnds,
       CancelHolder
  <2> QED
    BY <2>1
<1>5. ASSUME NEW c \in Callers,
             Leave(c) \/ CancelQueued(c) \/ CancelScheduled(c)
      PROVE  FALSE
  <2>1. Forget(c)
    BY <1>5 DEF Leave, CancelQueued, CancelScheduled
  <2>2. op' = [op EXCEPT ![c] = NoOperation]
    BY <2>1 DEF Forget
  <2>3. \A e \in Callers : pc'[e] = pc[e] \/ pc'[e] \in {"out", "woken"}
    BY <1>5 DEF Leave, CancelQueued, CancelScheduled, Uncount
  <2> QED
    BY <2>2, <2>3 DEF NoOperation
<1>6. ASSUME NEW c \in Callers,
             Schedule(c) \/ WaitForIdle(c) \/ WaitReturns(c)
      PROVE  FALSE
  <2>1. /\ \A e \in Callers \ {c} : pc'[e] = pc[e] /\ op'[e] = op[e]
        /\ pc'[c] \in {"out", "scheduled", "idling", "woken"}
    BY <1>6 DEF Schedule, WaitForIdle, WaitReturns
  <2> QED
    BY <2>1
<1>7. CASE Abort \/ RestoreSession
  BY <1>7 DEF Abort, RestoreSession
<1> QED
  BY <1>1, <1>2, <1>3, <1>4, <1>5, <1>6, <1>7 DEF Next, Step

\* IInv holds in every reachable state.
THEOREM Invariant == Spec => []IInv
<1>1. IInv /\ [Next]_vars => IInv'
  BY TypeStep, InvStep, ResourcesStep, ShutdownStep DEF IInv, Inv
<1> QED
  BY InitIInv, <1>1, PTL DEF Spec

-----------------------------------------------------------------------------
(* What follows.                                                           *)

\* Every variable of the agent's shared state keeps its type.
THEOREM TypeCorrect == Spec => []TypeOK
<1>1. IInv => TypeOK
  BY DEF IInv
<1> QED
  BY Invariant, <1>1, PTL

\* The operation lock excludes: no two callers are inside a run, compaction,
\* dispatch, startup or shutdown of one agent.
THEOREM MutualExclusion == Spec => []Mutex
<1>1. IInv => Mutex
  BY DEF IInv, HolderIsCritical, Mutex
<1> QED
  BY Invariant, <1>1, PTL

\* _pending_operations is exact and the idle event agrees with it, however
\* runs and compactions queue, fail and are cancelled.
THEOREM PendingCount == Spec => []PendingExact
<1>1. IInv => PendingExact
  BY DEF IInv
<1> QED
  BY Invariant, <1>1, PTL

\* abort reaches only the run or compaction that holds the lock.
THEOREM AbortScope == Spec => []AbortIsScoped
<1>1. IInv => AbortIsScoped
  BY DEF IInv
<1> QED
  BY Invariant, <1>1, PTL

\* wait_for_idle outlasts every run and compaction entered before it.
THEOREM IdleWait == Spec => []IdleWaitCoversEntered
<1>1. IInv => IdleWaitCoversEntered
  BY DEF IInv
<1> QED
  BY Invariant, <1>1, PTL

\* A run, compaction or dispatch inside the lock has every resource started,
\* unless a startup or shutdown was cancelled half way before it.
THEOREM BodyResources == Spec => []BodyHasResources
<1>1. IInv => BodyHasResources
  <2> SUFFICES ASSUME IInv, ~cut, NEW c \in Callers, pc[c] = "body"
               PROVE  up = 1..Resources
    BY DEF BodyHasResources
  <2>1. Progress(c)
    BY HolderProgress DEF Critical
  <2> QED
    BY <2>1 DEF Progress, AllUp
<1> QED
  BY Invariant, <1>1, PTL

\* A shutdown that returns has released every resource, whatever startups
\* failed before it, unless one of them was cancelled half way.
THEOREM Released == Spec => []ShutdownReleases
<1>1. IInv => ShutdownReleases
  <2> SUFFICES ASSUME IInv, ~cut, NEW c \in Callers, pc[c] = "leaving",
                      op[c] = "shutdown"
               PROVE  up = {}
    BY DEF ShutdownReleases
  <2>1. Progress(c)
    BY HolderProgress DEF Critical
  <2> QED
    BY <2>1 DEF Progress, AllDown
<1> QED
  BY Invariant, <1>1, PTL

\* restore_session replaces the history only outside every operation.
THEOREM RestoreSafe == Spec => RestoreExcludesWork
<1> DEFINE Safe == epoch' # epoch => \A c \in Callers : pc[c] \notin Critical
<1>1. IInv /\ [Next]_vars => [Safe]_vars
  <2> SUFFICES ASSUME IInv, Next, epoch' # epoch
               PROVE  \A c \in Callers : pc[c] \notin Critical
    BY DEF vars
  <2>1. RestoreSession
    BY DEF Next, Step, Schedule, Enter, Acquire, SkillsReady, SkillsFail,
       ResourceStarts, ResourceFails, ResourceUndone, ResourceStops, BodyEnds,
       Leave, WaitReturns, WaitForIdle, RestartTools, CancelScheduled,
       CancelQueued, CancelHolder, Abort
  <2>2. holder = None
    BY <2>1 DEF RestoreSession, Quiet
  <2> QED
    BY <2>2, OperationsAssumption DEF IInv, HolderIsCritical
<1> QED
  BY Invariant, <1>1, PTL DEF Spec, RestoreExcludesWork

-----------------------------------------------------------------------------
(* AgentOperations implements SequentialAgent.                             *)

Phases == [c \in Callers |-> Phase(c)]

\* A step that moves callers only within the critical section or outside of
\* it and of the queue is a stutter of the abstract agent.
LEMMA StutterStep ==
    ASSUME \A d \in Callers : Phase(d)' = Phase(d),
           UNCHANGED <<queue, epoch>>
    PROVE  UNCHANGED Agent!vars
<1>1. Phases' = Phases
  BY DEF Phases
<1> QED
  BY <1>1 DEF Phases, Agent!vars

\* One caller changes its phase.
LEMMA PhasesOfOne ==
    ASSUME NEW c \in Callers, NEW p,
           Phase(c)' = p,
           \A d \in Callers \ {c} : Phase(d)' = Phase(d)
    PROVE  Phases' = [Phases EXCEPT ![c] = p]
BY DEF Phases

\* The lock is free exactly while no caller of the abstract agent works.
LEMMA FreeMeansNobody ==
    ASSUME IInv, holder = None
    PROVE  Agent!Nobody
<1>1. \A c \in Callers : pc[c] \notin Critical
  BY OperationsAssumption DEF IInv, HolderIsCritical
<1>2. \A c \in Callers : Phase(c) # "working"
  BY <1>1 DEF Phase
<1> QED
  BY <1>2 DEF Agent!Nobody

\* The moves of one caller that leave its phase as it is.
LEMMA QuietMove ==
    ASSUME IInv, NEW c \in Callers, NEW v,
           \/ pc[c] \in Critical /\ v \in Critical
           \/ pc[c] \notin Critical \cup {"queued"} /\ v \notin Critical \cup {"queued"},
           pc' = [pc EXCEPT ![c] = v],
           UNCHANGED <<queue, epoch>>
    PROVE  UNCHANGED Agent!vars
<1>1. \A d \in Callers : pc'[d] = IF d = c THEN v ELSE pc[d]
  BY DEF IInv, TypeOK
<1>2. \A d \in Callers : Phase(d)' = Phase(d)
  BY <1>1 DEF Phase, Critical
<1> QED
  BY <1>2, StutterStep

\* Leaving the count changes no phase but the caller's own, which is out:
\* a waiter that is woken was out and stays out.
LEMMA UncountPhases ==
    ASSUME IInv, NEW c \in Callers, Uncount(c)
    PROVE  Phases' = [Phases EXCEPT ![c] = "out"]
<1>1. /\ pc'[c] = "out"
      /\ \A d \in Callers \ {c} :
            pc'[d] = pc[d] \/ (pc[d] = "idling" /\ pc'[d] = "woken")
  BY DEF Uncount, IInv, TypeOK
<1>2. Phase(c)' = "out"
  BY <1>1 DEF Phase, Critical
<1>3. \A d \in Callers \ {c} : Phase(d)' = Phase(d)
  BY <1>1 DEF Phase, Critical
<1> QED
  BY <1>2, <1>3, PhasesOfOne

\* Entering is beginning at once or lining up.
LEMMA EnterImplements ==
    ASSUME IInv, NEW c \in Callers, Enter(c)
    PROVE  Agent!BeginAtOnce(c) \/ Agent!LineUp(c)
<1>1. pc[c] = "scheduled" /\ epoch' = epoch
  BY DEF Enter
<1>2. Phases[c] = "out"
  BY <1>1 DEF Phases, Phase, Critical
<1>3. CASE holder = None /\ queue = <<>> /\ TakeLock(c) /\ UNCHANGED queue
  <2>1. PICK v \in Critical : pc' = [pc EXCEPT ![c] = v]
    BY <1>3 DEF TakeLock, FirstAwait, Critical
  <2>2. \A d \in Callers : pc'[d] = IF d = c THEN v ELSE pc[d]
    BY <2>1 DEF IInv, TypeOK
  <2>3. Phase(c)' = "working" /\ \A d \in Callers \ {c} : Phase(d)' = Phase(d)
    BY <2>2 DEF Phase
  <2>4. Phases' = [Phases EXCEPT ![c] = "working"]
    BY <2>3, PhasesOfOne
  <2>5. Agent!Nobody
    BY <1>3, FreeMeansNobody
  <2> QED
    BY <1>1, <1>2, <1>3, <2>4, <2>5 DEF Agent!BeginAtOnce, Phases
<1>4. CASE queue' = Append(queue, c) /\ pc' = [pc EXCEPT ![c] = "queued"]
  <2>1. \A d \in Callers : pc'[d] = IF d = c THEN "queued" ELSE pc[d]
    BY <1>4 DEF IInv, TypeOK
  <2>2. Phase(c)' = "waiting" /\ \A d \in Callers \ {c} : Phase(d)' = Phase(d)
    BY <2>1 DEF Phase, Critical
  <2>3. Phases' = [Phases EXCEPT ![c] = "waiting"]
    BY <2>2, PhasesOfOne
  <2> QED
    BY <1>1, <1>2, <1>4, <2>3 DEF Agent!LineUp, Phases
<1> QED
  BY <1>3, <1>4 DEF Enter, LockFree

\* The first waiter takes the lock: the abstract agent serves it.
LEMMA AcquireImplements ==
    ASSUME IInv, NEW c \in Callers, Acquire(c)
    PROVE  Agent!Serve(c)
<1>1. /\ pc[c] = "queued" /\ holder = None /\ queue # <<>> /\ c = Head(queue)
      /\ queue' = Tail(queue) /\ TakeLock(c) /\ epoch' = epoch
  BY DEF Acquire, LockFree
<1>2. PICK v \in Critical : pc' = [pc EXCEPT ![c] = v]
  BY <1>1 DEF TakeLock, FirstAwait, Critical
<1>3. \A d \in Callers : pc'[d] = IF d = c THEN v ELSE pc[d]
  BY <1>2 DEF IInv, TypeOK
<1>4. Phase(c)' = "working" /\ \A d \in Callers \ {c} : Phase(d)' = Phase(d)
  BY <1>3 DEF Phase
<1>5. Phases' = [Phases EXCEPT ![c] = "working"]
  BY <1>4, PhasesOfOne
<1>6. Phases[c] = "waiting"
  BY <1>1 DEF Phases, Phase, Critical
<1>7. Agent!Nobody
  BY <1>1, FreeMeansNobody
<1> QED
  BY <1>1, <1>5, <1>6, <1>7 DEF Agent!Serve, Phases

\* Leaving the lock finishes the operation.
LEMMA LeaveImplements ==
    ASSUME IInv, NEW c \in Callers, Leave(c)
    PROVE  Agent!Finish(c)
<1>1. pc[c] \in Critical /\ Uncount(c) /\ UNCHANGED <<queue, epoch>>
  BY DEF Leave, Critical
<1>2. Phases' = [Phases EXCEPT ![c] = "out"]
  BY <1>1, UncountPhases
<1>3. Phases[c] = "working"
  BY <1>1 DEF Phases, Phase
<1> QED
  BY <1>1, <1>2, <1>3 DEF Agent!Finish, Phases

\* A waiter that is cancelled gives its place up.
LEMMA CancelQueuedImplements ==
    ASSUME IInv, NEW c \in Callers, CancelQueued(c)
    PROVE  Agent!GiveUp(c)
<1>1. pc[c] = "queued" /\ Uncount(c) /\ epoch' = epoch
  BY DEF CancelQueued
<1>2. PICK i \in 1..Len(queue) : queue[i] = c /\ queue' = RemoveAt(queue, i)
  BY DEF CancelQueued, Without
<1>3. Phases' = [Phases EXCEPT ![c] = "out"]
  BY <1>1, UncountPhases
<1>4. Phases[c] = "waiting"
  BY <1>1 DEF Phases, Phase, Critical
<1> QED
  BY <1>1, <1>2, <1>3, <1>4 DEF Agent!GiveUp, Phases, RemoveAt

\* Every step is a step of the abstract agent or a stutter.
LEMMA StepImplements ==
    IInv /\ [Next]_vars => [Agent!Next]_(Agent!vars)
<1> SUFFICES ASSUME IInv, [Next]_vars
             PROVE  Agent!Next \/ UNCHANGED Agent!vars
  OBVIOUS
<1>0. pc \in [Callers -> PCs]
  BY DEF IInv, TypeOK
<1>1. CASE UNCHANGED vars
  BY <1>1, StutterStep DEF vars, Phase
<1>2. ASSUME NEW c \in Callers, Enter(c) PROVE Agent!Next
  BY <1>2, EnterImplements DEF Agent!Next
<1>3. ASSUME NEW c \in Callers, Acquire(c) PROVE Agent!Next
  BY <1>3, AcquireImplements DEF Agent!Next
<1>4. ASSUME NEW c \in Callers, Leave(c) PROVE Agent!Next
  BY <1>4, LeaveImplements DEF Agent!Next
<1>5. ASSUME NEW c \in Callers, CancelQueued(c) PROVE Agent!Next
  BY <1>5, CancelQueuedImplements DEF Agent!Next
<1>6. ASSUME NEW c \in Callers,
             \/ SkillsReady(c) \/ SkillsFail(c) \/ ResourceStarts(c)
             \/ ResourceFails(c) \/ ResourceUndone(c) \/ ResourceStops(c)
             \/ RestartTools(c) \/ BodyEnds(c) \/ CancelHolder(c)
      PROVE  UNCHANGED Agent!vars
  <2>1. pc[c] \in Critical /\ UNCHANGED <<queue, epoch>>
    BY <1>6 DEF SkillsReady, SkillsFail, ResourceStarts, ResourceFails,
       ResourceUndone, ResourceStops, RestartTools, BodyEnds, CancelHolder,
       Critical, Held
  <2>2. pc = [pc EXCEPT ![c] = pc[c]]
    BY <1>0
  <2>3. PICK v \in Critical : pc' = [pc EXCEPT ![c] = v]
    BY <1>6, <2>1, <2>2 DEF SkillsReady, SkillsFail, ResourceStarts,
       ResourceFails, ResourceUndone, ResourceStops, RestartTools, BodyEnds,
       CancelHolder, AfterStartup, Critical
  <2> QED
    BY <2>1, <2>3, QuietMove
<1>7. ASSUME NEW c \in Callers,
             \/ Schedule(c) \/ WaitForIdle(c) \/ WaitReturns(c)
             \/ CancelScheduled(c)
      PROVE  UNCHANGED Agent!vars
  <2>1. /\ pc[c] \in {"out", "scheduled", "woken"}
        /\ UNCHANGED <<queue, epoch>>
    BY <1>7 DEF Schedule, WaitForIdle, WaitReturns, CancelScheduled
  <2>2. PICK v \in {"out", "scheduled", "idling", "woken"} :
            pc' = [pc EXCEPT ![c] = v]
    BY <1>7 DEF Schedule, WaitForIdle, WaitReturns, CancelScheduled
  <2> QED
    BY <2>1, <2>2, QuietMove DEF Critical
<1>8. CASE Abort
  BY <1>8, StutterStep DEF Abort, Phase
<1>9. CASE RestoreSession
  <2>1. Agent!Nobody
    BY <1>9, FreeMeansNobody DEF RestoreSession, Quiet
  <2>2. Phases' = Phases
    BY <1>9 DEF RestoreSession, Phases, Phase
  <2>3. Agent!ReplaceConversation
    BY <1>9, <2>1, <2>2 DEF RestoreSession, Agent!ReplaceConversation, Phases
  <2> QED
    BY <2>3 DEF Agent!Next
<1> QED
  BY <1>1, <1>2, <1>3, <1>4, <1>5, <1>6, <1>7, <1>8, <1>9 DEF Next, Step

\* The operations of an agent are carried out one at a time and in the order
\* in which they reached the lock, through every failure and cancellation.
THEOREM Implements == Spec => Sequential
<1>1. Init => Agent!Init
  BY DEF Init, Agent!Init, Phase, Critical
<1> QED
  BY Invariant, StepImplements, <1>1, PTL DEF Spec, Sequential, Agent!Spec
==============================================================================
