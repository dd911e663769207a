--------------------------- MODULE AgentOperations ---------------------------
(***************************************************************************)
(* BaseAgent as the tasks of a program share it: the operation lock that   *)
(* runs, compactions, dispatches, startup and shutdown queue on, the count *)
(* of requested runs behind wait_for_idle, the active operation that abort *)
(* reaches, and the resources that the first operation starts and shutdown *)
(* releases.                                                               *)
(*                                                                         *)
(* A caller is an asyncio task.  pc[c] names the await it is suspended at; *)
(* "leaving" and "raising" are not awaits but the two ways out of the      *)
(* critical section, by return and by exception.  What a run or compaction *)
(* does inside is the body, modelled in AgentRun.                          *)
(***************************************************************************)
EXTENDS Naturals, FiniteSets, SequencesExt

CONSTANTS
    Callers,      \* tasks that use the agent
    None,         \* no caller
    Resources,    \* 1 is the model adapter, 2..Resources the tool handlers and
                  \* behind them the middlewares
    AllowCancel   \* whether the callers' tasks may be cancelled

ASSUME OperationsAssumption ==
    /\ IsFiniteSet(Callers)
    /\ None \notin Callers
    /\ Resources \in Nat \ {0}
    /\ AllowCancel \in BOOLEAN

VARIABLES
    pc,         \* where each caller is
    op,         \* the operation each caller is in
    holder,     \* the task holding _operation_lock
    queue,      \* the lock's waiters, in order
    active,     \* the caller whose run is _active_operation
    aborted,    \* whether the token of each caller's run is cancelled
    pending,    \* _pending_operations
    idle,       \* _idle_event is set
    started,    \* BaseAgent._started
    toolsUp,    \* ToolRuntime._started
    up,         \* the resources that are really started
    at,         \* the resource the lock's holder is starting or stopping
    cut,        \* history: a startup or shutdown was cancelled half way
    epoch,      \* which conversation the agent holds, flipped by a restore
    owed        \* for each idle waiter, the runs entered before it waited

vars == <<pc, op, holder, queue, active, aborted, pending, idle,
          started, toolsUp, up, at, cut, epoch, owed>>

lockVars == <<holder, queue, active, aborted, pending, idle>>
resourceVars == <<started, toolsUp, up, at, cut>>

\* Operations counted by _pending_operations.
Tracked == {"run", "compact"}
Operations == Tracked \cup {"dispatch", "startup", "shutdown"}
NoOperation == "none"

\* Inside the lock.
Critical == {"starting", "undoing", "body", "stopping", "leaving", "raising"}
Held == {"starting", "undoing", "body", "stopping"}

\* Callers between the entry of run or compact and its return.
Entered == {c \in Callers : /\ op[c] \in Tracked
                            /\ pc[c] \in Critical \cup {"queued"}}

Init ==
    /\ pc = [c \in Callers |-> "out"]
    /\ op = [c \in Callers |-> NoOperation]
    /\ holder = None
    /\ queue = <<>>
    /\ active = None
    /\ aborted = [c \in Callers |-> FALSE]
    /\ pending = 0
    /\ idle = TRUE
    /\ started = FALSE
    /\ toolsUp = FALSE
    /\ up = {}
    /\ at = 0
    /\ cut = FALSE
    /\ epoch = 0
    /\ owed = [c \in Callers |-> {}]

-----------------------------------------------------------------------------
(* Requesting an operation and taking the lock.                            *)

\* The coroutine is created and scheduled: none of its code has run.
Schedule(c) ==
    /\ pc[c] = "out"
    /\ pc' = [pc EXCEPT ![c] = "scheduled"]
    /\ \E o \in Operations : op' = [op EXCEPT ![c] = o]
    /\ UNCHANGED <<lockVars, resourceVars, epoch, owed>>

\* What follows the lock: _startup, beginning with the skills, or _shutdown,
\* which returns at once when nothing was started.
FirstAwait(c) ==
    IF op[c] # "shutdown" THEN "starting"
    ELSE IF started THEN "stopping" ELSE "leaving"

\* Mutant: only the model adapter is shut down.
MutantFirstResource(c) == IF op[c] = "shutdown" THEN 1 ELSE 0

FirstResource(c) ==
    IF op[c] = "shutdown" /\ started /\ toolsUp THEN Resources
    ELSE IF op[c] = "shutdown" THEN 1 ELSE 0

TakeLock(c) ==
    /\ holder' = c
    /\ pc' = [pc EXCEPT ![c] = FirstAwait(c)]
    /\ at' = FirstResource(c)
    /\ active' = IF op[c] \in Tracked THEN c ELSE active

\* Mutant: compactions are not counted when they enter.
MutantCountOperation(c) ==
    IF op[c] = "run"
    THEN pending' = pending + 1 /\ idle' = FALSE
    ELSE UNCHANGED <<pending, idle>>

CountOperation(c) ==
    IF op[c] \in Tracked
    THEN pending' = pending + 1 /\ idle' = FALSE
    ELSE UNCHANGED <<pending, idle>>

LockFree == holder = None

\* The coroutine runs to the lock.  asyncio.Lock is fair: a free lock with
\* waiters goes to the first of them.
Enter(c) ==
    /\ pc[c] = "scheduled"
    /\ CountOperation(c)
    /\ \/ /\ LockFree
          /\ queue = <<>>
          /\ TakeLock(c)
          /\ UNCHANGED queue
       \/ /\ ~LockFree \/ queue # <<>>
          /\ queue' = Append(queue, c)
          /\ pc' = [pc EXCEPT ![c] = "queued"]
          /\ UNCHANGED <<holder, at, active>>
    /\ UNCHANGED <<op, aborted, started, toolsUp, up, cut, epoch, owed>>

Acquire(c) ==
    /\ pc[c] = "queued"
    /\ LockFree
    /\ queue # <<>>
    /\ c = Head(queue)
    /\ queue' = Tail(queue)
    /\ TakeLock(c)
    /\ UNCHANGED <<op, aborted, pending, idle, started, toolsUp, up, cut, epoch,
                   owed>>

-----------------------------------------------------------------------------
(* Inside the lock.                                                        *)

AfterStartup(c) == IF op[c] = "startup" THEN "leaving" ELSE "body"

\* _ensure_skills_discovered returns; resources that are started stay.
SkillsReady(c) ==
    /\ pc[c] = "starting"
    /\ at = 0
    /\ IF started
       THEN pc' = [pc EXCEPT ![c] = AfterStartup(c)] /\ UNCHANGED at
       ELSE at' = 1 /\ UNCHANGED pc
    /\ UNCHANGED <<op, lockVars, started, toolsUp, up, cut, epoch, owed>>

SkillsFail(c) ==
    /\ pc[c] = "starting"
    /\ at = 0
    /\ pc' = [pc EXCEPT ![c] = "raising"]
    /\ UNCHANGED <<op, lockVars, resourceVars, epoch, owed>>

\* One startup() returns; after the last the agent is started.
ResourceStarts(c) ==
    /\ pc[c] = "starting"
    /\ at \in 1..Resources
    /\ up' = up \cup {at}
    /\ \/ /\ at < Resources
          /\ at' = at + 1
          /\ UNCHANGED <<pc, started, toolsUp>>
       \/ /\ at = Resources
          /\ pc' = [pc EXCEPT ![c] = AfterStartup(c)]
          /\ started' = TRUE
          /\ toolsUp' = TRUE
          /\ at' = 0
    /\ UNCHANGED <<op, lockVars, cut, epoch, owed>>

\* What a failing startup() undoes first: the handler started before it, or
\* the model adapter, whose shutdown() is called even if it was the one.
FirstUndone == IF at > 1 THEN at - 1 ELSE 1

\* Mutant: a handler that fails to start is skipped.
MutantResourceFails(c) ==
    /\ pc[c] = "starting"
    /\ at \in 1..Resources
    /\ \/ at < Resources /\ at' = at + 1 /\ UNCHANGED <<pc, started, toolsUp>>
       \/ /\ at = Resources
          /\ pc' = [pc EXCEPT ![c] = AfterStartup(c)]
          /\ started' = TRUE
          /\ toolsUp' = TRUE
          /\ at' = 0
    /\ UNCHANGED <<op, lockVars, up, cut, epoch, owed>>

\* One startup() raises, or the last handler has started and the tools of two
\* handlers have one name: then it is undone as well.
ResourceFails(c) ==
    /\ pc[c] = "starting"
    /\ at \in 1..Resources
    /\ pc' = [pc EXCEPT ![c] = "undoing"]
    /\ \/ at' = FirstUndone /\ UNCHANGED up
       \/ at > 1 /\ up' = up \cup {at} /\ UNCHANGED at
    /\ UNCHANGED <<op, lockVars, started, toolsUp, cut, epoch, owed>>

\* One shutdown() of the rollback returns or raises.
ResourceUndone(c) ==
    /\ pc[c] = "undoing"
    /\ up' = up \ {at}
    /\ \/ at > 1 /\ at' = at - 1 /\ UNCHANGED pc
       \/ at = 1 /\ at' = 0 /\ pc' = [pc EXCEPT ![c] = "raising"]
    /\ UNCHANGED <<op, lockVars, started, toolsUp, cut, epoch, owed>>

\* One shutdown() of _shutdown returns or raises: handlers in reverse, then
\* the model adapter.
ResourceStops(c) ==
    /\ pc[c] = "stopping"
    /\ up' = up \ {at}
    /\ toolsUp' = (toolsUp /\ at > 2)
    /\ \/ /\ at > 1
          /\ at' = at - 1
          /\ UNCHANGED <<pc, started>>
       \/ /\ at = 1
          /\ pc' = [pc EXCEPT ![c] = "leaving"]
          /\ started' = FALSE
          /\ at' = 0
    /\ UNCHANGED <<op, lockVars, cut, epoch, owed>>

\* ToolRuntime.dispatch starts the handlers itself when they are not started.
RestartTools(c) ==
    /\ pc[c] = "body"
    /\ ~toolsUp
    /\ toolsUp' = TRUE
    /\ up' = up \cup (2..Resources)
    /\ UNCHANGED <<pc, op, lockVars, started, at, cut, epoch, owed>>

\* The run, compaction or dispatch returns or raises.
BodyEnds(c) ==
    /\ pc[c] = "body"
    /\ \E way \in {"leaving", "raising"} : pc' = [pc EXCEPT ![c] = way]
    /\ UNCHANGED <<op, lockVars, resourceVars, epoch, owed>>

-----------------------------------------------------------------------------
(* Leaving, and the idle event.                                            *)

\* Mutant: every operation that ends declares the agent idle.
MutantUncount(c) ==
    /\ pending' = IF op[c] \in Tracked THEN pending - 1 ELSE pending
    /\ idle' = TRUE
    /\ pc' = [d \in Callers |-> IF d = c THEN "out"
                               ELSE IF pc[d] = "idling" THEN "woken" ELSE pc[d]]

\* The outer finally block: the count goes down, and at zero the event is
\* set, which resolves the wait of everyone waiting for it.
Uncount(c) ==
    IF op[c] \notin Tracked
    THEN /\ pc' = [pc EXCEPT ![c] = "out"]
         /\ UNCHANGED <<pending, idle>>
    ELSE /\ pending' = pending - 1
         /\ idle' = (pending = 1)
         /\ pc' = [d \in Callers |->
                     IF d = c THEN "out"
                     ELSE IF idle' /\ pc[d] = "idling" THEN "woken"
                     ELSE pc[d]]

\* The operation is gone, and with it its token and what waiters owe it.
Forget(c) ==
    /\ op' = [op EXCEPT ![c] = NoOperation]
    /\ aborted' = [aborted EXCEPT ![c] = FALSE]
    /\ owed' = [d \in Callers |-> owed[d] \ {c}]

\* Mutant: the operation stays the active one after it has ended.
MutantClearActive(c) == UNCHANGED active
ClearActive(c) == active' = IF active = c THEN None ELSE active

Leave(c) ==
    /\ pc[c] \in {"leaving", "raising"}
    /\ holder' = None
    /\ ClearActive(c)
    /\ at' = 0
    /\ Uncount(c)
    /\ Forget(c)
    /\ UNCHANGED <<queue, started, toolsUp, up, cut, epoch>>

\* The caller's task is cancelled.  Before its first step nothing of the
\* coroutine ever runs; in the queue its waiter is removed; inside the lock
\* CancelledError passes every `except Exception`.
CancelScheduled(c) ==
    /\ AllowCancel
    /\ pc[c] = "scheduled"
    /\ pc' = [pc EXCEPT ![c] = "out"]
    /\ Forget(c)
    /\ UNCHANGED <<holder, queue, active, pending, idle, resourceVars, epoch>>

\* Mutant: the cancelled waiter keeps its place in the queue.
MutantWithout(i) == queue
Without(i) == RemoveAt(queue, i)

\* Mutant: a run cancelled in the queue is still counted.
MutantCancelQueued(c) ==
    /\ AllowCancel
    /\ pc[c] = "queued"
    /\ \E i \in 1..Len(queue) : queue[i] = c /\ queue' = Without(i)
    /\ pc' = [pc EXCEPT ![c] = "out"]
    /\ Forget(c)
    /\ UNCHANGED <<holder, active, pending, idle, resourceVars, epoch>>

CancelQueued(c) ==
    /\ AllowCancel
    /\ pc[c] = "queued"
    /\ \E i \in 1..Len(queue) : queue[i] = c /\ queue' = Without(i)
    /\ Uncount(c)
    /\ Forget(c)
    /\ UNCHANGED <<holder, active, resourceVars, epoch>>

CancelHolder(c) ==
    /\ AllowCancel
    /\ pc[c] \in Held
    /\ pc' = [pc EXCEPT ![c] = "raising"]
    /\ cut' = (cut \/ pc[c] # "body")
    /\ at' = 0
    /\ UNCHANGED <<op, lockVars, started, toolsUp, up, epoch, owed>>

\* wait_for_idle: at once when the event is set, else when it is next set,
\* even if it has been cleared again by the time the waiter is resumed.
WaitForIdle(c) ==
    /\ pc[c] = "out"
    /\ pc' = [pc EXCEPT ![c] = IF idle THEN "woken" ELSE "idling"]
    /\ owed' = [owed EXCEPT ![c] = Entered]
    /\ UNCHANGED <<op, lockVars, resourceVars, epoch>>

WaitReturns(c) ==
    /\ pc[c] = "woken"
    /\ pc' = [pc EXCEPT ![c] = "out"]
    /\ owed' = [owed EXCEPT ![c] = {}]
    /\ UNCHANGED <<op, lockVars, resourceVars, epoch>>

\* Synchronous calls that any code of the program may make.
Abort ==
    /\ active # None
    /\ aborted' = [aborted EXCEPT ![active] = TRUE]
    /\ UNCHANGED <<pc, op, holder, queue, active, pending, idle,
                   resourceVars, epoch, owed>>

Quiet == pending = 0 /\ holder = None

RestoreSession ==
    /\ Quiet
    /\ epoch' = 1 - epoch
    /\ UNCHANGED <<pc, op, lockVars, resourceVars, owed>>

-----------------------------------------------------------------------------

\* What a caller does by itself once it has requested an operation.
Step(c) ==
    \/ Enter(c) \/ Acquire(c)
    \/ SkillsReady(c) \/ SkillsFail(c)
    \/ ResourceStarts(c) \/ ResourceFails(c) \/ ResourceUndone(c)
    \/ ResourceStops(c) \/ BodyEnds(c)
    \/ Leave(c) \/ WaitReturns(c)

Next ==
    \/ \E c \in Callers :
        \/ Step(c)
        \/ Schedule(c) \/ WaitForIdle(c) \/ RestartTools(c)
        \/ CancelScheduled(c) \/ CancelQueued(c) \/ CancelHolder(c)
    \/ Abort
    \/ RestoreSession

Spec == Init /\ [][Next]_vars

\* The event loop resumes every task that can go on, and resources, runs and
\* the tasks they wait for end at last.
FairSpec == Spec /\ \A c \in Callers : WF_vars(Step(c))

-----------------------------------------------------------------------------
(* Properties.                                                             *)

PCs == Critical \cup {"out", "scheduled", "queued", "idling", "woken"}

TypeOK ==
    /\ pc \in [Callers -> PCs]
    /\ op \in [Callers -> Operations \cup {NoOperation}]
    /\ holder \in Callers \cup {None}
    /\ queue \in Seq(Callers)
    /\ active \in Callers \cup {None}
    /\ aborted \in [Callers -> BOOLEAN]
    /\ pending \in Nat
    /\ idle \in BOOLEAN
    /\ started \in BOOLEAN
    /\ toolsUp \in BOOLEAN
    /\ up \subseteq 1..Resources
    /\ at \in 0..Resources
    /\ cut \in BOOLEAN
    /\ epoch \in {0, 1}
    /\ owed \in [Callers -> SUBSET Callers]

\* At most one caller is inside the operation lock.
Mutex ==
    \A c, d \in Callers :
        pc[c] \in Critical /\ pc[d] \in Critical => c = d

\* _pending_operations counts exactly the runs and compactions that have
\* entered and not left, through queueing, failure and cancellation, and the
\* idle event says whether there are none.
PendingExact ==
    /\ pending = Cardinality(Entered)
    /\ idle <=> pending = 0

\* abort reaches the run or compaction inside the lock and no other: a token
\* outlives neither its operation nor the hand-over to the next caller.
AbortIsScoped ==
    \A c \in Callers :
        active = c \/ aborted[c] => pc[c] \in Critical /\ op[c] \in Tracked

\* restore_session never replaces the history under an operation.
RestoreExcludesWork ==
    [][epoch' # epoch => \A c \in Callers : pc[c] \notin Critical]_vars

\* As long as no startup or shutdown was cancelled half way, a run,
\* compaction or dispatch finds every resource started.
BodyHasResources ==
    ~cut => \A c \in Callers : pc[c] = "body" => up = 1..Resources

\* "Release all resources owned by this agent": none is left running when
\* shutdown returns, whatever startup failed before it, unless one of them
\* was cancelled half way.
ShutdownReleases ==
    ~cut => \A c \in Callers :
        pc[c] = "leaving" /\ op[c] = "shutdown" => up = {}

\* wait_for_idle returns only after every run and compaction that had
\* entered before it was called has left.
IdleWaitCoversEntered ==
    \A c \in Callers : pc[c] = "woken" => owed[c] = {}

\* The inductive invariant behind these: the lock's holder is the caller in
\* the critical section, a waiter is owed only runs still counted, and what is
\* started follows from where the lock's holder is.
HolderIsCritical == \A c \in Callers : pc[c] \in Critical <=> holder = c

OwedAreEntered == \A c \in Callers : owed[c] \subseteq Entered

\* Between operations the resources are all started or all released.
AllUp == started /\ toolsUp /\ up = 1..Resources
AllDown == ~started /\ ~toolsUp /\ up = {}
AtRest == AllUp \/ AllDown

\* What is started at each await of a caller inside the lock.  A startup has
\* come as far as the resource before at; a rollback and a shutdown have at
\* and those before it still to stop.
Progress(c) ==
    CASE pc[c] = "starting" /\ at > 0 ->
            ~started /\ ~toolsUp /\ up = 1..(at - 1)
      [] pc[c] = "undoing" ->
            at > 0 /\ ~started /\ ~toolsUp /\ up \subseteq 1..at
      [] pc[c] = "stopping" -> at > 0 /\ up \subseteq 1..at
      [] pc[c] = "body" -> AllUp
      [] pc[c] = "leaving" /\ op[c] = "shutdown" -> AllDown
      [] OTHER -> AtRest

\* Only shutdown stops resources, and it does nothing else.
ShutdownOnlyStops ==
    \A c \in Callers :
        op[c] = "shutdown" => pc[c] \notin {"starting", "undoing", "body"}

ResourcesInv ==
    ~cut => /\ holder = None => AtRest
            /\ holder # None => Progress(holder)

IInv ==
    /\ TypeOK
    /\ HolderIsCritical
    /\ PendingExact
    /\ AbortIsScoped
    /\ OwedAreEntered
    /\ IdleWaitCoversEntered
    /\ ShutdownOnlyStops
    /\ ResourcesInv

\* Every caller gets through: a queued operation is served and finishes.
OperationsFinish ==
    \A c \in Callers : pc[c] = "queued" ~> pc[c] = "out"

-----------------------------------------------------------------------------
(* The agent its callers see.                                              *)

\* A caller works from the lock to its return and waits while it is queued.
Phase(c) == IF pc[c] \in Critical THEN "working"
            ELSE IF pc[c] = "queued" THEN "waiting" ELSE "out"

Agent == INSTANCE SequentialAgent
            WITH phase <- [c \in Callers |-> Phase(c)], line <- queue

\* The agent carries the operations out one at a time and in order, however
\* they fail and are cancelled, and restores only between them.
Sequential == Agent!Spec
==============================================================================
