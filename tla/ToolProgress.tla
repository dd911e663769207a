----------------------------- MODULE ToolProgress -----------------------------
(***************************************************************************)
(* Progress updates of tool calls: _ScopedToolProgressReporter with the    *)
(* parts around it -- ToolRuntime.execute_tool_call, CancellationToken.run *)
(* and AgentEventEmitter -- and the tasks that report.                     *)
(*                                                                         *)
(* Every call has a reporter.  Its handler runs in a task of its own       *)
(* (token.run makes it one) and may leave background tasks behind that     *)
(* hold the reporter too.  pc is where the task of the agent's run is; the *)
(* tasks of a call are in task.  An update passes the reporter's lock, is  *)
(* emitted by a task made for it, and occupies the sink until the sink     *)
(* returns.  The calls of a run are executed one after the other.          *)
(***************************************************************************)
EXTENDS Naturals, FiniteSets, SequencesExt

CONSTANTS
    Background,   \* tasks that a handler may leave behind
    Work,         \* the handler's own task
    Main,         \* the task of the run, as a waiter for a reporter's lock
    None,         \* nobody holds a lock
    MaxRuns,      \* bound: runs explored
    MaxCalls,     \* bound: tool calls of all runs
    MaxCancels    \* bound: cancellations of the caller's task

ASSUME ProgressAssumption ==
    /\ IsFiniteSet(Background)
    /\ Work \notin Background
    /\ {Main, None} \cap (Background \cup {Work}) = {}
    /\ Main # None
    /\ MaxRuns \in Nat /\ MaxCalls \in Nat /\ MaxCancels \in Nat

Calls == 1..MaxCalls
Tasks == Background \cup {Work}

VARIABLES
    pc,         \* where the task of the run is
    run,        \* runs begun
    active,     \* AgentEventEmitter._run_id: a run is active
    call,       \* the latest tool call
    runOf,      \* the run of each call
    aborted,    \* runs whose token is cancelled
    unwinding,  \* the caller's CancelledError is on its way out
    reporter,   \* the reporter of each call
    task,       \* the tasks of each call
    muted,      \* updates handed to the sink after the abort, for each call
    cancels     \* cancellations of the caller's task so far

vars == <<pc, run, active, call, runOf, aborted, unwinding, reporter, task,
          muted, cancels>>

mainVars == <<pc, run, active, call, runOf, aborted, unwinding, cancels>>
callVars == <<reporter, task, muted>>

\* Locations of the run between the start of a call and its end.
Executing == {"dispatching", "interrupting", "closing"}
\* Awaits of the run for the sink.
MainEmits == {"toolStarted", "toolCompleted", "turnCompleted", "finished"}

\* A task that reports: waits for the lock, has had its emission scheduled,
\* or waits for the sink.
Publishing == {"scheduled", "emitting"}

NewReporter == [open |-> FALSE, holder |-> None, queue |-> <<>>,
                drain |-> FALSE]

Init ==
    /\ pc = "idle"
    /\ run = 0
    /\ active = FALSE
    /\ call = 0
    /\ runOf = [c \in Calls |-> 0]
    /\ aborted = {}
    /\ unwinding = FALSE
    /\ reporter = [c \in Calls |-> NewReporter]
    /\ task = [c \in Calls |-> [t \in Tasks |-> "none"]]
    /\ muted = [c \in Calls |-> 0]
    /\ cancels = 0

Cancelled(c) == runOf[c] \in aborted

-----------------------------------------------------------------------------
(* The run around its tool calls.                                          *)

BeginRun ==
    /\ pc = "idle"
    /\ run < MaxRuns
    /\ pc' = "outside"
    /\ run' = run + 1
    /\ active' = TRUE
    /\ unwinding' = FALSE
    /\ UNCHANGED <<call, runOf, aborted, cancels, callVars>>

\* ToolStarted is emitted.
StartCall ==
    /\ pc = "outside"
    /\ call < MaxCalls
    /\ pc' = "toolStarted"
    /\ call' = call + 1
    /\ runOf' = [runOf EXCEPT ![call + 1] = run]
    /\ UNCHANGED <<run, active, aborted, unwinding, cancels, callVars>>

\* The turn is over, by its outcome or by the caller's cancellation.
EndTurn ==
    /\ pc = "outside"
    /\ pc' = "turnCompleted"
    /\ UNCHANGED <<run, active, call, runOf, aborted, unwinding, cancels,
                   callVars>>

\* TurnCompleted returns: another turn, or AgentFinished is emitted.
TurnSettled ==
    /\ pc = "turnCompleted"
    /\ \/ ~unwinding /\ pc' = "outside"
       \/ pc' = "finished"
    /\ UNCHANGED <<run, active, call, runOf, aborted, unwinding, cancels,
                   callVars>>

\* AgentFinished returns: end_run.
EndRun ==
    /\ pc = "finished"
    /\ pc' = "idle"
    /\ active' = FALSE
    /\ UNCHANGED <<run, call, runOf, aborted, unwinding, cancels, callVars>>

Abort ==
    /\ pc # "idle"
    /\ aborted' = aborted \cup {run}
    /\ UNCHANGED <<pc, run, active, call, runOf, unwinding, cancels, callVars>>

-----------------------------------------------------------------------------
(* One tool call: execute_tool_call after ToolStarted.                     *)

\* ToolStarted returns: the reporter is made.  A repeated call, arguments
\* that are no object and a cancelled token leave no handler to wait for.
Dispatch ==
    /\ pc = "toolStarted"
    /\ pc' = "dispatching"
    /\ reporter' = [reporter EXCEPT ![call].open = TRUE]
    /\ \/ /\ ~Cancelled(call)
          /\ task' = [task EXCEPT ![call][Work] = "running"]
       \/ UNCHANGED task
    /\ UNCHANGED <<run, active, call, runOf, aborted, unwinding, cancels,
                   muted>>

HandlerGone == task[call][Work] = "none"

\* Out of the finally block: ToolCompleted is emitted, unless the caller's
\* CancelledError passes through.
AfterClose == IF unwinding THEN "turnCompleted" ELSE "toolCompleted"

\* close(): a free lock is taken and released without waiting.
\* Mutant: close() does not take the lock.
MutantCloseReporter ==
    /\ reporter' = [reporter EXCEPT ![call].open = FALSE]
    /\ pc' = AfterClose

CloseReporter ==
    LET r == reporter[call] IN
    \/ /\ r.holder = None /\ r.queue = <<>>
       /\ reporter' = [reporter EXCEPT ![call].open = FALSE]
       /\ pc' = AfterClose
    \/ /\ r.holder # None \/ r.queue # <<>>
       /\ reporter' = [reporter EXCEPT ![call].queue = Append(@, Main)]
       /\ pc' = "closing"

\* The handler's task is done: the call is closed.
Close ==
    /\ pc \in {"dispatching", "interrupting"}
    /\ HandlerGone
    /\ CloseReporter
    /\ UNCHANGED <<run, active, call, runOf, aborted, unwinding, cancels,
                   task, muted>>

\* The lock comes to the waiting close().
CloseAcquires ==
    LET r == reporter[call] IN
    /\ pc = "closing"
    /\ r.holder = None
    /\ r.queue # <<>>
    /\ Head(r.queue) = Main
    /\ reporter' = [reporter EXCEPT ![call] =
                        [@ EXCEPT !.open = FALSE, !.queue = Tail(r.queue)]]
    /\ pc' = AfterClose
    /\ UNCHANGED <<run, active, call, runOf, aborted, unwinding, cancels,
                   task, muted>>

CallSettled ==
    /\ pc = "toolCompleted"
    /\ pc' = "outside"
    /\ UNCHANGED <<run, active, call, runOf, aborted, unwinding, cancels,
                   callVars>>

\* A waiter that is cancelled gives up its place.
Unqueue(c, t) ==
    LET q == reporter[c].queue
        i == CHOOSE j \in 1..Len(q) : q[j] = t
    IN  [reporter[c] EXCEPT !.queue = RemoveAt(q, i)]

\* Mutant: a cancelled report leaves the lock while the sink has its update.
MutantDrain(c) == [reporter[c] EXCEPT !.holder = None]
Drain(c) == [reporter[c] EXCEPT !.drain = TRUE]

\* What task.cancel() does to a task of a call.  A task that waits for the
\* lock leaves the queue.  One that waits for an emission goes on waiting for
\* it; cancelled again, it takes the emission with it.  A handler decides
\* itself how it ends, so a running one only loses its reason to go on.
Interrupt(c, t) ==
    LET r == reporter[c] IN
    \/ /\ task[c][t] = "waiting"
       /\ reporter' = [reporter EXCEPT ![c] = Unqueue(c, t)]
       /\ task' = [task EXCEPT ![c][t] = "running"]
    \/ /\ task[c][t] \in Publishing
       /\ ~r.drain
       /\ reporter' = [reporter EXCEPT ![c] = Drain(c)]
       /\ UNCHANGED task
    \/ /\ task[c][t] \in Publishing
       /\ r.drain
       /\ reporter' = [reporter EXCEPT ![c] =
                           [@ EXCEPT !.holder = None, !.drain = FALSE]]
       /\ task' = [task EXCEPT ![c][t] = "running"]
    \/ /\ task[c][t] \in {"none", "running"}
       /\ UNCHANGED <<reporter, task>>

\* token.run sees the abort: the handler's task is cancelled and awaited.
AbortInterrupts ==
    /\ pc = "dispatching"
    /\ Cancelled(call)
    /\ ~HandlerGone
    /\ pc' = "interrupting"
    /\ Interrupt(call, Work)
    /\ UNCHANGED <<run, active, call, runOf, aborted, unwinding, cancels,
                   muted>>

\* The caller's task is cancelled.  In token.run the cancellation goes on to
\* the handler's task; close() just loses its place in the queue.
CancelCaller ==
    /\ cancels < MaxCancels
    /\ cancels' = cancels + 1
    /\ unwinding' = TRUE
    /\ \/ /\ pc \in {"dispatching", "interrupting"}
          /\ pc' = "interrupting"
          /\ Interrupt(call, Work)
       \/ /\ pc = "closing"
          /\ pc' = "turnCompleted"
          /\ reporter' = [reporter EXCEPT ![call] = Unqueue(call, Main)]
          /\ UNCHANGED task
       \/ /\ pc \in {"outside", "toolStarted", "toolCompleted"}
          /\ pc' = "turnCompleted"
          /\ UNCHANGED <<reporter, task>>
       \/ /\ pc \in {"outside", "turnCompleted"}
          /\ pc' = "finished"
          /\ UNCHANGED <<reporter, task>>
       \/ /\ pc = "finished"
          /\ pc' = "idle"
          /\ UNCHANGED <<reporter, task>>
    /\ active' = (active /\ pc # "finished")
    /\ UNCHANGED <<run, call, runOf, aborted, muted>>

-----------------------------------------------------------------------------
(* The tasks of a call.                                                    *)

SpawnBackground(t) ==
    /\ pc \in {"dispatching", "interrupting"}
    /\ task[call][Work] = "running"
    /\ task[call][t] = "none"
    /\ task' = [task EXCEPT ![call][t] = "running"]
    /\ UNCHANGED <<mainVars, reporter, muted>>

TaskEnds(c, t) ==
    /\ task[c][t] = "running"
    /\ task' = [task EXCEPT ![c][t] = "none"]
    /\ UNCHANGED <<mainVars, reporter, muted>>

\* Mutant: only close() makes the reporter refuse, an abort does not.
MutantAccepts(c) == reporter[c].open
Accepts(c) == reporter[c].open /\ ~Cancelled(c)

CallOver(c) == c # call \/ pc \notin Executing

\* With the lock: the update is dropped, or a task is made to emit it.
Admit(c, t, queue) ==
    IF Accepts(c)
    THEN /\ task' = [task EXCEPT ![c][t] = "scheduled"]
         /\ reporter' = [reporter EXCEPT ![c] =
                [@ EXCEPT !.holder = t, !.queue = queue]]
    ELSE /\ task' = [task EXCEPT ![c][t] = "running"]
         /\ reporter' = [reporter EXCEPT ![c].queue = queue]

\* Mutant: a report takes a free lock past those that wait for it.
MutantLockFree(c) == reporter[c].holder = None
LockFree(c) == reporter[c].holder = None /\ reporter[c].queue = <<>>

Report(c, t) ==
    /\ task[c][t] = "running"
    /\ \/ /\ LockFree(c)
          /\ Admit(c, t, reporter[c].queue)
       \/ /\ ~LockFree(c)
          /\ reporter' = [reporter EXCEPT ![c].queue = Append(@, t)]
          /\ task' = [task EXCEPT ![c][t] = "waiting"]
    /\ UNCHANGED <<mainVars, muted>>

ReportAcquires(c, t) ==
    LET r == reporter[c] IN
    /\ task[c][t] = "waiting"
    /\ r.holder = None
    /\ r.queue # <<>>
    /\ Head(r.queue) = t
    /\ Admit(c, t, Tail(r.queue))
    /\ UNCHANGED <<mainVars, muted>>

\* The lock is left, by return or by exception.
Release(c, t) ==
    /\ reporter' = [reporter EXCEPT ![c] =
                        [@ EXCEPT !.holder = None, !.drain = FALSE]]
    /\ task' = [task EXCEPT ![c][t] = "running"]

\* The emission's first step: emit raises when no run is active, else the
\* update takes the next number of the active run and is handed to the sink.
EmissionStarts(c, t) ==
    /\ task[c][t] = "scheduled"
    /\ \/ /\ ~active
          /\ Release(c, t)
          /\ UNCHANGED muted
       \/ /\ active
          /\ task' = [task EXCEPT ![c][t] = "emitting"]
          /\ muted' = IF Cancelled(c) THEN [muted EXCEPT ![c] = @ + 1]
                      ELSE muted
          /\ UNCHANGED reporter
    /\ UNCHANGED mainVars

\* The sink returns or raises; emit swallows what it raises.
EmissionEnds(c, t) ==
    /\ task[c][t] = "emitting"
    /\ Release(c, t)
    /\ UNCHANGED <<mainVars, muted>>

\* Somebody cancels a background task.
CancelBackground(c, t) ==
    /\ cancels < MaxCancels
    /\ task[c][t] \in Publishing \cup {"waiting"}
    /\ cancels' = cancels + 1
    /\ Interrupt(c, t)
    /\ UNCHANGED <<pc, run, active, call, runOf, aborted, unwinding, muted>>

-----------------------------------------------------------------------------

\* The lock and the emissions of one call: what the event loop and a sink
\* that returns bring about.
Deliver(c) ==
    \E t \in Tasks : EmissionStarts(c, t) \/ EmissionEnds(c, t)
Grant(c) == \E t \in Tasks : ReportAcquires(c, t)

Next ==
    \/ BeginRun \/ StartCall \/ EndTurn \/ TurnSettled \/ EndRun \/ Abort
    \/ Dispatch \/ Close \/ CloseAcquires \/ CallSettled
    \/ AbortInterrupts \/ CancelCaller
    \/ \E t \in Background : SpawnBackground(t)
    \/ \E c \in Calls :
        \/ Deliver(c) \/ Grant(c)
        \/ \E t \in Tasks : TaskEnds(c, t) \/ Report(c, t)
        \/ \E t \in Background : CancelBackground(c, t)

Spec == Init /\ [][Next]_vars

\* Sinks return, the lock is handed on, and the run's task goes on.  Handlers
\* and background tasks owe nothing.
Fairness ==
    /\ WF_vars(Close) /\ WF_vars(CloseAcquires)
    /\ \A c \in Calls : WF_vars(Deliver(c)) /\ WF_vars(Grant(c))

FairSpec == Spec /\ Fairness

-----------------------------------------------------------------------------
(* Properties.                                                             *)

Locations == Executing \cup MainEmits \cup {"idle", "outside"}
TaskStates == Publishing \cup {"none", "running", "waiting"}
Reporters == [open : BOOLEAN, holder : Tasks \cup {None},
              queue : Seq(Tasks \cup {Main}), drain : BOOLEAN]

TypeOK ==
    /\ pc \in Locations
    /\ run \in 0..MaxRuns /\ call \in 0..MaxCalls /\ cancels \in 0..MaxCancels
    /\ active \in BOOLEAN /\ unwinding \in BOOLEAN
    /\ runOf \in [Calls -> 0..MaxRuns]
    /\ aborted \subseteq 1..MaxRuns
    /\ reporter \in [Calls -> Reporters]
    /\ \A c \in Calls : IsInjective(reporter[c].queue)
    /\ task \in [Calls -> [Tasks -> TaskStates]]
    /\ muted \in [Calls -> Nat]

\* A call whose close() returned stays silent: no update of it is in the sink
\* or on its way there, however many tasks its handler left behind.
ClosedCallIsQuiet ==
    \A c \in Calls :
        ~reporter[c].open => \A t \in Tasks : task[c][t] \notin Publishing

\* The calls whose close() was interrupted, so that their reporter is open
\* although they are over.
Leaked == {c \in 1..call : reporter[c].open /\ CallOver(c)}

\* The events of a run do not overlap: the updates of a call reach the sink one
\* at a time, also when a report is cancelled while the sink has it, and
\* unless a close() was interrupted, the sink has at most one event at all.
EventsDoNotOverlap ==
    /\ \A c \in Calls :
        Cardinality({t \in Tasks : task[c][t] \in Publishing}) <= 1
    /\ Leaked = {} =>
        Cardinality({e \in Calls \X Tasks : task[e[1]][e[2]] = "emitting"})
          + (IF pc \in MainEmits THEN 1 ELSE 0) <= 1

\* Once the run is aborted at most one update of a call still comes through,
\* the one that had been admitted before.
AbortMutes == \A c \in Calls : muted[c] <= 1

\* The inductive invariant behind these.  The lock of a reporter is held
\* exactly while the task that took it publishes, and only by an open one.
LockExact ==
    \A c \in Calls :
        /\ \A t \in Tasks : reporter[c].holder = t <=> task[c][t] \in Publishing
        /\ reporter[c].holder # None => reporter[c].open

\* Nobody is in a lock's queue but those that wait for it, none of them lost.
Waits(c, x) == IF x = Main THEN c = call /\ pc = "closing"
               ELSE task[c][x] = "waiting"
QueueExact ==
    \A c \in Calls, x \in Tasks \cup {Main} :
        Waits(c, x) <=> Contains(reporter[c].queue, x)

\* Only a cancelled caller leaves a reporter open behind its call.
OpenExact ==
    \A c \in Calls :
        reporter[c].open => /\ c <= call
                            /\ CallOver(c) => cancels > 0

\* The one update after an abort is the last: none is on its way any more.
MutedExact ==
    \A c \in Calls :
        muted[c] # 0 => /\ muted[c] = 1 /\ c <= call /\ Cancelled(c)
                        /\ \A t \in Tasks : task[c][t] # "scheduled"

\* Before its dispatch a call has neither tasks nor an open reporter.
NotBegun(c) == c > call \/ (c = call /\ pc = "toolStarted")
FreshUntilBegun ==
    \A c \in Calls :
        NotBegun(c) => /\ ~reporter[c].open
                       /\ \A t \in Tasks : task[c][t] = "none"

\* A call goes on only inside a run.
CallInRun ==
    /\ pc # "idle" => run > 0
    /\ pc \in Executing \cup {"toolStarted"} => call > 0

IInv ==
    /\ TypeOK
    /\ LockExact
    /\ QueueExact
    /\ OpenExact
    /\ MutedExact
    /\ FreshUntilBegun
    /\ CallInRun

\* close() returns whatever the tasks left behind keep reporting.
CloseReturns == pc = "closing" ~> pc # "closing"

===============================================================================
