------------------------------- MODULE AgentRun -------------------------------
(***************************************************************************)
(* One agent executing tasks: AgentOrchestrator.run with the parts it      *)
(* drives -- AgentState, UsageAccumulator, ToolRuntime.execute_tool_call,  *)
(* CompactionRuntime.compact_in_active_run, CancellationToken.run and the  *)
(* AgentEventEmitter.                                                      *)
(*                                                                         *)
(* The code is one asyncio coroutine.  pc names the await it is suspended  *)
(* at, and an action is the code from there to the next await: nothing     *)
(* else runs in between.  "loop" is the head of the turn loop, not an      *)
(* await; it is a location of its own only to give each of its exits an    *)
(* action.  While the coroutine is suspended the rest of the program may   *)
(* abort the run, cancel the caller's task or reset the agent.             *)
(*                                                                         *)
(* An event is handed to the sink in the action that emits it; pc then     *)
(* names the emission and the next action is its return.                   *)
(***************************************************************************)
EXTENDS History, Aggregates, FiniteSets, SequencesExt

CONSTANTS
    MaxSteps,            \* RuntimePolicy.max_steps
    MaxNoTool,           \* RuntimePolicy.max_no_tool_responses
    MaxRepeat,           \* RuntimePolicy.max_repeated_tool_calls
    TokenLimit,          \* RuntimePolicy.max_run_tokens, NoLimit for None
    ExplicitFinish,      \* RuntimePolicy.require_explicit_finish
    HasPolicy,           \* a CompactionPolicy is configured
    AutoPressure,        \* automatic compaction is on and compact_on_pressure
    AutoOverflow,        \* automatic compaction is on and recover_on_overflow
    MaxOverflowRetries,  \* AutoCompactionPolicy.max_overflow_retries
    Signatures,          \* (tool name, normalized arguments) of a call
    NoSignature,         \* ToolRuntime._last_tool_signature = None
    Costs,               \* token counts a response may report
    OldTurns,            \* turns of the history the agent was restored with
    MaxRuns,             \* bound: runs explored
    MaxCalls,            \* bound: tool calls of one response
    MaxCancels,          \* bound: cancellations of the caller's task
    MaxResets            \* bound: calls of BaseAgent.reset

NoLimit == 0
NoUsage == 0   \* a response that reports no usage; a reported cost is positive
NoPlan == 0    \* no CompactionPreparation

ASSUME ConstantsAssumption ==
    /\ MaxSteps \in Nat \ {0}
    /\ MaxNoTool \in Nat \ {0}
    /\ MaxRepeat \in Nat \ {0}
    /\ TokenLimit \in Nat
    /\ {ExplicitFinish, HasPolicy, AutoPressure, AutoOverflow} \subseteq BOOLEAN
    /\ AutoPressure \/ AutoOverflow => HasPolicy
    /\ MaxOverflowRetries \in {0, 1}
    /\ NoSignature \notin Signatures
    /\ Costs \subseteq Nat \ {0}
    /\ {OldTurns, MaxRuns, MaxCalls, MaxCancels, MaxResets} \subseteq Nat

VARIABLES
    pc,       \* the await the run is suspended at
    runs,     \* number of runs begun; the current one's id
    aborted,  \* CancellationToken.cancelled of the current run
    pend,     \* stop reason on its way out of the turn by return or exception
    state,    \* AgentState
    usage,    \* UsageAccumulator
    repeat,   \* ToolRuntime._last_tool_signature and _repeated_tool_calls
    turn,     \* locals of _run_loop, _chat_next_turn and _execute_tool_calls
    comp,     \* locals of compact_in_active_run
    seen,     \* what the event sink has been handed
    env       \* what the rest of the program has done

vars == <<pc, runs, aborted, pend, state, usage, repeat, turn, comp, seen, env>>

StopReasons == {"text_response", "tool_completion", "tool_rejected",
                "tool_cancelled", "external_abort", "empty_response",
                "max_steps", "max_no_tool_responses", "repeated_tool_call",
                "token_budget_exceeded", "usage_unavailable",
                "context_overflow", "compaction_failed", "runtime_error"}

StatusOf(reason) ==
    CASE reason \in {"text_response", "tool_completion"} -> "completed"
      [] reason = "tool_rejected" -> "rejected"
      [] reason \in {"tool_cancelled", "external_abort"} -> "cancelled"
      [] OTHER -> "failed"

\* Awaits between TurnStarted's emission and TurnCompleted's, by what an
\* asyncio cancellation arriving there leads to.
StreamAwaits == {"streaming", "delta"}
CompactionAwaits == {"compacting", "compDone"}
BatchAwaits == {"toolStarted", "dispatching", "toolCompleted", "skipStarted"}
TurnAwaits == BatchAwaits \cup
              {"pressure", "rebuilt", "compStarted", "compSkipped",
               "compFailed", "closing", "message"}
OuterAwaits == {"started", "preparing", "turnStarted", "turnCompleted"}
Awaits == StreamAwaits \cup CompactionAwaits \cup TurnAwaits
            \cup OuterAwaits \cup {"finished"}

-----------------------------------------------------------------------------
(* The initial state: an agent restored with OldTurns finished turns.      *)

RestoredHistory ==
    [i \in 1..(2 * OldTurns) |->
        IF i % 2 = 1 THEN NewMessage("user", 0, (i + 1) \div 2, 0)
                     ELSE NewMessage("assistant", 0, i \div 2, 0)]

NewUsage == [requests |-> 0, reported |-> 0, tokens |-> 0]
NewTurn == [step |-> 0, retries |-> 0, started |-> FALSE, calls |-> <<>>,
            text |-> FALSE, cost |-> NoUsage, idx |-> 0, results |-> <<>>,
            outcome |-> "continue"]
NoCompaction == [trigger |-> "pressure", base |-> <<>>, cut |-> NoPlan,
                 before |-> <<>>]

Init ==
    /\ pc = "idle"
    /\ runs = 0
    /\ aborted = FALSE
    /\ pend = "none"
    /\ state = [messages |-> RestoredHistory, status |-> "idle",
                turn |-> 0, noTool |-> 0]
    /\ usage = NewUsage
    /\ repeat = [sig |-> NoSignature, count |-> 0]
    /\ turn = NewTurn
    /\ comp = NoCompaction
    /\ seen = [session |-> RestoredHistory, turn |-> 0, calls |-> {},
               compaction |-> FALSE, exposed |-> FALSE]
    /\ env = [cancels |-> 0, resets |-> 0, forgotten |-> {},
              abortInCall |-> FALSE, resultsLost |-> FALSE]

-----------------------------------------------------------------------------
(* How a turn and a run end.                                               *)

\* The finally block of _run_loop: TurnCompleted is emitted while the
\* outcome of the turn is on its way out.
EndTurn(reason) ==
    /\ pc' = "turnCompleted"
    /\ pend' = reason
    /\ seen' = [seen EXCEPT !.turn = 0]

\* The tail of run: _commit_result, then AgentFinished is emitted.
Finish(reason) ==
    /\ pc' = "finished"
    /\ pend' = reason
    /\ state' = [state EXCEPT !.status = StatusOf(reason)]
    /\ UNCHANGED seen

\* run up to the emission of AgentStarted.  The token may have been
\* cancelled already, while the agent was still starting its resources.
BeginRun ==
    /\ pc = "idle"
    /\ runs < MaxRuns
    /\ pc' = "started"
    /\ runs' = runs + 1
    /\ aborted' \in BOOLEAN
    /\ pend' = "none"
    /\ state' = [messages |-> Append(state.messages, User(runs')),
                 status |-> "running", turn |-> 0, noTool |-> 0]
    /\ usage' = NewUsage
    /\ turn' = NewTurn
    /\ comp' = NoCompaction
    /\ seen' = [session |-> Append(seen.session, User(runs')), turn |-> 0,
                calls |-> {}, compaction |-> FALSE, exposed |-> FALSE]
    /\ env' = [env EXCEPT !.abortInCall = FALSE]
    /\ UNCHANGED repeat

EndRun ==
    /\ pc = "finished"
    /\ pc' = "idle"
    /\ UNCHANGED <<runs, aborted, pend, state, usage, repeat, turn, comp,
                   seen, env>>

\* token.run(_prepare_task) is entered, unless the token is cancelled.
PrepareTask ==
    /\ pc = "started"
    /\ \/ /\ ~aborted
          /\ pc' = "preparing"
          /\ UNCHANGED <<pend, state, seen>>
       \/ /\ aborted
          /\ Finish("external_abort")
    /\ UNCHANGED <<runs, aborted, usage, repeat, turn, comp, env>>

TaskPrepared ==
    /\ pc = "preparing"
    /\ pc' = "loop"
    /\ repeat' = [sig |-> NoSignature, count |-> 0]
    /\ UNCHANGED <<runs, aborted, pend, state, usage, turn, comp, seen, env>>

\* on_task_start of a handler or a middleware raises.
PrepareFails ==
    /\ pc = "preparing"
    /\ Finish("runtime_error")
    /\ UNCHANGED <<runs, aborted, usage, repeat, turn, comp, env>>

PrepareInterrupted ==
    /\ pc = "preparing"
    /\ aborted
    /\ Finish("external_abort")
    /\ UNCHANGED <<runs, aborted, usage, repeat, turn, comp, env>>

-----------------------------------------------------------------------------
(* The head of the turn loop.                                              *)

\* Mutant: the limit itself still buys a request.
MutantBudgetSpent == usage.tokens > TokenLimit
BudgetSpent == usage.tokens >= TokenLimit

\* _budget_failure: the reason to stop before another request, if any.
BudgetFailures ==
    IF TokenLimit = NoLimit \/ usage.requests = 0 THEN {}
    ELSE IF usage.reported < usage.requests THEN {"usage_unavailable"}
    ELSE IF BudgetSpent THEN {"token_budget_exceeded"} ELSE {}

StepsExhausted ==
    /\ pc = "loop"
    /\ turn.step = MaxSteps
    /\ Finish("max_steps")
    /\ UNCHANGED <<runs, aborted, usage, repeat, turn, comp, env>>

StopBeforeTurn ==
    /\ pc = "loop"
    /\ turn.step < MaxSteps
    /\ \/ aborted /\ Finish("external_abort")
       \/ ~aborted /\ \E reason \in BudgetFailures : Finish(reason)
    /\ UNCHANGED <<runs, aborted, usage, repeat, turn, comp, env>>

StartTurn ==
    /\ pc = "loop"
    /\ turn.step < MaxSteps
    /\ ~aborted
    /\ BudgetFailures = {}
    /\ pc' = "turnStarted"
    /\ turn' = [NewTurn EXCEPT !.step = turn.step + 1]
    /\ state' = [state EXCEPT !.turn = @ + 1]
    /\ seen' = [seen EXCEPT !.turn = turn.step + 1, !.exposed = FALSE]
    /\ UNCHANGED <<runs, aborted, pend, usage, repeat, comp, env>>

\* The await of TurnCompleted returns: next iteration, or out of the loop.
TurnSettled ==
    /\ pc = "turnCompleted"
    /\ \/ /\ pend = "none"
          /\ pc' = "loop"
          /\ UNCHANGED <<pend, state, seen>>
       \/ /\ pend # "none"
          /\ Finish(pend)
    /\ UNCHANGED <<runs, aborted, usage, repeat, turn, comp, env>>

-----------------------------------------------------------------------------
(* One model request: _chat_next_turn and _request_model.                  *)

\* Mutant: the token is not consulted before the stream is awaited.
MutantAwaitStream == pc' = "streaming" /\ UNCHANGED pend

\* The head of the stream loop: raise_if_cancelled, then token.run(anext).
AwaitStream ==
    \/ /\ ~aborted
       /\ pc' = "streaming"
       /\ UNCHANGED pend
    \/ /\ aborted
       /\ pc' = "closing"
       /\ pend' = "external_abort"

BeginRequest ==
    /\ usage' = [usage EXCEPT !.requests = @ + 1]
    /\ turn' = [turn EXCEPT !.started = FALSE]
    /\ AwaitStream
    /\ UNCHANGED <<comp, seen>>

\* TurnStarted returns.  With a policy the context is evaluated: below the
\* threshold there is no preparation, above it one with or without old turns.
EvaluateContext ==
    /\ pc = "turnStarted"
    /\ \/ /\ HasPolicy
          /\ pc' = "pressure"
          /\ \/ comp' = NoCompaction
             \/ \E cut \in CutPoints(state.messages) :
                    comp' = [NoCompaction EXCEPT !.base = state.messages,
                                                 !.cut = cut]
          /\ UNCHANGED <<pend, usage, turn, seen>>
       \/ /\ ~HasPolicy
          /\ BeginRequest
    /\ UNCHANGED <<runs, aborted, state, repeat, env>>

\* compact_in_active_run up to the emission of CompactionStarted.
StartCompaction(trigger, base, cut) ==
    /\ comp' = [trigger |-> trigger, base |-> base, cut |-> cut,
                before |-> state.messages]
    /\ pc' = "compStarted"
    /\ seen' = [seen EXCEPT !.compaction = TRUE]

\* ContextPressureEvaluated returns.
ContextEvaluated ==
    /\ pc = "pressure"
    /\ \/ /\ AutoPressure
          /\ comp.cut # NoPlan
          /\ StartCompaction("pressure", comp.base, comp.cut)
          /\ UNCHANGED <<pend, usage, turn>>
       \/ /\ ~AutoPressure \/ comp.cut = NoPlan
          /\ BeginRequest
    /\ UNCHANGED <<runs, aborted, state, repeat, env>>

\* The same event for the context rebuilt after a compaction.
ContextRebuilt ==
    /\ pc = "rebuilt"
    /\ BeginRequest
    /\ UNCHANGED <<runs, aborted, state, repeat, env>>

\* A text or thinking delta is passed on to the sink.
ReceiveDelta ==
    /\ pc = "streaming"
    /\ ~turn.started   \* bound: one delta of a request is as good as many
    /\ pc' = "delta"
    /\ turn' = [turn EXCEPT !.started = TRUE]
    /\ seen' = [seen EXCEPT !.exposed = TRUE]
    /\ UNCHANGED <<runs, aborted, pend, state, usage, repeat, comp, env>>

DeltaDelivered ==
    /\ pc = "delta"
    /\ AwaitStream
    /\ UNCHANGED <<runs, aborted, state, usage, repeat, turn, comp, seen, env>>

\* ModelResponseCompleted arrives; the iterator is closed before it is used.
ReceiveResponse ==
    /\ pc = "streaming"
    /\ pc' = "closing"
    /\ \E n \in 0..MaxCalls, text \in BOOLEAN, cost \in Costs \cup {NoUsage} :
        \E calls \in [1..n -> Signatures] :
            turn' = [turn EXCEPT !.calls = calls, !.text = text, !.cost = cost]
    /\ UNCHANGED <<runs, aborted, pend, state, usage, repeat, comp, seen, env>>

\* The stream raises ContextOverflowError; the provider may say itself that
\* the response had begun.
StreamOverflows ==
    /\ pc = "streaming"
    /\ pc' = "closing"
    /\ pend' = "context_overflow"
    /\ \E begun \in BOOLEAN :
        turn' = [turn EXCEPT !.started = @ \/ begun]
    /\ UNCHANGED <<runs, aborted, state, usage, repeat, comp, seen, env>>

\* The stream raises another exception, or ends without a response.
StreamFails ==
    /\ pc = "streaming"
    /\ pc' = "closing"
    /\ pend' = "runtime_error"
    /\ UNCHANGED <<runs, aborted, state, usage, repeat, turn, comp, seen, env>>

StreamInterrupted ==
    /\ pc = "streaming"
    /\ aborted
    /\ pc' = "closing"
    /\ pend' = "external_abort"
    /\ UNCHANGED <<runs, aborted, state, usage, repeat, turn, comp, seen, env>>

\* Overflow recovery is tried only before any output and within its retries.
\* Mutant: the retry ignores that output was exposed.
MutantRetryAfterOutput == AutoOverflow /\ turn.retries < MaxOverflowRetries
MayRetryOverflow ==
    AutoOverflow /\ ~turn.started /\ turn.retries < MaxOverflowRetries

\* aclose returns after a response: record its usage, append the assistant
\* message and emit MessageCompleted.
AcceptResponse ==
    LET message == Assistant(runs, turn.step, Len(turn.calls)) IN
    /\ pc = "closing"
    /\ pend = "none"
    /\ pc' = "message"
    /\ usage' = IF turn.cost = NoUsage THEN usage
                ELSE [usage EXCEPT !.reported = @ + 1,
                                   !.tokens = @ + turn.cost]
    /\ state' = [state EXCEPT !.messages = Append(@, message)]
    /\ seen' = [seen EXCEPT !.session = Append(@, message)]
    /\ UNCHANGED <<runs, aborted, pend, repeat, turn, comp, env>>

RecoverFromOverflow ==
    /\ pc = "closing"
    /\ pend = "context_overflow"
    /\ MayRetryOverflow
    /\ pend' = "none"
    /\ \E cut \in CutPoints(state.messages) :
        StartCompaction("overflow", state.messages, cut)
    /\ UNCHANGED <<runs, aborted, state, usage, repeat, turn, env>>

RequestFails ==
    /\ pc = "closing"
    /\ pend # "none"
    /\ pend = "context_overflow" => ~MayRetryOverflow
    /\ EndTurn(pend)
    /\ UNCHANGED <<runs, aborted, state, usage, repeat, turn, comp, env>>

-----------------------------------------------------------------------------
(* Compaction inside the run: compact_in_active_run.                       *)

\* CompactionFailed is emitted while the reason is on its way out.
FailCompaction(reason) ==
    /\ pc' = "compFailed"
    /\ pend' = reason
    /\ seen' = [seen EXCEPT !.compaction = FALSE]

\* CompactionStarted returns.
RunCompactor ==
    /\ pc = "compStarted"
    /\ \/ /\ ~CanCompact(comp.base, comp.cut)
          /\ pc' = "compSkipped"
          /\ seen' = [seen EXCEPT !.compaction = FALSE]
          /\ UNCHANGED pend
       \/ /\ CanCompact(comp.base, comp.cut)
          /\ aborted
          /\ FailCompaction("external_abort")
       \/ /\ CanCompact(comp.base, comp.cut)
          /\ ~aborted
          /\ pc' = "compacting"
          /\ UNCHANGED <<pend, seen>>
    /\ UNCHANGED <<runs, aborted, state, usage, repeat, turn, comp, env>>

\* Mutant: the history is not compared with the snapshot.
MutantHistoryUnchecked == TRUE
HistoryUnchanged == state.messages = comp.before

\* The compactor's output arrives and the history is replaced.
CommitCompaction ==
    LET compacted == Compacted(comp.base, comp.cut) IN
    /\ pc = "compacting"
    /\ ~aborted
    /\ HistoryUnchanged
    /\ state' = [state EXCEPT !.messages = compacted]
    /\ seen' = [seen EXCEPT !.session = compacted, !.compaction = FALSE]
    /\ pc' = "compDone"
    /\ UNCHANGED <<runs, aborted, pend, usage, repeat, turn, comp, env>>

\* The compactor raises, its output is not accepted, or the history changed.
CompactorFails ==
    /\ pc = "compacting"
    /\ FailCompaction("compaction_failed")
    /\ UNCHANGED <<runs, aborted, state, usage, repeat, turn, comp, env>>

\* An abort interrupts the compactor, or is seen when its output arrives.
CompactorInterrupted ==
    /\ pc = "compacting"
    /\ aborted
    /\ FailCompaction("external_abort")
    /\ UNCHANGED <<runs, aborted, state, usage, repeat, turn, comp, env>>

\* CompactionCompleted returns: the context is built again.
RebuildContext ==
    /\ pc = "compDone"
    /\ pc' = "rebuilt"
    /\ turn' = IF comp.trigger = "overflow"
               THEN [turn EXCEPT !.retries = @ + 1] ELSE turn
    /\ comp' = NoCompaction
    /\ UNCHANGED <<runs, aborted, pend, state, usage, repeat, seen, env>>

\* Nothing could be compacted: go on under pressure, give up on overflow.
CompactionSkipped ==
    /\ pc = "compSkipped"
    /\ \/ comp.trigger = "pressure" /\ BeginRequest
       \/ /\ comp.trigger = "overflow"
          /\ EndTurn("context_overflow")
          /\ UNCHANGED <<usage, turn, comp>>
    /\ UNCHANGED <<runs, aborted, state, repeat, env>>

CompactionFailed ==
    /\ pc = "compFailed"
    /\ EndTurn(pend)
    /\ UNCHANGED <<runs, aborted, state, usage, repeat, turn, comp, env>>

-----------------------------------------------------------------------------
(* The response and its batch of tool calls: the rest of _run_loop,        *)
(* _execute_tool_calls and ToolRuntime.execute_tool_call.                  *)

\* ToolStarted of call i is emitted; pc' tells a call from one being skipped.
StartCall(i, await) ==
    /\ pc' = await
    /\ turn' = [turn EXCEPT !.idx = i]
    /\ seen' = [seen EXCEPT !.calls = @ \cup {i}]

\* Mutant: the results of earlier calls are overwritten, not extended.
MutantCompleteCall(outcome, results) ==
    /\ pc' = "toolCompleted"
    /\ turn' = [turn EXCEPT !.outcome = outcome, !.results = results]
    /\ seen' = [seen EXCEPT !.calls = @ \ {turn.idx},
                            !.session = @ \o results]

\* ToolCompleted is emitted with the result messages of the call.
CompleteCall(outcome, results) ==
    /\ pc' = "toolCompleted"
    /\ turn' = [turn EXCEPT !.outcome = outcome, !.results = @ \o results]
    /\ seen' = [seen EXCEPT !.calls = @ \ {turn.idx},
                            !.session = @ \o results]

\* Mutant: a settled call leaves no result message.
MutantCallResult == <<>>
CallResult == <<ToolResult(runs, turn.step, turn.idx)>>

NoToolExhausted == state.noTool + 1 >= MaxNoTool

\* MessageCompleted returns and the response is text only.
TextResponse ==
    /\ pc = "message"
    /\ ~aborted
    /\ turn.calls = <<>>
    /\ \/ /\ ~ExplicitFinish
          /\ EndTurn(IF turn.text THEN "text_response" ELSE "empty_response")
          /\ UNCHANGED state
       \/ /\ ExplicitFinish
          /\ state' = [state EXCEPT !.noTool = @ + 1]
          /\ EndTurn(IF NoToolExhausted
                     THEN "max_no_tool_responses" ELSE "none")
    /\ UNCHANGED <<runs, aborted, usage, repeat, turn, comp, env>>

\* The abort is noticed after MessageCompleted, before the response is used.
ResponseAborted ==
    /\ pc = "message"
    /\ aborted
    /\ EndTurn("external_abort")
    /\ UNCHANGED <<runs, aborted, state, usage, repeat, turn, comp, env>>

FirstCall ==
    /\ pc = "message"
    /\ ~aborted
    /\ turn.calls # <<>>
    /\ state' = [state EXCEPT !.noTool = 0]
    /\ StartCall(1, "toolStarted")
    /\ UNCHANGED <<runs, aborted, pend, usage, repeat, comp, env>>

\* _check_repeated_tool_call counts consecutive calls with one signature.
CountedCalls ==
    LET sig == turn.calls[turn.idx] IN
    [sig |-> sig, count |-> IF sig = repeat.sig THEN repeat.count + 1 ELSE 1]

IsRepeated == CountedCalls.count >= MaxRepeat

\* Mutant: the repetition is raised before ToolCompleted is emitted.
MutantRejectRepeatedCall ==
    /\ pc = "toolStarted"
    /\ IsRepeated
    /\ repeat' = CountedCalls
    /\ EndTurn("repeated_tool_call")
    /\ UNCHANGED <<runs, aborted, state, usage, turn, comp, env>>

\* ToolStarted returns and the call is refused as a repetition: it completes
\* without a result message and ends the run.
RejectRepeatedCall ==
    /\ pc = "toolStarted"
    /\ IsRepeated
    /\ repeat' = CountedCalls
    /\ CompleteCall("repeated", <<>>)
    /\ UNCHANGED <<runs, aborted, pend, state, usage, comp, env>>

\* Otherwise its arguments or name are wrong, which is an error result, or
\* token.run is entered, which a cancelled token refuses.
DispatchCall ==
    /\ pc = "toolStarted"
    /\ ~IsRepeated
    /\ repeat' = CountedCalls
    /\ \/ CompleteCall("continue", CallResult)
       \/ aborted /\ CompleteCall("cancelled", CallResult)
       \/ /\ ~aborted
          /\ pc' = "dispatching"
          /\ UNCHANGED <<turn, seen>>
    /\ UNCHANGED <<runs, aborted, pend, state, usage, comp, env>>

\* The handler returns with a ToolControl; raising is an error result.
HandlerReturns ==
    /\ pc = "dispatching"
    /\ \E control \in {"continue", "complete", "reject", "cancel"} :
        CompleteCall(control, CallResult)
    /\ UNCHANGED <<runs, aborted, pend, state, usage, repeat, comp, env>>

\* Mutant: the handler is awaited directly, not through token.run.
MutantHandlerInterrupted == FALSE

HandlerInterrupted ==
    /\ pc = "dispatching"
    /\ aborted
    /\ CompleteCall("cancelled", CallResult)
    /\ UNCHANGED <<runs, aborted, pend, state, usage, repeat, comp, env>>

\* ToolCompleted returns.  A call that neither failed the run nor ended it
\* is followed by the next one; after a cancelled call the rest of the batch
\* is settled without being run.
NextCall ==
    /\ pc = "toolCompleted"
    /\ turn.outcome = "continue"
    /\ turn.idx < Len(turn.calls)
    /\ StartCall(turn.idx + 1, "toolStarted")
    /\ UNCHANGED <<runs, aborted, pend, state, usage, repeat, comp, env>>

SkipCall ==
    /\ pc = "toolCompleted"
    /\ turn.outcome = "cancelled"
    /\ turn.idx < Len(turn.calls)
    /\ StartCall(turn.idx + 1, "skipStarted")
    /\ UNCHANGED <<runs, aborted, pend, state, usage, repeat, comp, env>>

CallSkipped ==
    /\ pc = "skipStarted"
    /\ CompleteCall("cancelled", CallResult)
    /\ UNCHANGED <<runs, aborted, pend, state, usage, repeat, comp, env>>

BatchReason(outcome) ==
    CASE outcome = "continue" -> "none"
      [] outcome = "cancelled" -> "external_abort"
      [] outcome = "complete" -> "tool_completion"
      [] outcome = "reject" -> "tool_rejected"
      [] outcome = "cancel" -> "tool_cancelled"

\* Mutant: a cancelled call ends the batch at once.
MutantBatchOver ==
    /\ turn.outcome # "repeated"
    /\ turn.outcome = "continue" => turn.idx = Len(turn.calls)

BatchOver ==
    /\ turn.outcome # "repeated"
    /\ turn.outcome \in {"continue", "cancelled"} =>
            turn.idx = Len(turn.calls)

\* The batch is over: its results reach the history in one step.
EndBatch ==
    /\ pc = "toolCompleted"
    /\ BatchOver
    /\ state' = [state EXCEPT !.messages = @ \o turn.results]
    /\ EndTurn(BatchReason(turn.outcome))
    /\ UNCHANGED <<runs, aborted, usage, repeat, turn, comp, env>>

\* RepeatedToolCallError leaves the batch: the results of its earlier calls
\* are lost to the history.
RepeatedCallEndsTurn ==
    /\ pc = "toolCompleted"
    /\ turn.outcome = "repeated"
    /\ EndTurn("repeated_tool_call")
    /\ env' = [env EXCEPT !.resultsLost = @ \/ turn.results # <<>>]
    /\ UNCHANGED <<runs, aborted, state, usage, repeat, turn, comp>>

-----------------------------------------------------------------------------
(* The rest of the program, while the run is suspended.                    *)

\* BaseAgent.abort while this run is the active operation.
Abort ==
    /\ pc \in Awaits
    /\ ~aborted
    /\ aborted' = TRUE
    /\ env' = [env EXCEPT !.abortInCall = seen.calls # {}]
    /\ UNCHANGED <<pc, runs, pend, state, usage, repeat, turn, comp, seen>>

\* The asyncio task awaiting run() is cancelled: CancelledError is raised at
\* the await and takes the way its handlers and finally blocks give it.
CancelCaller ==
    /\ env.cancels < MaxCancels
    /\ env' = [env EXCEPT !.cancels = @ + 1,
                          !.resultsLost =
                             @ \/ (pc \in BatchAwaits /\ turn.results # <<>>)]
    /\ \/ /\ pc \in OuterAwaits
          /\ Finish("external_abort")
       \/ /\ pc \in TurnAwaits
          /\ EndTurn("external_abort")
          /\ UNCHANGED state
       \/ /\ pc \in StreamAwaits
          /\ pc' = "closing"
          /\ pend' = "external_abort"
          /\ UNCHANGED <<state, seen>>
       \/ /\ pc \in CompactionAwaits
          /\ FailCompaction("external_abort")
          /\ UNCHANGED state
       \/ /\ pc = "finished"
          /\ pc' = "idle"
          /\ UNCHANGED <<pend, state, seen>>
    /\ UNCHANGED <<runs, aborted, usage, repeat, turn, comp>>

\* BaseAgent.reset, which does not ask whether a run is active.
Reset ==
    /\ pc \in Awaits \cup {"idle"}
    /\ env.resets < MaxResets
    /\ state' = [messages |-> <<>>, status |-> "idle", turn |-> 0, noTool |-> 0]
    /\ env' = [env EXCEPT !.resets = @ + 1,
                          !.forgotten = @ \cup Range(state.messages)]
    /\ UNCHANGED <<pc, runs, aborted, pend, usage, repeat, turn, comp, seen>>

-----------------------------------------------------------------------------

\* What the run does as soon as it is resumed, and how it is resumed when the
\* awaited emission returns or the token interrupts the awaited work.
RunStep ==
    \/ EndRun \/ PrepareTask \/ PrepareInterrupted
    \/ StepsExhausted \/ StopBeforeTurn \/ StartTurn \/ TurnSettled
    \/ EvaluateContext \/ ContextEvaluated \/ ContextRebuilt
    \/ DeltaDelivered \/ StreamInterrupted
    \/ AcceptResponse \/ RecoverFromOverflow \/ RequestFails
    \/ RunCompactor \/ CompactorInterrupted \/ RebuildContext
    \/ CompactionSkipped \/ CompactionFailed
    \/ TextResponse \/ ResponseAborted \/ FirstCall
    \/ RejectRepeatedCall \/ DispatchCall \/ HandlerInterrupted
    \/ NextCall \/ SkipCall \/ CallSkipped
    \/ EndBatch \/ RepeatedCallEndsTurn

\* What handlers, the provider and the compactor do in their own time.
WorkStep ==
    \/ TaskPrepared \/ PrepareFails
    \/ ReceiveDelta \/ ReceiveResponse \/ StreamOverflows \/ StreamFails
    \/ CommitCompaction \/ CompactorFails
    \/ HandlerReturns

Next ==
    \/ BeginRun
    \/ RunStep
    \/ WorkStep
    \/ Abort \/ CancelCaller \/ Reset

Spec == Init /\ [][Next]_vars

\* The event loop resumes a coroutine that can go on.  Nothing is assumed of
\* the provider, the handlers or the compactor: they may never answer.
FairSpec == Spec /\ WF_vars(RunStep)

-----------------------------------------------------------------------------
(* Properties.                                                             *)

CallSeqs == UNION {[1..n -> Signatures] : n \in 0..MaxCalls}

Locations == Awaits \cup {"idle", "loop"}
Statuses == {"idle", "running", "completed", "failed", "cancelled", "rejected"}
Outcomes == {"continue", "complete", "reject", "cancel", "cancelled", "repeated"}
Histories == Seq(Messages)

AgentStates == [messages : Histories, status : Statuses, turn : 0..MaxSteps,
                noTool : 0..MaxNoTool]
Usages == [requests : Nat, reported : Nat, tokens : Nat]
Repeats == [sig : Signatures \cup {NoSignature}, count : Nat]
Turns == [step : 0..MaxSteps, retries : 0..MaxOverflowRetries,
          started : BOOLEAN, calls : CallSeqs, text : BOOLEAN,
          cost : Costs \cup {NoUsage}, idx : 0..MaxCalls, results : Histories,
          outcome : Outcomes]
Compactions == [trigger : {"pressure", "overflow"}, base : Histories,
                cut : Nat, before : Histories]
Views == [session : Histories, turn : 0..MaxSteps, calls : SUBSET (1..MaxCalls),
          compaction : BOOLEAN, exposed : BOOLEAN]
Environments == [cancels : 0..MaxCancels, resets : 0..MaxResets,
                 forgotten : SUBSET Messages, abortInCall : BOOLEAN,
                 resultsLost : BOOLEAN]

TypeOK ==
    /\ pc \in Locations
    /\ runs \in 0..MaxRuns
    /\ aborted \in BOOLEAN
    /\ pend \in StopReasons \cup {"none"}
    /\ state \in AgentStates
    /\ usage \in Usages
    /\ repeat \in Repeats
    /\ turn \in Turns
    /\ comp \in Compactions
    /\ seen \in Views
    /\ env \in Environments

\* What the provider is sent never holds a tool call of this run without its
\* result, or a result without its call, unless the history was reset under
\* the run (_run_loop, _execute_tool_calls, prepare_compaction).
RequestsWellFormed ==
    pc = "streaming" /\ env.resets = 0 =>
        /\ Dangling(state.messages, {runs}) = {}
        /\ Orphans(state.messages) = {}

\* Between turns the recorded session projects to the agent's own history,
\* so that a restart restores what the agent knew, unless a repeated call or
\* a cancelled caller discarded results that had been recorded.
HistoryMatchesSession ==
    /\ pc \in {"idle", "started", "turnStarted", "streaming", "turnCompleted"}
    /\ env.resets = 0
    /\ ~env.resultsLost
    => seen.session = state.messages

\* Once a call was cancelled by an abort, every call of its batch has a
\* result by the time the turn completes (_execute_tool_calls).
CancelledBatchSettles ==
    pc = "turnCompleted" /\ turn.outcome = "cancelled" /\ env.resets = 0
        /\ env.cancels = 0
    => Dangling(state.messages, {runs}) = {}

\* Events nest: no call or compaction is open when its turn completes, and
\* nothing is open at AgentFinished, unless the caller was cancelled.
EventsNest ==
    env.cancels = 0 =>
        /\ pc \in {"turnCompleted", "finished"} => seen.turn = 0
        /\ seen.turn = 0 => seen.calls = {} /\ ~seen.compaction

\* The requests that n turns may make.
RequestsOf(n) == n * (1 + MaxOverflowRetries)

\* A request is never repeated once part of a response to this turn was
\* passed on to the sinks, nor more often than the overflow retries allow.
NoRetryAfterOutput ==
    [][usage'.requests > usage.requests =>
        /\ ~seen'.exposed
        /\ usage'.requests <= RequestsOf(turn'.step)]_vars

\* A token limit is overshot by less than one response: only the response
\* that reaches it can exceed it, whatever retries and compactions happen.
BudgetOvershoot ==
    TokenLimit # NoLimit /\ usage.tokens > 0 =>
        \E cost \in Costs : usage.tokens < TokenLimit + cost

\* Messages produced by one run.
OfRun(ms, r) == Selected(ms, {m \in Messages : m.run = r})

\* A step other than reset keeps every message of the current run, in order:
\* compaction only ever drops turns of earlier runs.
RunHistoryKept ==
    [][runs' = runs /\ env'.resets = env.resets =>
        IsPrefix(OfRun(state.messages, runs),
                 OfRun(state'.messages, runs))]_vars

\* What reset forgot stays forgotten: a compaction prepared before the reset
\* must not bring it back ("agent history changed during compaction").
ResetForgets ==
    Range(state.messages) \cap (env.forgotten \ {Summary}) = {}

\* After an abort the run starts no further request, tool, compactor or
\* preparation.
AbortStopsWork ==
    [][(pc' # pc /\ pc' \in {"preparing", "streaming", "dispatching",
                            "compacting"}) => ~aborted]_vars

\* An aborted run ends, whether or not the provider, the handler or the
\* compactor it is waiting for ever answers.
AbortEndsRun == aborted /\ pc # "idle" ~> pc = "idle"

-----------------------------------------------------------------------------
(* The inductive invariants behind the safety properties.                  *)

InTurn == {"turnStarted"} \cup StreamAwaits \cup CompactionAwaits \cup TurnAwaits
InCompaction == CompactionAwaits \cup {"compStarted", "compSkipped"}

\* Awaits of a turn before the request that is to come, and before the
\* response to it is accepted.
BeforeRequest == {"turnStarted", "pressure", "rebuilt"} \cup InCompaction
BeforeResponse == BeforeRequest \cup StreamAwaits \cup {"closing"}

\* Awaits at which the last assistant message is being answered.
Answering == BatchAwaits \cup {"message"}

\* The locals of a turn while it lasts.
ControlInv ==
    /\ pc \in InTurn \cup {"turnCompleted"} => turn.step > 0
    /\ state.turn <= turn.step
    /\ \/ state.noTool < MaxNoTool
       \/ pc \in {"idle", "finished"}
       \/ pc = "turnCompleted" /\ pend # "none"
    /\ pc \in BatchAwaits => turn.idx \in 1..Len(turn.calls)
    /\ pc = "compacting" => CanCompact(comp.base, comp.cut)
    /\ pc = "pressure" => comp.trigger = "pressure"
    /\ pc = "compFailed" => pend # "none"
    /\ pc \in InCompaction /\ comp.trigger = "overflow" =>
        turn.retries < MaxOverflowRetries

\* What is open at which await, as long as no caller was cancelled.
EventsInv ==
    env.cancels = 0 =>
        /\ seen.turn = IF pc \in InTurn THEN turn.step ELSE 0
        /\ seen.calls = IF pc \in {"toolStarted", "dispatching", "skipStarted"}
                        THEN {turn.idx} ELSE {}
        /\ seen.compaction <=> pc \in {"compStarted", "compacting"}

\* A turn is begun below the limit and stays there until its response comes,
\* which reports its usage at most once.
BudgetInv ==
    /\ usage.reported <= usage.requests
    /\ pc \in StreamAwaits \cup {"closing"} => usage.reported < usage.requests
    /\ usage.reported = 0 => usage.tokens = 0
    /\ BudgetOvershoot
    /\ TokenLimit # NoLimit /\ pc \in BeforeResponse => usage.tokens < TokenLimit

\* The turn has yet to make its first request, or to repeat it.
RequestToCome ==
    \/ pc \in {"turnStarted", "pressure", "rebuilt"}
    \/ pc \in InCompaction /\ comp.trigger = "pressure"

\* The turns so far have used up their requests, and a request of this turn
\* that was repeated was given up before any output.
RequestsInv ==
    /\ pc \in {"started", "preparing", "loop"} =>
        usage.requests <= RequestsOf(turn.step)
    /\ pc \in InTurn \cup {"turnCompleted"} =>
        usage.requests + (IF RequestToCome THEN 1 ELSE 0)
            <= RequestsOf(turn.step - 1) + 1 + turn.retries
    /\ seen.exposed =>
        /\ pc \notin BeforeRequest
        /\ pc \in BeforeResponse => turn.started

\* The recorded session is the history and the results of the open batch;
\* outside a batch there are none.
SessionInv ==
    /\ pc \in InTurn \ BatchAwaits =>
        turn.results = <<>> /\ turn.outcome = "continue"
    /\ env.resets = 0 /\ ~env.resultsLost =>
        seen.session = IF pc \in BatchAwaits THEN state.messages \o turn.results
                       ELSE state.messages

\* The results of the open batch answer its calls one after the other.
ResultsInv ==
    pc \in BatchAwaits =>
        /\ Len(turn.results) = IF pc = "toolCompleted" /\ turn.outcome # "repeated"
                               THEN turn.idx ELSE turn.idx - 1
        /\ \A i \in 1..Len(turn.results) :
            turn.results[i] = ToolResult(runs, turn.step, i)

\* Every result follows the assistant message that asks for it, with nothing
\* but results in between.
Paired(ms) ==
    \A p \in 1..Len(ms) : ms[p].role = "tool" =>
        \E q \in 1..(p - 1) :
            /\ ms[q].role = "assistant"
            /\ ms[q].run = ms[p].run
            /\ ms[q].step = ms[p].step
            /\ p = q + ms[p].call
            /\ ms[p].call <= ms[q].call
            /\ \A i \in (q + 1)..p : ms[i].role = "tool"

\* The calls of run r among the first n messages have their results.
Settled(ms, r, n) ==
    \A p \in 1..n : ms[p].role = "assistant" /\ ms[p].run = r => Answered(ms, p)

\* The history of an agent that is not reset.
HistoryInv ==
    env.resets = 0 =>
        /\ Paired(state.messages)
        /\ \A p \in 1..Len(state.messages) : state.messages[p].run <= runs
        /\ pc \in {"pressure"} \cup InCompaction /\ comp.cut # NoPlan /\ pc # "compDone" =>
            comp.base = state.messages /\ comp.cut \in CutPoints(comp.base)
        /\ \/ pc \in {"started", "preparing", "loop"} \cup BeforeResponse
           \/ pc = "turnCompleted" /\ pend = "none"
           \/ pc = "turnCompleted" /\ turn.outcome = "cancelled" /\ env.cancels = 0
           => Settled(state.messages, runs, Len(state.messages))
        /\ pc \in Answering =>
            LET n == Len(state.messages) IN
            /\ n > 0
            /\ state.messages[n] = Assistant(runs, turn.step, Len(turn.calls))
            /\ Settled(state.messages, runs, n - 1)

\* What a run has added follows the user messages of the history: every turn
\* before one of them belongs to an earlier run.
Behind(ms, r) ==
    \A p \in 1..Len(ms) :
        /\ ms[p].run <= r
        /\ ms[p].run = r /\ r > 0 => \A q \in (p + 1)..Len(ms) : ms[q].role # "user"

\* A compaction drops turns of earlier runs only, from the history or from the
\* snapshot its plan was made for, which a reset may have emptied since.
KeptInv ==
    /\ Behind(state.messages, runs) /\ Behind(comp.base, runs)
    /\ pc # "idle" => runs > 0
    /\ comp.cut # NoPlan => comp.cut \in CutPoints(comp.base)
    /\ pc \in {"pressure", "compStarted", "compacting"} /\ comp.cut # NoPlan =>
        state.messages \in {comp.base, <<>>}

\* A message of an earlier run or turn, or of this one when no message like it
\* is still to come.
Past(m) ==
    /\ m.run <= runs
    /\ m.run = runs /\ runs > 0 =>
        /\ m.step <= turn.step
        /\ m.role = "assistant" /\ m.step = turn.step => pc \notin BeforeResponse
        /\ m.role = "tool" /\ m.step = turn.step =>
            pc \notin BeforeResponse \cup Answering

\* Every message is produced once, and a plan made for overflow recovery is
\* made of the history it is compared with: what reset forgot has no way back.
\* A plan made under pressure is older than that comparison.
FreshInv ==
    ~AutoPressure =>
        /\ \A m \in Range(state.messages) \cup env.forgotten : Past(m)
        /\ pc \in {"compStarted", "compacting"} => comp.before = comp.base
        /\ ResetForgets

IInv == TypeOK /\ ControlInv /\ EventsInv /\ BudgetInv /\ RequestsInv
        /\ SessionInv /\ ResultsInv /\ HistoryInv /\ KeptInv /\ FreshInv

-----------------------------------------------------------------------------
(* What the docs say of the program and the code does not do.              *)

\* An abort that lands while a tool call is under way settles the whole batch
\* with results, "so that the Session keeps no dangling Tool Call".
AbortInCallSettlesBatch ==
    pc = "turnCompleted" /\ env.abortInCall /\ env.cancels = 0
        => Dangling(seen.session, {runs}) = {}
==============================================================================
