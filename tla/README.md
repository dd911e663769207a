# SimAgentPlg in TLA+

TLA+ models of the agent core of SimAgentPlg (`src/simagentplg`), TLC runs that
check them on small instances, and TLAPS proofs for any instance. Paths below
are relative to the repository; `session/` stands for
`src/simagentplg/session/`, and so on.

## 1. Inventory

The program is a Python library on asyncio. One process holds agents, one event
loop runs them; the only threads are those in which the session storage does
its file work.

| Component | State | Operations | Talks to |
|---|---|---|---|
| Agent operations, `agent/base.py` | operation lock, active operation, pending count, idle event, `_started` | run, compact, dispatch, startup, shutdown, abort, wait_for_idle, reset, restore_session | callers; drives everything below |
| Run loop, `agent/orchestrator.py`, `agent/state.py` | `AgentState` (messages, status, turn, no-tool count), locals of the loop | run: turns of request, tool batch, results | provider stream, tool runtime, compaction, emitter |
| Cancellation, `agent/cancellation.py` | one flag and event per operation | cancel, raise_if_cancelled, run (race work against the flag) | read by every await of a run that does work |
| Tool runtime, `agent/tool_runtime.py` | routes, started handlers, repetition counter | startup, shutdown, execute_tool_call, cancel_tool_call, dispatch | handlers, middlewares, emitter |
| Tool progress, `agent/tool_runtime.py:40-87` | a lock and an accepting flag per call | report, close | handler tasks, emitter |
| Compaction, `agent/compaction.py`, `agent/context_management.py` | none between calls; a snapshot and a preparation during one | prepare, compact, compact_in_active_run | compactor, state, emitter |
| Usage, `agent/usage.py` | counters of one run | begin_request, record, snapshot | run loop |
| Events, `agent/events.py` | run id, sequence | begin_run, emit, end_run; composite fan-out | sinks, awaited one by one |
| Recorder, `session/recorder.py` | none of its own but a lock | emit: checkout, check, append | storage |
| Projection, `session/journal.py`, `session/types.py` | `AgentSession` (runs, entries, compactions) | apply_session_record and what it calls | recorder, storage |
| JSONL storage, `session/jsonl.py` | one file per session, one asyncio lock | append, save, fork, rollback, prepare_retry, checkout, head, records | file system, executor threads |
| MCP servers, `plugins/mcp`, `handlers/mcp.py` | clients, tool routes, exit stack | startup, shutdown, call_tool | tool runtime, MCP services |
| Provider adapters, `providers/` | one client; the generator of one stream: text, calls, usage, response | stream, close | run loop, the provider |
| Skills, context builder, model compactor, codec, memory storage, middlewares, logging | configuration or none | formatting, one call, one conversion | |

What is hard:

* **Streams.** A pull of the next event runs in a task that an abort cancels, while the
  response is being opened, read or closed inside of it.
* **Interleaving.** An abort, a `reset` or the cancellation of the caller's
  task may come at every await of a run, and each await leads somewhere else.
* **Exceptions as control flow.** A turn is left by return or by one of six
  exceptions through a `finally` that emits an event, itself an await.
* **Two histories.** The messages in memory and the recorded session are built
  by different code from the same run and have to agree.
* **Several tasks on one agent.** The lock, the pending count, the idle event
  and the active operation are four pieces of state changed at different points.
* **Partial failure.** Startup of several resources, a batch of calls, a write
  to a file.
* **Threads behind an asyncio lock.** A cancelled caller gives the lock up, its
  thread goes on.
* **Crashes.** A journal with an incomplete or unsynced tail, a run without end.

What makes each part correct is stated by the properties of section 4; all
hazards, with their lines, are listed in `PROJECT.json`.

## 2. Modules

```
Aggregates           the sum of a list and the selection of some of its elements
  Aggregates_proof         lemmas about them, and about recursion on lists
History              messages and the full-turn cuts of compaction
  AgentRun           one agent executing runs, from event to event
    AgentRun_proof           theorems
ContextCompaction    estimates, cut, summary and the two compacted histories
  ContextCompaction_proof  theorems
ProviderStream       model requests: orchestrator, adapter and usage
  ProviderStream_proof     theorems
  MCProviderStream         usage reports for TLC
ToolProgress         progress reporters of tool calls
  ToolProgress_proof       theorems
McpServers           MCP connections and the index of their tools
  McpServers_proof         theorems
  MCMcpServers             three services for TLC
SequentialAgent      abstract: operations one at a time, in order
  AgentOperations    BaseAgent shared by several tasks
    AgentOperations_proof  theorems
SessionLog           abstract: a log that loses nothing it reported
  SessionJournal     storage, projection and recorders
    SessionJournal_proof   theorems
    MCSessionJournal       setups and symmetry for TLC
```

An indented module extends the one above it, except the two below an abstract
specification, which instantiate it. `AgentRun`, `ContextCompaction` and `ProviderStream` also extend
`Aggregates`, and their proofs its proofs; `SessionJournal_proof` takes its induction from there. The components meet at interfaces that one side
takes as environment: `AgentRun` has the answers of provider, tools and compactor as
choices, which `ProviderStream`, `ToolProgress` and `ContextCompaction` open up;
`AgentOperations` has a run as one step, which `AgentRun` opens up.

### History and AgentRun

The coroutine of `AgentOrchestrator.run` is a state machine whose `pc` names the
await it is suspended at. An action is all the code between two awaits,
including the calls into state, usage, tool runtime and compaction. `"loop"`, the
head of the turn loop, is the one location that is not an await; it gives the
exits of the loop an action each.

| Variable | Code |
|---|---|
| `pc`, `pend` | the await; the stop reason on its way through `finally` |
| `runs`, `aborted` | the current run and its token |
| `state`, `usage`, `repeat` | `AgentState`, `UsageAccumulator`, the repetition counter |
| `turn`, `comp` | locals of the turn and of `compact_in_active_run` |
| `seen` | what a sink was handed: the session it would record, what is open |
| `env` | what the rest of the program did: cancellations, resets, and what they destroyed |

A message is its role and where it came from (run, turn, position of the call).
Texts, arguments, prompts and skills are left out, for they change no control
flow; a tool call is a member of `Signatures`, which is all the repetition check
sees. The provider, handlers, middlewares and compactor are environment: they
answer in any way their interface allows, or never. Any full-turn cut may be
chosen by `prepare_compaction`, whose choice depends on token estimates. The
emission of an event never fails a run, since the emitter swallows
exceptions of sinks; only cancellation passes through it.

`Abort` is `BaseAgent.abort`, `Reset` is `BaseAgent.reset`, `CancelCaller` is
asyncio's cancellation of the task that awaits `run`, with one disjunct for each
way `CancelledError` takes from the await it hits.

### ContextCompaction

A run is reduced to the messages it appends to the agent's history and to its session's,
with every way to leave a response or a batch; what `AgentRun` leaves open is computed here.

* Runs: `BeginTask` appends the task before `AgentStarted` is emitted; `heard` says whether the
  session recorded that beginning, and a session that did not takes no message of the run.
  `Respond` appends a response, `LoseResponse` one whose event the caller's cancellation
  keeps from the session. A batch is settled (`AnswerCalls`), left by a handler
  that ends the run, with the calls behind its own unanswered (`EndInBatch`), or thrown away by a
  repeated call, the cancellation of the caller or, as a whole, an abort behind
  the response (`LoseResults`); the session may have results then that the agent lost.
* Compaction: `Estimate` is `estimate_context_usage`, the last usage report plus the sizes behind
  it. `FirstKept` is the cut of `prepare_compaction`, built from `BeginsTurn` and
  `KeepsEnough`. `Compact` replaces the agent's history with `CompactedState` and
  puts the session's, `CompactedSession`, into `event`, from one summary, as the code does with two
  functions; it is called under pressure, on overflow and explicitly. While the event is emitted
  nothing else happens to the agent; the session applies it (`RecordCompaction`)
  or never gets it (`LoseCompaction`: the recorder fails or the caller is cancelled).
* `Restore` makes the session's history the agent's, whichever session it is by then.

A message has its role, size, number of calls, reported usage and, if it is a summary, the count
of what it stands for. The agent may begin with any short history, also with messages of roles
that are not summarized, as `reset` allows; results of tools in such a history are left out.
`made` counts for each history what may be summarized of it, `settled` says
that it has not grown since a compaction, and `apart` that something reached one of them only.

### ProviderStream

`main` is where `_request_model` is, `work` the task that `CancellationToken.run` makes for
one pull, `gen` the generator of `OpenAIModelAdapter.stream`, `arrived` what came for the await
it is suspended at. Three actors move: the run (`BeginRequest`, `Pull`, `TakeEvent`, `NoticeAbort`,
`CloseGenerator`), the generator inside the task (`TakeAnswer`, `TakeChunk`, `Resume`, `Leave`,
`CloseResponse`), and the provider (`Answer`, `Deliver`, with what it may `Send` and how it `Fails`). `poked` is a cancellation that
asyncio has scheduled and the generator not yet seen. The inner waits of the generator
race with the same token, but the outer wait is registered first, so that its
cancellation always gets there before; only the explicit checks are left of them.
`sent`, `recorded` and `signals` are history: what the provider sent, the usage of the requests
that completed, and when aborts and cancellations came.
A fragment of a call carries its index, its head, which is its id and its name in one flag, and a
piece of its arguments, each or none: a provider that sends the id and pieces of the name in
fragments of their own is not modelled. Calls may be sent with an index in any such split,
whole without an index, or in a message that is not streamed.

### ToolProgress

A call has a reporter (`open`, the lock's `holder` and `queue`, `drain`: a cancelled report
waits for its emission) and tasks: the handler's own, `Work`, and those it leaves
behind, `Background`. The emission of an update is a task of its own, `"scheduled"` until
it runs, when the emitter decides by its run id whether the sink sees it at all.
`Report`, `ReportAcquires`, `EmissionStarts`, `EmissionEnds`, `Close` and `CloseAcquires` are the reporter;
`BeginRun` to `EndRun` the run around it; `CancelCaller` has a disjunct for each await.

### McpServers

`pc` is the await of `startup` or `shutdown`. `stack` is the local `AsyncExitStack`, which
becomes `_exit_stack` (`owned`) at the end of a startup. `Register` is
`_register_service_tools` with its test for a name that is `Taken`; names are sequences of
parts, so that two services and their tools may form one prefixed name. A service that is
registered again, after a startup that was cut short, replaces its client (`Registered`); routes
of the earlier client stay, as in the code.
`connected` is what is really connected, which the code does not know. Services fail at
`Connect` and `ListTools`, and a close raises (`DiscardFails`, `CloseRaises`), with or without
having closed.

### AgentOperations and SequentialAgent

Callers are asyncio tasks. The model has one program counter per caller and the
fields of `BaseAgent` as they are; `up` is what is really running, which the code
does not know. Resource 1 is the model adapter, the others are handlers and, behind
them, middlewares, started in order and stopped in reverse. When the last handler
has started, the routes are built, which fails if two tools have one name: then the last
resource that started is undone too. A run is one step here (`BodyEnds`). `owed` is a
history variable: what a waiter of `wait_for_idle` has been promised. A cancelled
caller raises at its await: before its first step nothing of the coroutine runs,
in the queue its waiter is removed, inside the lock the error passes every
`except Exception`.

`SequentialAgent` says what all of this is for: callers are out, waiting in a line, or
working, one at a time and in the order of the line. `Agent` is the refinement mapping:
a caller in the critical section works, a queued one waits, the line is the lock's
queue, and the conversation is `epoch`. `Sequential` is its specification.

### SessionJournal and SessionLog

`file` holds the complete lines, `torn` says that an incomplete one follows, and
`synced` how much is on disk. A call takes the lock and a thread; the thread
reads and checks (`ReadJournal`), repairs the tail, writes, syncs and returns, each
a step of its own, since after a cancellation another thread may be between them.
`Fits` is what `_read_sync` demands of one line after those before it. `TrailTo` goes from a
record to the root along the parents: its path, and the session that
`apply_session_record` makes of that path (`Project`). A recorder's `emit` is
three steps: checkout and check, append, return. `view` is what its agent remembers,
`acked` (history) the records whose append was reported. `Crash` keeps any prefix of
the file that contains the synced lines, with or without part of the next line.

Lines are taken to have one length, so that a byte offset is a number of lines;
ids are numbers; a session has one agent; a message group is one message. `setup` is
chosen once, in `Init`: which branches, recorders and calls a behaviour has.

`SessionLog` has two variables, the log and what was reported of it. A record is added at
the end, reported once it is in the log, or lost in a crash together with what follows
it, if nothing of that was reported. `DurableLog` is its specification with `log <- file`.

## 3. Runs and bounds

All bounds are constants named in the modules. `CHECK_DEADLOCK FALSE` is set in
every run because a program may stop calling, and bounded counters run out.

| Run | Question | Bounds that matter |
|---|---|---|
| AgentRunTurns | pairing of calls and results, nesting, abort, token limit, reset | 3 turns, 2 calls per response, repetition at the third call, so that a batch may be cut in its middle, 2 plain texts, a limit of 4 with costs 1 and 2 or none reported, so that a response may meet the limit or pass it, 1 cancelled caller, 1 reset, overflow compaction only |
| AgentRunCompaction | cuts, retries, bounded requests, memory against session, an aborted run ends | 2 runs after 1 old turn, so that there is a turn to drop and one to keep; pressure and overflow; 1 cancelled caller; fair coroutine, silent environment |
| AgentOperations | lock, count, abort, idle, restore, resources, refinement of SequentialAgent, every queued caller gets out | 3 callers: a holder, and two who queue, one of whom is cancelled; 2 resources, so that one that fails has one before it |
| SessionJournalCrash | durability, repair, refinement of SessionLog | 1 thread, 4 records, 2 runs, 1 crash, 1 cancellation |
| SessionJournalBranches | branches and projection; writers of one branch | 2 branches and 4 records (run, message, end, branch) of one agent; or 2 recorders and saves on one branch, 3 records |
| ToolProgressCalls | updates, close, abort | 2 calls in 1 or 2 runs, each with its handler and a task left behind; 2 cancellations of the caller |
| ContextCompaction | cut, summary, the two histories | hand-made histories of 0 and 1 message, 5 messages made by tasks of sizes 1 and 3, batches of 2 calls, so that one may be left in its middle, 3 tokens to keep, which one task or three small messages reach, and a threshold of 5; enough for three compactions and a restore between them |
| McpServers | names, routes, connections | 3 services: two whose names and tools collide and one before or behind a failure; 2 startups |
| ProviderStream | message, deltas, response, usage, abort | 2 requests, 2 chunks with fragments of 2 calls, 1 cancellation, 2 kinds of report |

Why these are enough: the batch logic tells the first call, a following call and
the last one apart, so two calls with every outcome cover it; each loop of the
code (turns, retries, compactions) is passed at least once more than its limit;
the lock's queue needs a holder and two waiters for order and removal to matter;
a defect of the journal needs one interrupted write and one later write; a reporter's lock
needs a holder, a report and a close behind it; fragments of calls mix when two chunks each
carry one of two calls; a second startup meets all a first one left behind.

Every property has a mutant: a changed definition, named `Mutant...` and standing
before the one it changes, under which TLC finds the property violated. It shows
that the property depends on that line of the code.

Each module states the types of its variables as `TypeOK`, and those that are proved
about state the inductive invariants behind their properties. The
run of `AgentOperations` checks its `IInv`; those of the other modules
were checked with the constants of their runs before they were proved, and are
left out of the configurations because the theorems cover them.

### Fairness

`AgentRun!FairSpec` assumes only `WF_vars(RunStep)`: the event loop resumes a
coroutine that can go on, and sinks return. Nothing is assumed of provider,
handlers and compactor, because `CancellationToken.run` exists for those that do
not answer; it does assume that a cancelled awaitable really ends, since the code
awaits it (`agent/cancellation.py:63-64`). `ProviderStream!FairSpec` is the same for one
request: run and generator are fair, the delivery of what came is not, the provider may stay silent for ever.
`AgentOperations!FairSpec` gives each caller weak fairness: a body, a startup and a shutdown
end, and the lock's queue moves. `ToolProgress!FairSpec` gives it to the closing of a call, to the sink
(`Deliver`) and to the hand-over of a reporter's lock (`Grant`); the tasks that report
owe nothing and may report for ever.
Weak fairness is enough because such a step, once possible, stays possible
until it is taken or its task is cancelled. There is no fairness for aborts,
cancellations, crashes, failures or new requests.

## 4. What the checks show

* **AgentRun.** No request of a run holds one of its tool calls without a result
  (`RequestsWellFormed`), an abort in a tool settles the batch when the call itself
  comes back cancelled (`CancelledBatchSettles`), events nest (`EventsNest`), after an
  abort no work is begun (`AbortStopsWork`) and the run ends (`AbortEndsRun`).
  Compaction drops only turns of earlier runs (`RunHistoryKept`); no request is repeated
  after visible output or more often than the retries allow (`NoRetryAfterOutput`); the token limit is overshot by less than one response
  (`BudgetOvershoot`). What sinks recorded is what the agent remembers
  (`HistoryMatchesSession`), except after a repeated call or a cancelled caller threw
  recorded results away, and reset is not undone by a compaction that is prepared when
  it starts (`ResetForgets`).
* **ContextCompaction.** Whatever is summarized, the suffix that is kept begins with a user
  message and has the tokens to keep, and no shorter one of whole turns does (`CutIsMinimal`).
  Wherever runs leave their batches and however often a history is cut, no result
  is without its call, and the only calls without results are the last ones of a run that ended
  there, the next message being the task of another run (`PairsIntact`); that runs do leave
  such calls behind is what the run VAbortInCallSettlesBatch shows. One
  summary counts exactly what is gone (`SummaryIsExact`), and a compacted
  history cannot be compacted again before it has grown (`CompactionSettles`): a usage report from
  before the compaction, still the latest, signals pressure without effect until then. Once
  the history has grown the stale report may set off another compaction, earlier than
  the estimate of what is left would. `PairsIntact`, `SummaryIsExact` and `CompactionSettles` are about
  both histories. A restored agent has the history of the one that recorded it, up to leading
  system messages (`SessionFollowsState`), unless something has reached only one of the two since
  the last recorded compaction or restore: a hand-made history, a run whose beginning was not
  recorded, a response or results lost as above, a compaction that was not recorded.
* **ProviderStream.** A completed request returns what was sent (`ReplyExact`), the user is
  shown a prefix of it, and nothing if the request is going to be repeated (`ShownFaithful`), the totals are exact (`UsageExact`), an aborted request ends although the
  provider is silent (`AbortEndsRequest`), and the response is closed however the
  request ends (`ResponseReleased`), except when an abort comes during a pull, a cancellation hits
  the wait for the answer or a close, or a second one follows (`signals = "others"`).
* **ToolProgress.** Once `close()` returned, no update of the call is on its way, whoever
  still reports (`ClosedCallIsQuiet`); updates come one at a time, also when a report is
  cancelled, and overlap no other event of the run (`EventsDoNotOverlap`); after an
  abort at most one gets through (`AbortMutes`); `close()` returns (`CloseReturns`).
* **McpServers.** Offered names are distinct and routed and a service's tools come
  all or none (`ToolsExact`), and at rest exactly the registered services are
  connected (`ConnectionsExact`), unless a startup was cut short or a close failed.
* **AgentOperations.** An exact pending count, an abort that reaches
  only the operation inside the lock, `wait_for_idle` that outlasts what entered before it,
  all under cancellation; and the refinement of `SequentialAgent`, which contains mutual
  exclusion, order and a restore outside all operations. As long as no startup or shutdown was cancelled half way, work
  finds every resource and shutdown leaves none.
* **SessionJournal.** With one executor thread: every complete line stays readable, the
  file is a `SessionLog`, which loses no record it reported, and an interrupted run can be
  retried, through failed writes, cancellations and a crash. A retry branches before
  its run, and a restored agent remembers what the recording one did. An event is
  written behind the record it was checked against.

### Where documentation and code disagree

Three have a run, with expectation "violation", whose trace shows the case.

| Run | Statement | What the code does |
|---|---|---|
| VAbortInCallSettlesBatch | gap analysis 3.8: an abort in a call settles the batch | not when the handler ends the run at that moment, or the call is a repetition |
| VAcknowledgedDurable | jsonl.py:46 "immutable ... records" | with two threads, a cancelled append's thread may truncate a later record |
| VAbortLosesResponse | gap analysis, line 268: an abort closes the provider's stream | not when it comes as the request is answered: the response is not bound yet and is dropped |

More follow from the models but have no run of their own:

| Statement | What the code does | In the model |
|---|---|---|
| README:362-363 "incomplete final line ... ignored and repaired" | not when it is the first line: every call raises | `CanRead` |
| compaction.py:383 "agent history changed during compaction" | under pressure the snapshot is younger than the preparation, so that a reset in between is undone | `ResetForgets` with `AutoPressure = TRUE` |
| mcp_manager.py:36 "One service failure ... does not block other services" | it does when the close of the failed service raises | `DiscardFails` |
| tool_runtime.py:84 "reject future reports" | not when `close()` is cancelled while it waits for the lock | `Leaked` calls of `ToolProgress` |
| events.py:192 "...requested tool calls settled" | TurnCompleted is also emitted when the batch was not executed or not finished | the `finally` of a turn that was left by an exception |
| events.py:104 "...before mutation" | a cancellation during CompactionCompleted comes after it | `CancelCaller` at that emission |
| base.py:255 "Release all resources" | not those of a startup that was cancelled | `ShutdownReleases` without `~cut` |
| base.py:356 "Wait for requested runs" | a task that has not run yet is not counted | `CountOperation` is the first step of the task, not its creation |

## 5. What is proved

Eight modules of theorems, one per component and one of lemmas on lists. The first seven each prove that the specification keeps an
inductive invariant, in three facts: the initial state has it, every step keeps it, and the
properties follow. What it is proved from is the assumption on the constants that the
component's module names: counts that bound a run are any natural numbers
and sets are any sets, finite where they are counted (`OperationsAssumption`,
`ConstantsAssumption`, `ProgressAssumption`, `McpAssumption`, `JournalAssumption`,
`StreamAssumption`, `BudgetAssumption`). Only theorems on the file of `SessionJournal` have a hypothesis
of their own, `OneWriter`.

### AgentRun_proof

`IInv` is the conjunction of the types and nine parts, one per concern. The proof has a
lemma per part, `ControlStep`, `EventsStep` and so on, with a case per action.

* `ControlInv`: the locals of a turn while it lasts. The types rest on it: a call under way has
  a position in its batch, a compactor at work has something to compact.
* `EventsInv`: what is open at which await. Gives `EventsNested`, for runs whose caller was
  not cancelled.
* `BudgetInv`: usage reported once per request and, from the head of the turn to its response,
  below the limit. `BudgetOvershoot` is not inductive without the second: it says nothing of
  where the last response was asked for. Gives `BudgetKept`.
* `RequestsInv`: a turn that is still to make a request has used one less than it may, and
  nothing of its response was seen unless the request is marked as started. Gives
  `RetriesAreSafe`, an action property.
* `SessionInv`: the recorded session is the history and the results of the open batch. Gives
  `SessionIsHistory`.
* `ResultsInv`: the results of the open batch answer its calls one after the other.
* `HistoryInv`: every result stands behind the message that asks for it with only results
  between (`Paired`), and at the awaits where a request may follow every call of the run is
  answered (`Settled`). `Paired` says more than that orphans are absent, because that alone
  does not survive a compaction: the cut is made before a message of the user, so that no run
  of results is divided (`CutKeepsPairs`). Gives `WellFormedRequests` and `CancelledBatch`.

* `KeptInv`: what a run has added stands behind the last message of a user (`Behind`), in the
  history and in the snapshot that a compaction was planned for, which is the history until a reset
  empties it. A cut is before such a message. So it drops turns of earlier runs only. Gives
  `RunStaysWhole`, an action property: `OfRun` selects the messages of the run, and what is
  selected of the rest of a cut history is all there was (`CutKeepsRun`).
* `FreshInv`: no message comes twice (`Past`: those in the history and those forgotten
  were made by earlier awaits of this turn or before), and on its way to the commit a compaction compares the
  history with the very snapshot it was planned for. Gives `ResetStays`: what a reset forgot has no
  way back. Under pressure the plan is older than the comparison, so a reset in between does
  bring forgotten turns back; hence the hypothesis `~AutoPressure`, which is that of the run.

`HistoryInv` speaks of agents that are not reset; a `reset` under a run may well leave results
without their calls. `AbortStops` needs no invariant: it is in the guards.

The lemmas on histories are about the operators of `History` and used by every step that
changes one: what a cut leaves (`CompactedShape`), where it may be (`CutRange`), that a message
or a batch of results keeps pairs and answers (`PairedAppend`, `ResultsJoin`, `SettledStays`).

### AgentOperations_proof

* `Invariant`: `IInv` adds to the types and the properties that the holder of the lock is exactly
  the caller in the critical section (`HolderIsCritical`), which makes the critical section
  exclusive and lets `AbortIsScoped` survive `Leave`; that what a waiter is owed is among the
  operations still counted (`OwedAreEntered`), which is empty when the count is zero; and which
  resources are up (`ResourcesInv`): all or none while nobody holds the lock, those before `at`
  during a startup, none behind it during a rollback or a shutdown.
* `PendingCount` rests on the cardinality of the set of entered operations: one lemma each
  for entering (adds a caller that was not in it), leaving (removes one that was) and every
  other step (leaves it alone); and on the lemma that removing a waiter keeps the queue a
  sequence of callers.
* `BodyResources` and `Released` follow from `ResourcesInv` for the holder of the lock, as long as
  no startup or shutdown was cancelled half way.
* `TypeCorrect`, `MutualExclusion`, `AbortScope`, `IdleWait` are parts of `IInv`;
  `Mutex`, which `MutualExclusion` proves, is implied by `Sequential` and has no run of its own.
  `RestoreSafe` is an action property, of the same kind, from `HolderIsCritical` and the guard of
  `restore_session`.
* `Implements`: `Spec => Sequential`. The initial states map to the initial state; then one
  lemma per kind of step. `Enter` maps to `BeginAtOnce` or `LineUp`, `Acquire` to `Serve`, `Leave` to
  `Finish`, `CancelQueued` to `GiveUp`, `RestoreSession` to `ReplaceConversation`, everything else to a
  stutter. Under `IInv` a free lock means that nobody works (`FreeMeansNobody`), which is what
  the abstract steps ask for.

### ToolProgress_proof

`IInv` says that a reporter's lock is held exactly while the task that took it publishes, and
only by an open reporter; that its queue holds the tasks that wait, each once, and the run
itself while it closes; where in a call the run is; and which reporters an interrupted close
left open. From it `ClosedQuiet` (an update on its way holds a lock, which a closed reporter
does not have), `EventsSerial` (two updates of one call would hold one lock; one of another
call needs a leaked reporter, an event of the run a lock that is free), `AbortSilences` (only an
update admitted before the abort is still under way, and there is one lock) and
`LeakNeedsCancel`. The last has no run of its own.

### McpServers_proof

`IInv` orders the services by when they were connected (`InOrder`), gives every route its tool,
its name and a service that is still registered, with the client of the route or with
a later one that took its place (`RoutesExact`), and says at every await of a startup or shutdown
what is connected (`ConnectionsInv`): what is on the exit stack and the one under way. `ToolsExact`
is part of it, since a service whose names collide with those of an earlier one is refused
before anything of it is added, and `Replacing` shows that a client that is registered has no
route yet and that of its own startup no other is replaced; `ConnectionsExact` is its last part at rest.

### SessionJournal_proof

Four invariants, each on top of those before it.

* `CallInv` holds in every behaviour, with any number of threads. A thread that works for a
  recorder has the lock and its recorder waits for it (`OwnedCall`), so that its thread is the one
  the recorder's check was made for, even when threads of cancelled callers are
  still at work next to it. Gives `RecordsFollow`: once a record is written, its parent is the
  record the event was checked against. `EventFollowsChecked` alone says nothing of a
  call that has yet to read, so it is not inductive.
* `FileInv`: what a thread has read is still the whole journal when it cuts and writes behind it
  (`CurrentJob`), what is synced is in the file, and what was reported is synced. This is so
  only as long as no two threads work on the file, and the storage does not see to that: a
  cancelled `append` gives the asyncio lock up while its thread goes on. The run
  `VAcknowledgedDurable` has the behaviour in which that loses a record. So the theorems are
  `Spec /\ []OneWriter => ...`, and two more say when the hypothesis is true: `OneThread` when the
  executor has one thread, `Uncancelled` when no caller is cancelled, for then the lock is kept until its
  thread is done (`LockKept`).

`AlwaysReadable` rests on two lemmas about `Readable`: a line that fits keeps a journal readable,
and so does any loss of its end. `JournalIsLog` is the refinement of
`SessionLog`: `WriteLine` maps to `Write`, `Return` of an append to `Acknowledge`, `Crash` to `Lose`, everything
else to a stutter. That `RepairTail` is one, and cuts nothing but the torn line, is where
`CurrentJob` is needed.

* `SessionInv`: every record of the file projects to a session in which what is unfinished was
  begun on the way from a finished one (`Restartable`), and every retry branch goes back to the start of the run
  it retries (`GoesBack`); and the same will hold of the record that a thread is about to write
  (`DraftSound`). Gives `RunsRecoverable` and `RetriesGoBack`. The invariant is about all
  records and not only the heads of branches, because a branch may begin at any of them. Its lemmas
  are about trails: that of a record is its parent's and the record itself (`TrailAt`), lines that
  come later leave it alone (`TrailStays`), and the records of the main branch lie on one path
  (`MainIsPath`), so that a `save` whose session is older than the head still
  leaves an unfinished run that can be restarted.
* `RestoreInv`: an agent remembers what the head of its branch projects to, or will once the event
  on its way is written (`Remembers`). `RestoreMatches` speaks of recorders at rest only, hence
  is not inductive. It is about recorders with a branch each and no saves (`Separate`, the premise of
  the property): a thread appends its own recorder's event to that
  recorder's branch, or one to a branch whose recorder missed an event (`AppendsOwn`), and a
  written line moves the head of its own branch only (`ProjectMoves`). An
  event changes the recorded session and the memory alike (`EventRemembered`). Gives `RestoresMatch`.

### ProviderStream_proof

* `FlowInvariant`: `PullInv` says where the run is while the generator waits for a request, a chunk,
  its next pull or its close, and `OpenInv` follows the open response through it: it has
  a generator that is going to close it, or signals came at a point where the code lets go of it. Gives
  `ClosesResponse`. `ResponseReleased` speaks of ended requests only; what has to be known before is
  that a cancellation on its way to the generator's wait is one of those signals.
* `ShownInvariant`: what was sent is what was shown, the delta that a finished pull brought and the
  rest of the chunk the generator works on (`InFlight`), as long as nothing interrupts the
  request; after that what was shown is still a prefix. Gives `ShowsFaithfully`. Most steps move none of the three parts
  (`Silent`, `SilentStep`). `ProduceStep` is where a chunk is taken apart, `ProviderSteps` where one comes, `EventSteps`
  where a delta is shown.
* `UsageInvariant`: a request under way has still to report, and what its reply or its last chunk
  holds is a report. Gives `TotalsExact`: the totals are sums of recursive definition, to which a
  report adds its counts (`TotalAppend`), and an optional count that was lost once stays unknown.
* `ReplyInvariant`: while a request may still complete (`MayComplete`), its reply together with
  the rest of the chunk at hand is what was sent (`ReplyWhole`): the text, the calls and the usage.
  `ReplyExact` speaks of completed requests only, and of calls that are complete; the invariant says what a
  reply is in the middle of one. `Assembled` are the calls that any list of parts
  makes, each from the parts that are its own, and `PartAdded` is the heart of it: the code's `AddPart` makes, of the calls
  of some parts, the calls of those parts and one more, whatever came between the parts of a call.
  `PartsAdded` says so of a chunk, `SendReply` is where one comes and `ProduceWhole` where one is
  worked on; most other steps leave all of it alone (`Quiet`). Calls without a head are let through up to the checks after the
  loop (`AcceptedHeads`), and a request that ends another way owes nothing. Gives `ReturnsReply`, where
  `KeysInOrder` puts the calls in order. It is for the two calls of the model, with any
  number of parts and chunks.

### ContextCompaction_proof

What compaction computes is recursive. `TotalDef`, `SelectedDef` and `CutDef` say what `Total`,
`Selected` and `FirstKept` are (see `Aggregates_proof`); from there on nothing
is recursive: `Cuts` describes the cut as the last turn that keeps enough.

* `IInv` says the same of the agent's messages, of those its session would restore and of those of
  a compaction that is being emitted (`HistoryOf`), because `RecordCompaction` and `Restore` make
  the one the other: what is in front of the turns is protected and holds at most one summary; the
  turns hold neither summaries nor other roles; every message that was ever to be summarized is
  still there or counted once; a history that has not grown since its compaction cannot be cut; and
  calls and results are paired. None of the five properties is inductive alone.
  `SummaryIsExact`, say, needs that a cut never takes a summary with it, and `PairsIntact` that no
  call or result is among the protected messages, whose order changes when a summary is
  replaced. `InBatch` adds that an open batch belongs to the last message, in the session too if it
  heard of the run, so that the results that are appended are those of its calls.
* `Ends` says where the results of a call's message end. From it, `PairedNext` and `PairedResults`
  show that a message or the results of an open batch, all or the first of them, keep the pairing,
  `PairedFrom` that a suffix of whole turns does, and `PairedBehind` that it may stand behind any
  protected messages. `PairedWeaker` is the end of a run: what an open batch lacks may stay missing.
* `HistoryProduced`, `Compacted` and `HistoryRestored` show that messages, a compaction and
  a restore keep such a history. They divide it into what is protected and the turns (`Parted`,
  `HistoryParted`), where a step adds at the end, replaces the first part or drops the beginning of the second.
* `CompactedState` and `CompactedSession` are two functions in the code too. `Compacted` also
  shows that they agree behind their leading system messages, and `CompactedPrompts` that the
  agent's prompts stay in front, also after restores and when a hand-made history
  begins with system messages.

The conclusions are `SpecCutIsMinimal`, `SpecPairsIntact`, `SpecSummaryIsExact`,
`SpecCompactionSettles` and `SpecSessionFollowsState`, for any budget, number of prompts and sizes, and
for hand-made histories, batches and conversations of any length. `UnderPressure` plays no part: they hold
whenever a compaction is called.

### Aggregates_proof

The library's induction theorems cannot be used, since they take a predicate
as an operator; but every set of naturals with a member has a least one (`Least`, from
the well-foundedness of `<`), and a least counterexample is an induction (`Induction`). A
recursive function is a `CHOOSE` of a function that satisfies its equations, so it
equals them only if one exists: `Recursion` builds it. The rest are the lemmas on lists that three
components need: the sum and the selection of two parts are those of the parts joined.

### Only model-checked

* Liveness (`OperationsFinish`, `AbortEndsRun`, `CloseReturns`, `AbortEndsRequest`): fairness and ENABLED are
  beyond the prover.

Every other property that a passing run checks is a theorem.

## 6. Not modelled

The composite sink's fan-out, the codec, skills and context formatting, the in-memory
storage, the model compactor's own call, function composition of middlewares, the hooks
of single handlers, the conversion of requests to a provider's format, MCP tool calls, writers in
other processes (which the README of the repository excludes), and calls that an agent's own
tools or sinks make back into it, which block on the operation lock.

The failure of a sink is logged and the run goes on, so a session may have a gap where one
append failed. `RestoreMatches` speaks of recorders that missed nothing; the gap itself is
documented behaviour (isolation of sink failures) and is listed as a hazard. `ContextCompaction`
knows a session that missed a whole run, the end of one or a compaction, not one with such a gap
inside a run.

`ReplyExact` takes calls without an index to arrive in one chunk, which is what their
numbering by position is made for; such calls in chunks of their own would be joined.

## 7. What is left

`DurableAgent`: `AgentRun`'s recorded events through `SessionJournal`, with a crash between any
two: a restart restores a history that a provider accepts.
