---------------------------- MODULE AgentRun_proof ----------------------------
(***************************************************************************)
(* Proofs about AgentRun, for any policy, any tool signatures and any      *)
(* number of runs, turns, calls, cancellations and resets.                 *)
(***************************************************************************)
EXTENDS AgentRun, Aggregates_proof, FunctionTheorems, FiniteSetTheorems,
        SequenceTheorems, TLAPS

-----------------------------------------------------------------------------
(* Messages and calls.                                                     *)

\* The messages a run produces are messages.
LEMMA MessageTypes ==
    /\ \A r \in Nat : User(r) \in Messages
    /\ \A r, s, n \in Nat : Assistant(r, s, n) \in Messages
                            /\ ToolResult(r, s, n) \in Messages
    /\ Summary \in Messages
BY DEF User, Assistant, ToolResult, Summary, NewMessage, Messages

\* The calls of a response, and how many they can be.
LEMMA CallsOf ==
    ASSUME NEW calls \in CallSeqs
    PROVE  /\ Len(calls) \in 0..MaxCalls
           /\ Len(calls) \in Nat
           /\ \A i \in 1..Len(calls) : calls[i] \in Signatures
<1>1. PICK n \in 0..MaxCalls : calls \in [1..n -> Signatures]
  BY DEF CallSeqs
<1>2. MaxCalls \in Nat /\ n \in Nat
  BY ConstantsAssumption
<1>3. calls \in Seq(Signatures) /\ Len(calls) = n
  BY <1>1, <1>2
<1> QED
  BY <1>1, <1>2, <1>3

\* The history an agent is restored with.
LEMMA RestoredType == RestoredHistory \in Seq(Messages)
<1>1. 2 * OldTurns \in Nat
  BY ConstantsAssumption
<1>2. \A i \in 1..(2 * OldTurns) :
        /\ NewMessage("user", 0, (i + 1) \div 2, 0) \in Messages
        /\ NewMessage("assistant", 0, i \div 2, 0) \in Messages
  BY <1>1 DEF NewMessage, Messages
<1>3. RestoredHistory \in [1..(2 * OldTurns) -> Messages]
  BY <1>2 DEF RestoredHistory
<1> QED
  BY <1>1, <1>3

\* Where compaction may cut.
LEMMA CutRange ==
    ASSUME NEW ms \in Seq(Messages)
    PROVE  /\ HistoryStart(ms) \in {1, 2}
           /\ CutPoints(ms) \subseteq Nat \ {0}
           /\ \A cut \in CutPoints(ms) :
                cut # HistoryStart(ms) =>
                    /\ cut \in 1..Len(ms)
                    /\ ms[cut].role = "user"
<1>1. Len(ms) \in Nat
  BY LenProperties
<1>2. HistoryStart(ms) \in {1, 2}
  BY DEF HistoryStart
<1> QED
  BY <1>1, <1>2 DEF CutPoints

\* What compaction leaves: the summary, and the messages from the cut on.
LEMMA CompactedShape ==
    ASSUME NEW ms \in Seq(Messages), NEW cut \in Nat \ {0}
    PROVE  /\ Compacted(ms, cut) \in Seq(Messages)
           /\ cut <= Len(ms) =>
                /\ Len(Compacted(ms, cut)) = Len(ms) - cut + 2
                /\ Compacted(ms, cut)[1] = Summary
                /\ \A i \in 2..(Len(ms) - cut + 2) :
                     Compacted(ms, cut)[i] = ms[cut + i - 2]
<1> DEFINE kept == SubSeq(ms, cut, Len(ms))
<1>1. Len(ms) \in Nat /\ \A i \in cut..Len(ms) : ms[i] \in Messages
  BY LenProperties, ElementOfSeq
<1>2. /\ kept \in Seq(Messages)
      /\ Len(kept) = IF cut <= Len(ms) THEN Len(ms) - cut + 1 ELSE 0
      /\ \A i \in 1..(Len(ms) - cut + 1) : kept[i] = ms[cut + i - 1]
  BY <1>1, SubSeqProperties
<1> HIDE DEF kept
<1>3. <<Summary>> \in Seq(Messages) /\ Len(<<Summary>>) = 1
      /\ <<Summary>>[1] = Summary
  BY MessageTypes
<1> DEFINE r == <<Summary>> \o kept
<1>4. /\ r \in Seq(Messages)
      /\ Len(r) = 1 + Len(kept)
      /\ \A i \in 1..(1 + Len(kept)) :
           r[i] = IF i <= 1 THEN <<Summary>>[i] ELSE kept[i - 1]
  BY <1>2, <1>3, ConcatProperties
<1>5. Compacted(ms, cut) = r
  BY DEF Compacted, kept
<1> HIDE DEF r
<1>6. ASSUME cut <= Len(ms)
      PROVE  /\ Len(r) = Len(ms) - cut + 2
             /\ r[1] = Summary
             /\ \A i \in 2..(Len(ms) - cut + 2) : r[i] = ms[cut + i - 2]
  <2>1. Len(kept) = Len(ms) - cut + 1 /\ Len(kept) \in Nat
    BY <1>1, <1>2, <1>6
  <2>2. Len(r) = Len(ms) - cut + 2
    BY <1>1, <1>4, <2>1
  <2>3. r[1] = Summary
    BY <1>3, <1>4, <2>1, SMTT(60)
  <2>4. ASSUME NEW i \in 2..(Len(ms) - cut + 2) PROVE r[i] = ms[cut + i - 2]
    <3>1. /\ i \in 1..(1 + Len(kept)) /\ ~(i <= 1)
          /\ i - 1 \in 1..(Len(ms) - cut + 1) /\ cut + (i - 1) - 1 = cut + i - 2
      BY <1>1, <2>1
    <3>2. r[i] = kept[i - 1]
      BY <1>4, <3>1
    <3>3. kept[i - 1] = ms[cut + (i - 1) - 1]
      BY <1>2, <3>1
    <3> QED
      BY <3>1, <3>2, <3>3
  <2> QED
    BY <2>2, <2>3, <2>4
<1> QED
  BY <1>4, <1>5, <1>6

-----------------------------------------------------------------------------
(* Types.                                                                  *)

\* The awaits are told apart by their names.
LEMMA LocationNames ==
    Locations = {"streaming", "delta", "compacting", "compDone", "toolStarted",
                 "dispatching", "toolCompleted", "skipStarted", "pressure",
                 "rebuilt", "compStarted", "compSkipped", "compFailed", "closing",
                 "message", "started", "preparing", "turnStarted",
                 "turnCompleted", "finished", "idle", "loop"}
BY DEF Locations, Awaits, StreamAwaits, CompactionAwaits, TurnAwaits, BatchAwaits,
       OuterAwaits

\* The state of the agent: what its updates need and keep.
LEMMA AgentStateUpdates ==
    ASSUME NEW s \in AgentStates
    PROVE  /\ s.messages \in Histories /\ s.turn \in 0..MaxSteps
           /\ s.noTool \in 0..MaxNoTool
           /\ \A ms \in Histories : [s EXCEPT !.messages = ms] \in AgentStates
           /\ \A v \in Statuses : [s EXCEPT !.status = v] \in AgentStates
           /\ \A n \in 0..MaxSteps : [s EXCEPT !.turn = n] \in AgentStates
           /\ \A n \in 0..MaxNoTool : [s EXCEPT !.noTool = n] \in AgentStates
BY DEF AgentStates

\* The usage of a run.
LEMMA UsageUpdates ==
    ASSUME NEW u \in Usages
    PROVE  /\ u.requests \in Nat /\ u.reported \in Nat /\ u.tokens \in Nat
           /\ \A n \in Nat : [u EXCEPT !.requests = n] \in Usages
           /\ \A n, m \in Nat : [u EXCEPT !.reported = n, !.tokens = m] \in Usages
BY DEF Usages

\* The locals of a turn.
LEMMA TurnUpdates ==
    ASSUME NEW t \in Turns
    PROVE  /\ t.step \in 0..MaxSteps /\ t.retries \in 0..MaxOverflowRetries
           /\ t.started \in BOOLEAN /\ t.calls \in CallSeqs
           /\ t.cost \in Costs \cup {NoUsage} /\ t.idx \in 0..MaxCalls
           /\ t.results \in Histories /\ t.outcome \in Outcomes
           /\ \A b \in BOOLEAN : [t EXCEPT !.started = b] \in Turns
           /\ \A i \in 0..MaxCalls : [t EXCEPT !.idx = i] \in Turns
           /\ \A n \in 0..MaxOverflowRetries : [t EXCEPT !.retries = n] \in Turns
           /\ \A o \in Outcomes, ms \in Histories :
                [t EXCEPT !.outcome = o, !.results = ms] \in Turns
           /\ \A calls \in CallSeqs, b \in BOOLEAN, c \in Costs \cup {NoUsage} :
                [t EXCEPT !.calls = calls, !.text = b, !.cost = c] \in Turns
BY DEF Turns

\* The locals a turn begins with.
LEMMA NewTurns ==
    /\ NewTurn \in Turns
    /\ \A n \in 0..MaxSteps : [NewTurn EXCEPT !.step = n] \in Turns
<1>1. <<>> \in Histories
  BY EmptySeq DEF Histories
<1>2. <<>> \in CallSeqs
  <2>1. <<>> \in [1..0 -> Signatures] /\ 0 \in 0..MaxCalls
    BY ConstantsAssumption
  <2> QED
    BY <2>1 DEF CallSeqs
<1>3. 0 \in 0..MaxSteps /\ 0 \in 0..MaxOverflowRetries /\ 0 \in 0..MaxCalls
  BY ConstantsAssumption
<1>4. NewTurn \in Turns
  BY <1>1, <1>2, <1>3 DEF NewTurn, Turns, Outcomes
<1> QED
  BY <1>4 DEF Turns

\* What the event sink has been handed.
LEMMA ViewUpdates ==
    ASSUME NEW v \in Views
    PROVE  /\ v.session \in Histories /\ v.calls \in SUBSET (1..MaxCalls)
           /\ v.compaction \in BOOLEAN /\ v.exposed \in BOOLEAN
           /\ \A ms \in Histories : [v EXCEPT !.session = ms] \in Views
           /\ \A n \in 0..MaxSteps : [v EXCEPT !.turn = n] \in Views
           /\ \A b \in BOOLEAN : [v EXCEPT !.compaction = b] \in Views
           /\ \A b \in BOOLEAN : [v EXCEPT !.exposed = b] \in Views
           /\ \A S \in SUBSET (1..MaxCalls) : [v EXCEPT !.calls = S] \in Views
           /\ \A n \in 0..MaxSteps, b \in BOOLEAN :
                [v EXCEPT !.turn = n, !.exposed = b] \in Views
           /\ \A S \in SUBSET (1..MaxCalls), ms \in Histories :
                [v EXCEPT !.calls = S, !.session = ms] \in Views
           /\ \A ms \in Histories, b \in BOOLEAN :
                [v EXCEPT !.session = ms, !.compaction = b] \in Views
BY DEF Views

\* What the rest of the program has done.
LEMMA EnvironmentUpdates ==
    ASSUME NEW e \in Environments
    PROVE  /\ e.cancels \in 0..MaxCancels /\ e.resets \in 0..MaxResets
           /\ e.forgotten \in SUBSET Messages
           /\ e.abortInCall \in BOOLEAN /\ e.resultsLost \in BOOLEAN
           /\ \A b \in BOOLEAN : [e EXCEPT !.abortInCall = b] \in Environments
           /\ \A b \in BOOLEAN : [e EXCEPT !.resultsLost = b] \in Environments
           /\ \A n \in 0..MaxCancels, b \in BOOLEAN :
                [e EXCEPT !.cancels = n, !.resultsLost = b] \in Environments
           /\ \A n \in 0..MaxResets, S \in SUBSET Messages :
                [e EXCEPT !.resets = n, !.forgotten = S] \in Environments
BY DEF Environments

\* The locals of a compaction.
LEMMA CompactionFields ==
    /\ NoCompaction \in Compactions
    /\ \A c \in Compactions : c.base \in Histories /\ c.cut \in Nat
    /\ \A ms \in Histories, cut \in Nat :
         [NoCompaction EXCEPT !.base = ms, !.cut = cut] \in Compactions
    /\ \A t \in {"pressure", "overflow"}, ms, before \in Histories, cut \in Nat :
         [trigger |-> t, base |-> ms, cut |-> cut, before |-> before] \in Compactions
<1>1. <<>> \in Histories
  BY EmptySeq DEF Histories
<1> QED
  BY <1>1 DEF NoCompaction, NoPlan, Compactions

\* Histories are extended by messages and by results.
LEMMA HistoryUpdates ==
    ASSUME NEW ms \in Histories
    PROVE  /\ \A m \in Messages : Append(ms, m) \in Histories /\ <<m>> \in Histories
           /\ \A rs \in Histories : ms \o rs \in Histories
           /\ Range(ms) \subseteq Messages
           /\ CutPoints(ms) \subseteq Nat \ {0}
           /\ \A cut \in Nat \ {0} : Compacted(ms, cut) \in Histories
<1>1. ms \in Seq(Messages)
  BY DEF Histories
<1>2. \A m \in Messages : Append(ms, m) \in Seq(Messages) /\ <<m>> \in Seq(Messages)
  BY <1>1
<1>3. \A rs \in Seq(Messages) : ms \o rs \in Seq(Messages)
  BY <1>1, ConcatProperties
<1>4. Range(ms) \subseteq Messages
  BY <1>1, LenProperties, ElementOfSeq DEF Range
<1> QED
  BY <1>1, <1>2, <1>3, <1>4, CutRange, CompactedShape DEF Histories


\* The bounds are numbers.
LEMMA Bounds ==
    /\ MaxSteps \in Nat /\ MaxNoTool \in Nat /\ MaxNoTool > 0 /\ TokenLimit \in Nat
    /\ MaxOverflowRetries \in {0, 1} /\ MaxOverflowRetries \in Nat
    /\ (\A c \in Costs : c \in Nat) /\ OldTurns \in Nat /\ MaxRuns \in Nat
    /\ MaxCalls \in Nat /\ MaxCancels \in Nat /\ MaxResets \in Nat
BY ConstantsAssumption

\* A response without calls has none.
LEMMA EmptyCalls == \A c \in CallSeqs : Len(c) = 0 => c = <<>>
<1> SUFFICES ASSUME NEW c \in CallSeqs, Len(c) = 0 PROVE c = <<>>
  OBVIOUS
<1>1. PICK n \in 0..MaxCalls : c \in [1..n -> Signatures]
  BY DEF CallSeqs
<1>2. c \in Seq(Signatures)
  BY <1>1, ConstantsAssumption
<1> QED
  BY <1>2, EmptySeq

\* The reasons a run may stop for.
LEMMA Reasons ==
    /\ {"text_response", "tool_completion", "tool_rejected", "tool_cancelled",
        "external_abort", "empty_response", "max_steps", "max_no_tool_responses",
        "repeated_tool_call", "token_budget_exceeded", "usage_unavailable",
        "context_overflow", "compaction_failed", "runtime_error"} = StopReasons
    /\ "none" \notin StopReasons
    /\ \A r \in StopReasons : StatusOf(r) \in Statuses
    /\ BudgetFailures \subseteq StopReasons
    /\ \A o \in Outcomes : o # "repeated" => BatchReason(o) \in StopReasons \cup {"none"}
BY DEF StopReasons, Statuses, StatusOf, BudgetFailures, BatchReason, Outcomes

\* Each part of an action gives the variables it sets a value of their type.

\* The end of a turn.
LEMMA EndTurnType ==
    ASSUME TypeOK, NEW r \in StopReasons \cup {"none"}, EndTurn(r)
    PROVE  /\ pc' = "turnCompleted" /\ pend' = r /\ seen' \in Views
<1>1. 0 \in 0..MaxSteps
  BY ConstantsAssumption
<1>2. seen \in Views
  BY DEF TypeOK
<1> QED
  BY <1>1, <1>2, ViewUpdates DEF EndTurn

\* The end of a run.
LEMMA FinishType ==
    ASSUME TypeOK, NEW r \in StopReasons, Finish(r)
    PROVE  pc' = "finished" /\ pend' = r /\ state' \in AgentStates /\ seen' = seen
<1>1. state \in AgentStates /\ StatusOf(r) \in Statuses
  BY Reasons DEF TypeOK
<1> QED
  BY <1>1, AgentStateUpdates DEF Finish

\* The wait for the next part of a stream.
LEMMA AwaitStreamType ==
    ASSUME TypeOK, AwaitStream
    PROVE  pc' \in {"streaming", "closing"} /\ pend' \in StopReasons \cup {"none"}
BY Reasons DEF TypeOK, AwaitStream

\* A request that begins.
LEMMA BeginRequestType ==
    ASSUME TypeOK, BeginRequest
    PROVE  /\ pc' \in {"streaming", "closing"} /\ pend' \in StopReasons \cup {"none"}
           /\ usage' \in Usages
           /\ turn' \in Turns /\ comp' = comp /\ seen' = seen
<1>1. usage \in Usages /\ turn \in Turns
  BY DEF TypeOK
<1>2. usage' \in Usages
  BY <1>1 DEF BeginRequest, Usages
<1>3. turn' \in Turns
  BY <1>1, TurnUpdates DEF BeginRequest
<1> QED
  BY <1>2, <1>3, AwaitStreamType DEF BeginRequest

\* A compaction that begins.
LEMMA StartCompactionType ==
    ASSUME TypeOK, NEW t \in {"pressure", "overflow"}, NEW base \in Histories,
           NEW cut \in Nat, StartCompaction(t, base, cut)
    PROVE  pc' = "compStarted" /\ comp' \in Compactions /\ seen' \in Views
<1>1. state.messages \in Histories /\ seen \in Views
  BY AgentStateUpdates DEF TypeOK
<1> QED
  BY <1>1, CompactionFields, ViewUpdates DEF StartCompaction

\* A compaction that fails.
LEMMA FailCompactionType ==
    ASSUME TypeOK, NEW r \in StopReasons, FailCompaction(r)
    PROVE  pc' = "compFailed" /\ pend' = r /\ seen' \in Views
<1>1. seen \in Views
  BY SMTT(60) DEF TypeOK
<1> QED
  BY <1>1, ViewUpdates DEF FailCompaction

\* A call that begins.
LEMMA StartCallType ==
    ASSUME TypeOK, NEW i \in 1..MaxCalls, NEW await, StartCall(i, await)
    PROVE  pc' = await /\ turn' \in Turns /\ seen' \in Views
<1>1. seen \in Views /\ turn \in Turns /\ i \in 0..MaxCalls
  BY DEF TypeOK
<1>2. seen.calls \cup {i} \in SUBSET (1..MaxCalls)
  BY <1>1, ViewUpdates
<1> QED
  BY <1>1, <1>2, ViewUpdates, TurnUpdates DEF StartCall

\* A call that is complete.
LEMMA CompleteCallType ==
    ASSUME TypeOK, NEW o \in Outcomes, NEW rs \in Histories, CompleteCall(o, rs)
    PROVE  pc' = "toolCompleted" /\ turn' \in Turns /\ seen' \in Views
<1>1. seen \in Views /\ turn \in Turns
  BY DEF TypeOK
<1>2. seen.calls \ {turn.idx} \in SUBSET (1..MaxCalls)
  BY <1>1, ViewUpdates
<1>3. seen.session \o rs \in Histories /\ turn.results \o rs \in Histories
  BY <1>1, ViewUpdates, TurnUpdates, HistoryUpdates
<1> QED
  BY <1>1, <1>2, <1>3, ViewUpdates, TurnUpdates DEF CompleteCall

\* What a call leaves: its result, and how often its signature came.
LEMMA CallTypes ==
    ASSUME TypeOK
    PROVE  /\ CallResult \in Histories /\ <<>> \in Histories
           /\ turn.idx \in 1..Len(turn.calls) => CountedCalls \in Repeats
           /\ Len(turn.calls) \in 0..MaxCalls
<1>1. turn \in Turns /\ turn.step \in Nat /\ turn.idx \in Nat /\ runs \in Nat
  <2>1. turn \in Turns /\ runs \in 0..MaxRuns
    BY DEF TypeOK
  <2>2. turn.step \in 0..MaxSteps /\ turn.idx \in 0..MaxCalls
    BY <2>1, TurnUpdates
  <2> QED
    BY <2>1, <2>2
<1>2. CallResult \in Histories /\ <<>> \in Histories
  BY <1>1, MessageTypes, HistoryUpdates, EmptySeq DEF CallResult, Histories
<1>3. turn.calls \in CallSeqs
  BY <1>1, TurnUpdates
<1>4. ASSUME turn.idx \in 1..Len(turn.calls) PROVE CountedCalls \in Repeats
  <2>1. turn.calls[turn.idx] \in Signatures
    BY <1>3, <1>4, CallsOf
  <2> QED
    BY <2>1 DEF TypeOK, CountedCalls, Repeats
<1> QED
  BY <1>2, <1>3, <1>4, CallsOf

\* Every step keeps the types.
LEMMA TypeStep ==
    ASSUME TypeOK, ControlInv, [Next]_vars
    PROVE  TypeOK'
<1> USE LocationNames
<1>a. /\ pc \in Locations /\ runs \in 0..MaxRuns /\ aborted \in BOOLEAN
      /\ pend \in StopReasons \cup {"none"} /\ state \in AgentStates
      /\ usage \in Usages
      /\ repeat \in Repeats /\ turn \in Turns /\ comp \in Compactions
      /\ seen \in Views /\ env \in Environments
  BY DEF TypeOK
<1>b. /\ state.messages \in Histories /\ turn.results \in Histories
      /\ seen.session \in Histories /\ comp.base \in Histories
      /\ turn.calls \in CallSeqs /\ turn.outcome \in Outcomes
      /\ turn.idx \in 0..MaxCalls /\ turn.step \in 0..MaxSteps
      /\ Len(turn.calls) \in 0..MaxCalls
  BY <1>a, AgentStateUpdates, TurnUpdates, ViewUpdates, CompactionFields,
     CallsOf
<1>c. /\ turn.retries \in 0..MaxOverflowRetries /\ state.turn \in 0..MaxSteps
      /\ state.noTool \in 0..MaxNoTool
      /\ usage.reported \in Nat /\ usage.tokens \in Nat
      /\ turn.cost \in Nat /\ comp.cut \in Nat
      /\ env.cancels \in 0..MaxCancels /\ env.resets \in 0..MaxResets
  <2>1. turn.cost \in Costs \cup {0}
    BY <1>a, TurnUpdates DEF NoUsage
  <2>2. turn.cost \in Nat
    BY <2>1, Bounds
  <2> QED
    BY <1>a, <2>2, AgentStateUpdates, TurnUpdates, UsageUpdates, CompactionFields,
       EnvironmentUpdates
<1>d. /\ pc \in {"toolStarted", "toolCompleted"} => turn.idx \in 1..Len(turn.calls)
      /\ state.turn <= turn.step
      /\ pc = "compDone" /\ comp.trigger = "overflow" =>
            turn.retries < MaxOverflowRetries
      /\ pc = "message" => state.noTool < MaxNoTool
      /\ pc = "compacting" => CanCompact(comp.base, comp.cut)
  BY DEF ControlInv, BatchAwaits, InCompaction, CompactionAwaits
<1>1. CASE BeginRun
  <2>1. runs' \in 0..MaxRuns /\ runs' \in Nat
    BY <1>a, <1>1, Bounds, SMTT(60) DEF BeginRun
  <2>2. User(runs') \in Messages
    BY <2>1, MessageTypes
  <2>3. /\ Append(state.messages, User(runs')) \in Histories
        /\ Append(seen.session, User(runs')) \in Histories
    BY <1>b, <2>2, HistoryUpdates
  <2>4. 0 \in 0..MaxSteps /\ 0 \in 0..MaxNoTool
    BY ConstantsAssumption
  <2>5. state' \in AgentStates
    BY <1>1, <2>3, <2>4 DEF BeginRun, AgentStates, Statuses
  <2>6. seen' \in Views
    BY <1>1, <2>3, <2>4 DEF BeginRun, Views
  <2>7. usage' \in Usages
    BY <1>1 DEF BeginRun, NewUsage, Usages
  <2>8. env' \in Environments
    BY <1>a, <1>1, EnvironmentUpdates DEF BeginRun
  <2> QED
    BY <1>a, <1>1, <2>1, <2>5, <2>6, <2>7, <2>8, NewTurns, CompactionFields,
       Zenon
    DEF BeginRun, TypeOK
<1>2. CASE EndRun
  BY <1>a, <1>2 DEF EndRun, TypeOK
<1>3. CASE PrepareTask
  BY <1>a, <1>3, FinishType, Reasons DEF PrepareTask, TypeOK
<1>4. CASE PrepareInterrupted
  BY <1>a, <1>4, FinishType, Reasons DEF PrepareInterrupted, TypeOK
<1>5. CASE StepsExhausted
  BY <1>a, <1>5, FinishType, Reasons DEF StepsExhausted, TypeOK
<1>6. CASE StopBeforeTurn
  BY <1>a, <1>6, FinishType, Reasons DEF StopBeforeTurn, TypeOK
<1>7. CASE StartTurn
  <2>1. turn.step + 1 \in 0..MaxSteps /\ state.turn + 1 \in 0..MaxSteps
    <3>1. turn.step < MaxSteps
      BY <1>7 DEF StartTurn
    <3>2. /\ turn.step \in Nat /\ state.turn \in Nat /\ MaxSteps \in Nat
          /\ state.turn <= turn.step
      BY <1>b, <1>c, <1>d, Bounds
    <3> QED
      BY <3>1, <3>2
  <2>2. turn' \in Turns
    BY <1>7, <2>1, NewTurns DEF StartTurn
  <2>3. state' \in AgentStates
    BY <1>a, <1>7, <2>1, AgentStateUpdates DEF StartTurn
  <2>4. seen' \in Views
    BY <1>a, <1>7, <2>1, ViewUpdates DEF StartTurn
  <2> QED
    BY <1>a, <1>7, <2>2, <2>3, <2>4 DEF StartTurn, TypeOK
<1>8. CASE TurnSettled
  BY <1>a, <1>8, FinishType, Reasons DEF TurnSettled, TypeOK
<1>9. CASE EvaluateContext
  <2>1. CASE /\ pc' = "pressure"
             /\ \/ comp' = NoCompaction
                \/ \E cut \in CutPoints(state.messages) :
                     comp' = [NoCompaction EXCEPT !.base = state.messages,
                                                  !.cut = cut]
             /\ UNCHANGED <<pend, usage, turn, seen>>
    <3>1. comp' \in Compactions
      BY <1>b, <2>1, CompactionFields, HistoryUpdates
    <3> QED
      BY <1>a, <1>9, <2>1, <3>1 DEF EvaluateContext, TypeOK
  <2>2. CASE BeginRequest
    BY <1>a, <1>9, <2>2, BeginRequestType DEF EvaluateContext, TypeOK
  <2> QED
    BY <1>9, <2>1, <2>2 DEF EvaluateContext
<1>10. CASE ContextEvaluated
  <2>1. CASE /\ StartCompaction("pressure", comp.base, comp.cut)
             /\ UNCHANGED <<pend, usage, turn>>
    <3>1. pc' = "compStarted" /\ comp' \in Compactions /\ seen' \in Views
      BY <1>a, <2>1, CompactionFields, StartCompactionType
    <3> QED
      BY <1>a, <1>10, <2>1, <3>1 DEF ContextEvaluated, TypeOK
  <2>2. CASE BeginRequest
    BY <1>a, <1>10, <2>2, BeginRequestType DEF ContextEvaluated, TypeOK
  <2> QED
    BY <1>10, <2>1, <2>2 DEF ContextEvaluated
<1>11. CASE ContextRebuilt
  BY <1>a, <1>11, BeginRequestType DEF ContextRebuilt, TypeOK
<1>12. CASE DeltaDelivered
  BY <1>a, <1>12, AwaitStreamType DEF DeltaDelivered, TypeOK
<1>13. CASE StreamInterrupted
  BY <1>a, <1>13, Reasons DEF StreamInterrupted, TypeOK
<1>14. CASE AcceptResponse
  <2> DEFINE message == Assistant(runs, turn.step, Len(turn.calls))
  <2>1. message \in Messages
    BY <1>a, <1>b, MessageTypes, ConstantsAssumption
  <2>2. /\ Append(state.messages, message) \in Histories
        /\ Append(seen.session, message) \in Histories
    BY <1>b, <2>1, HistoryUpdates
  <2> HIDE DEF message
  <2>3. state' \in AgentStates
    BY <1>a, <1>14, <2>2, AgentStateUpdates DEF AcceptResponse, message
  <2>4. seen' \in Views
    BY <1>a, <1>14, <2>2, ViewUpdates DEF AcceptResponse, message
  <2>5. usage' \in Usages
    <3>2. CASE turn.cost = NoUsage
      BY <1>a, <1>14, <3>2 DEF AcceptResponse
    <3>3. CASE turn.cost # NoUsage
      <4>1. usage.reported + 1 \in Nat /\ usage.tokens + turn.cost \in Nat
        BY <1>c
      <4> QED
        BY <1>a, <1>14, <3>3, <4>1, UsageUpdates DEF AcceptResponse
    <3> QED
      BY <3>2, <3>3
  <2> QED
    BY <1>a, <1>14, <2>3, <2>4, <2>5 DEF AcceptResponse, TypeOK
<1>15. CASE RecoverFromOverflow
  <2>1. PICK cut \in CutPoints(state.messages) :
          StartCompaction("overflow", state.messages, cut)
    BY <1>15 DEF RecoverFromOverflow
  <2>2. cut \in Nat
    BY <1>b, HistoryUpdates
  <2>3. pc' = "compStarted" /\ comp' \in Compactions /\ seen' \in Views
    BY <1>a, <1>b, <2>1, <2>2, StartCompactionType
  <2> QED
    BY <1>a, <1>15, <2>3 DEF RecoverFromOverflow, TypeOK
<1>16. CASE RequestFails
  BY <1>a, <1>16, EndTurnType DEF RequestFails, TypeOK
<1>17. CASE RunCompactor
  BY <1>a, <1>17, FailCompactionType, Reasons, ViewUpdates
  DEF RunCompactor, TypeOK
<1>18. CASE CompactorInterrupted
  BY <1>a, <1>18, FailCompactionType, Reasons DEF CompactorInterrupted, TypeOK
<1>19. CASE RebuildContext
  <2>1. turn' \in Turns
    <3>1. CASE comp.trigger = "overflow"
      <4>1. turn.retries + 1 \in 0..MaxOverflowRetries
        BY <1>c, <1>d, <1>19, <3>1, Bounds DEF RebuildContext
      <4> QED
        BY <1>a, <1>19, <3>1, <4>1, TurnUpdates DEF RebuildContext
    <3>2. CASE comp.trigger # "overflow"
      BY <1>a, <1>19, <3>2 DEF RebuildContext
    <3> QED
      BY <3>1, <3>2
  <2> QED
    BY <1>a, <1>19, <2>1, CompactionFields DEF RebuildContext, TypeOK
<1>20. CASE CompactionSkipped
  BY <1>a, <1>20, EndTurnType, BeginRequestType, Reasons
  DEF CompactionSkipped, TypeOK
<1>21. CASE CompactionFailed
  BY <1>a, <1>21, EndTurnType DEF CompactionFailed, TypeOK
<1>22. CASE TextResponse
  <2>1. CASE /\ EndTurn(IF turn.text THEN "text_response" ELSE "empty_response")
             /\ UNCHANGED state
    <3>1. /\ pc' = "turnCompleted" /\ pend' \in StopReasons \cup {"none"}
          /\ seen' \in Views
      BY <1>a, <2>1, EndTurnType, Reasons
    <3> QED
      BY <1>a, <1>22, <2>1, <3>1 DEF TextResponse, TypeOK
  <2>2. CASE /\ state' = [state EXCEPT !.noTool = @ + 1]
             /\ EndTurn(IF NoToolExhausted
                        THEN "max_no_tool_responses" ELSE "none")
    <3>1. /\ pc' = "turnCompleted" /\ pend' \in StopReasons \cup {"none"}
          /\ seen' \in Views
      BY <1>a, <2>2, EndTurnType, Reasons
    <3>2. state.noTool + 1 \in 0..MaxNoTool
      <4>1. state.noTool < MaxNoTool
        BY <1>d, <1>22 DEF TextResponse
      <4> QED
        BY <1>c, <4>1, Bounds
    <3>3. state' \in AgentStates
      BY <1>a, <2>2, <3>2, AgentStateUpdates
    <3> QED
      BY <1>a, <1>22, <3>1, <3>3 DEF TextResponse, TypeOK
  <2> QED
    BY <1>22, <2>1, <2>2 DEF TextResponse
<1>23. CASE ResponseAborted
  BY <1>a, <1>23, EndTurnType, Reasons DEF ResponseAborted, TypeOK
<1>24. CASE FirstCall
  <2>1. 1 \in 1..MaxCalls /\ 0 \in 0..MaxNoTool
    <3>1. Len(turn.calls) # 0
      BY <1>b, <1>24, EmptyCalls DEF FirstCall
    <3> QED
      BY <1>b, <3>1, ConstantsAssumption
  <2>2. pc' = "toolStarted" /\ turn' \in Turns /\ seen' \in Views
    BY <1>24, <2>1, StartCallType DEF FirstCall
  <2>3. state' \in AgentStates
    BY <1>a, <1>24, <2>1, AgentStateUpdates DEF FirstCall
  <2> QED
    BY <1>a, <1>24, <2>2, <2>3 DEF FirstCall, TypeOK
<1>25. CASE RejectRepeatedCall
  <2>1. repeat' \in Repeats
    BY <1>d, <1>25, CallTypes DEF RejectRepeatedCall
  <2>2. pc' = "toolCompleted" /\ turn' \in Turns /\ seen' \in Views
    BY <1>25, CompleteCallType, CallTypes DEF RejectRepeatedCall, Outcomes
  <2> QED
    BY <1>a, <1>25, <2>1, <2>2 DEF RejectRepeatedCall, TypeOK
<1>26. CASE DispatchCall
  <2>1. repeat' \in Repeats
    BY <1>d, <1>26, CallTypes DEF DispatchCall
  <2>2. CASE /\ pc' = "dispatching"
             /\ UNCHANGED <<turn, seen>>
    BY <1>a, <1>26, <2>1, <2>2 DEF DispatchCall, TypeOK
  <2>3. CASE \E o \in Outcomes : CompleteCall(o, CallResult)
    <3>1. pc' = "toolCompleted" /\ turn' \in Turns /\ seen' \in Views
      BY <2>3, CompleteCallType, CallTypes
    <3> QED
      BY <1>a, <1>26, <2>1, <3>1 DEF DispatchCall, TypeOK
  <2> QED
    BY <1>26, <2>2, <2>3 DEF DispatchCall, Outcomes
<1>27. CASE HandlerInterrupted
  BY <1>a, <1>27, CompleteCallType, CallTypes
  DEF HandlerInterrupted, TypeOK, Outcomes
<1>28. CASE NextCall
  <2>1. turn.idx + 1 \in 1..MaxCalls
    BY <1>b, <1>d, <1>28, Bounds DEF NextCall
  <2>2. pc' \in Locations /\ turn' \in Turns /\ seen' \in Views
    BY <1>28, <2>1, StartCallType DEF NextCall
  <2> QED
    BY <1>a, <1>28, <2>2 DEF NextCall, TypeOK
<1>29. CASE SkipCall
  <2>1. turn.idx + 1 \in 1..MaxCalls
    BY <1>b, <1>d, <1>29, Bounds DEF SkipCall
  <2>2. pc' \in Locations /\ turn' \in Turns /\ seen' \in Views
    BY <1>29, <2>1, StartCallType DEF SkipCall
  <2> QED
    BY <1>a, <1>29, <2>2 DEF SkipCall, TypeOK
<1>30. CASE CallSkipped
  BY <1>a, <1>30, CompleteCallType, CallTypes DEF CallSkipped, TypeOK, Outcomes
<1>31. CASE EndBatch
  <2>1. turn.outcome # "repeated"
    BY <1>31 DEF EndBatch, BatchOver
  <2>2. BatchReason(turn.outcome) \in StopReasons \cup {"none"}
    BY <1>b, <2>1, Reasons
  <2>3. /\ pc' = "turnCompleted" /\ pend' \in StopReasons \cup {"none"}
        /\ seen' \in Views
    BY <1>31, <2>2, EndTurnType DEF EndBatch
  <2>4. state' \in AgentStates
    BY <1>a, <1>b, <1>31, HistoryUpdates, AgentStateUpdates DEF EndBatch
  <2> QED
    BY <1>a, <1>31, <2>3, <2>4 DEF EndBatch, TypeOK
<1>32. CASE RepeatedCallEndsTurn
  BY <1>a, <1>32, EndTurnType, Reasons, EnvironmentUpdates
  DEF RepeatedCallEndsTurn, TypeOK
<1>33. CASE TaskPrepared
  BY <1>a, <1>33, ConstantsAssumption DEF TaskPrepared, TypeOK, Repeats
<1>34. CASE PrepareFails
  BY <1>a, <1>34, FinishType, Reasons, SMTT(60) DEF PrepareFails, TypeOK
<1>35. CASE ReceiveDelta
  BY <1>a, <1>35, TurnUpdates, ViewUpdates DEF ReceiveDelta, TypeOK
<1>36. CASE ReceiveResponse
  <2>a. PICK n \in 0..MaxCalls, text \in BOOLEAN, cost \in Costs \cup {NoUsage} :
          \E calls \in [1..n -> Signatures] :
            turn' = [turn EXCEPT !.calls = calls, !.text = text, !.cost = cost]
    BY <1>36 DEF ReceiveResponse
  <2>1. PICK calls \in [1..n -> Signatures] :
          turn' = [turn EXCEPT !.calls = calls, !.text = text, !.cost = cost]
    BY <2>a
  <2>2. calls \in CallSeqs
    BY DEF CallSeqs
  <2>3. turn' \in Turns
    BY <1>a, <2>1, <2>2, TurnUpdates
  <2> QED
    BY <1>a, <1>36, <2>3 DEF ReceiveResponse, TypeOK
<1>37. CASE StreamOverflows
  BY <1>a, <1>37, TurnUpdates, Reasons DEF StreamOverflows, TypeOK
<1>38. CASE StreamFails
  BY <1>a, <1>38, Reasons DEF StreamFails, TypeOK
<1>39. CASE CommitCompaction
  <2>1. comp.cut \in Nat \ {0}
    <3>1. comp.cut > HistoryStart(comp.base)
      BY <1>d, <1>39 DEF CommitCompaction, CanCompact
    <3>2. HistoryStart(comp.base) \in {1, 2}
      BY <1>b, CutRange DEF Histories
    <3> QED
      BY <1>c, <3>1, <3>2
  <2>2. Compacted(comp.base, comp.cut) \in Histories
    BY <1>b, <2>1, HistoryUpdates
  <2>3. state' \in AgentStates
    BY <1>a, <1>39, <2>2, AgentStateUpdates DEF CommitCompaction
  <2>4. seen' \in Views
    BY <1>a, <1>39, <2>2, ViewUpdates DEF CommitCompaction
  <2> QED
    BY <1>a, <1>39, <2>3, <2>4 DEF CommitCompaction, TypeOK
<1>40. CASE CompactorFails
  BY <1>a, <1>40, FailCompactionType, Reasons DEF CompactorFails, TypeOK
<1>41. CASE HandlerReturns
  BY <1>a, <1>41, CompleteCallType, CallTypes
  DEF HandlerReturns, TypeOK, Outcomes
<1>42. CASE Abort
  BY <1>a, <1>42, EnvironmentUpdates DEF Abort, TypeOK
<1>43. CASE CancelCaller
  <2>1. env' \in Environments
    <3>1. env.cancels + 1 \in 0..MaxCancels
      BY <1>c, <1>43, Bounds DEF CancelCaller
    <3>2. (env.resultsLost \/ (pc \in BatchAwaits /\ turn.results # <<>>)) \in BOOLEAN
      OBVIOUS
    <3> QED
      BY <1>a, <1>43, <3>1, <3>2, EnvironmentUpdates DEF CancelCaller
  <2>2. /\ pc' \in Locations /\ pend' \in StopReasons \cup {"none"}
        /\ state' \in AgentStates /\ seen' \in Views
    <3>1. CASE Finish("external_abort")
      BY <1>a, <3>1, FinishType, Reasons
    <3>2. CASE EndTurn("external_abort") /\ UNCHANGED state
      BY <1>a, <3>2, EndTurnType, Reasons
    <3>3. CASE FailCompaction("external_abort") /\ UNCHANGED state
      BY <1>a, <3>3, FailCompactionType, Reasons
    <3>4. CASE /\ pc' \in {"closing", "idle"}
               /\ pend' \in {"external_abort", pend}
               /\ UNCHANGED <<state, seen>>
      BY <1>a, <3>4, Reasons
    <3> QED
      BY <1>43, <3>1, <3>2, <3>3, <3>4 DEF CancelCaller
  <2> QED
    BY <1>a, <1>43, <2>1, <2>2 DEF CancelCaller, TypeOK
<1>44. CASE Reset
  <2>1. env.resets + 1 \in 0..MaxResets
    <3>1. env.resets < MaxResets
      BY <1>44 DEF Reset
    <3> QED
      BY <1>c, <3>1, Bounds
  <2>2. env.forgotten \cup Range(state.messages) \in SUBSET Messages
    BY <1>a, <1>b, EnvironmentUpdates, HistoryUpdates
  <2>3. env' \in Environments
    BY <1>a, <1>44, <2>1, <2>2, EnvironmentUpdates DEF Reset
  <2>4. <<>> \in Histories /\ 0 \in 0..MaxSteps /\ 0 \in 0..MaxNoTool
    BY CallTypes, ConstantsAssumption
  <2>5. state' \in AgentStates
    BY <1>44, <2>4 DEF Reset, AgentStates, Statuses
  <2> QED
    BY <1>a, <1>44, <2>3, <2>5 DEF Reset, TypeOK
<1>45. CASE UNCHANGED vars
  BY <1>a, <1>45 DEF vars, TypeOK
<1> QED
  BY <1>1, <1>2, <1>3, <1>4, <1>5, <1>6, <1>7, <1>8, <1>9, <1>10, <1>11, <1>12,
     <1>13, <1>14, <1>15, <1>16, <1>17, <1>18, <1>19, <1>20, <1>21, <1>22,
     <1>23, <1>24, <1>25, <1>26, <1>27, <1>28, <1>29, <1>30, <1>31, <1>32,
     <1>33, <1>34, <1>35, <1>36, <1>37, <1>38, <1>39, <1>40, <1>41, <1>42,
     <1>43, <1>44, <1>45
  DEF Next, RunStep, WorkStep

-----------------------------------------------------------------------------
(* The locals of a turn.                                                   *)

\* Every step keeps what the code relies on between the awaits of a turn.
LEMMA ControlStep ==
    ASSUME TypeOK, ControlInv, [Next]_vars
    PROVE  ControlInv'
<1> USE DEF InTurn, InCompaction, CompactionAwaits, StreamAwaits, TurnAwaits,
        BatchAwaits, OuterAwaits
<1>a. state \in AgentStates /\ turn \in Turns /\ comp \in Compactions
  BY DEF TypeOK
<1>b. /\ turn.step \in Nat /\ state.turn \in Nat /\ state.noTool \in Nat
      /\ MaxNoTool \in Nat /\ MaxNoTool > 0
  <2>1. turn.step \in 0..MaxSteps /\ state.turn \in 0..MaxSteps
    BY <1>a, TurnUpdates, AgentStateUpdates
  <2>2. state.noTool \in 0..MaxNoTool
    BY <1>a, AgentStateUpdates
  <2> QED
    BY <2>1, <2>2, Bounds
<1>1. CASE BeginRun
  <2>1. pc' = "started" /\ state'.turn = 0 /\ state'.noTool = 0 /\ turn'.step = 0
    BY <1>1 DEF BeginRun, NewTurn
  <2> QED
    BY <1>b, <2>1 DEF ControlInv
<1>2. CASE EndRun
  BY <1>a, <1>2 DEF ControlInv, AgentStates, Turns, Compactions, EndRun
<1>3. CASE PrepareTask
  BY <1>a, <1>3
  DEF ControlInv, AgentStates, Turns, Compactions, PrepareTask, Finish
<1>4. CASE PrepareInterrupted
  BY <1>a, <1>4
  DEF ControlInv, AgentStates, Turns, Compactions, PrepareInterrupted, Finish
<1>5. CASE StepsExhausted
  BY <1>a, <1>5
  DEF ControlInv, AgentStates, Turns, Compactions, StepsExhausted, Finish
<1>6. CASE StopBeforeTurn
  BY <1>a, <1>6
  DEF ControlInv, AgentStates, Turns, Compactions, StopBeforeTurn, Finish
<1>7. CASE StartTurn
  BY <1>a, <1>7 DEF ControlInv, AgentStates, Turns, Compactions, StartTurn
<1>8. CASE TurnSettled
  BY <1>a, <1>8
  DEF ControlInv, AgentStates, Turns, Compactions, TurnSettled, Finish
<1>9. CASE EvaluateContext
  <2>1. pc' = "pressure" => comp'.trigger = "pressure"
    <3>1. CASE comp' = NoCompaction
      BY <3>1 DEF NoCompaction
    <3>2. ASSUME NEW base, NEW cut,
                 comp' = [NoCompaction EXCEPT !.base = base, !.cut = cut]
          PROVE  comp'.trigger = "pressure"
      BY <3>2 DEF NoCompaction
    <3>3. \/ pc' # "pressure" \/ comp' = NoCompaction
          \/ \E cut \in CutPoints(state.messages) :
               comp' = [NoCompaction EXCEPT !.base = state.messages, !.cut = cut]
      BY <1>9 DEF EvaluateContext, BeginRequest, AwaitStream
    <3> QED
      BY <3>1, <3>2, <3>3
  <2>2. /\ pc = "turnStarted" /\ pc' \in {"pressure", "streaming", "closing"}
        /\ UNCHANGED state /\ turn'.step = turn.step
    BY <1>a, <1>9 DEF Turns, EvaluateContext, BeginRequest, AwaitStream
  <2> QED
    BY <2>1, <2>2 DEF ControlInv
<1>10. CASE ContextEvaluated
  BY <1>a, <1>10
  DEF ControlInv, AgentStates, Turns, Compactions, ContextEvaluated,
      BeginRequest, AwaitStream, StartCompaction
<1>11. CASE ContextRebuilt
  BY <1>a, <1>11
  DEF ControlInv, AgentStates, Turns, Compactions, ContextRebuilt, BeginRequest,
      AwaitStream
<1>12. CASE DeltaDelivered
  BY <1>a, <1>12
  DEF ControlInv, AgentStates, Turns, Compactions, DeltaDelivered, AwaitStream
<1>13. CASE StreamInterrupted
  BY <1>a, <1>13
  DEF ControlInv, AgentStates, Turns, Compactions, StreamInterrupted
<1>14. CASE AcceptResponse
  BY <1>a, <1>14 DEF ControlInv, AgentStates, Turns, Compactions, AcceptResponse
<1>15. CASE RecoverFromOverflow
  BY <1>a, <1>15
  DEF ControlInv, AgentStates, Turns, Compactions, RecoverFromOverflow,
      StartCompaction, MayRetryOverflow
<1>16. CASE RequestFails
  BY <1>a, <1>16
  DEF ControlInv, AgentStates, Turns, Compactions, RequestFails, EndTurn
<1>17. CASE RunCompactor
  BY <1>a, <1>17
  DEF ControlInv, AgentStates, Turns, Compactions, RunCompactor, FailCompaction
<1>18. CASE CompactorInterrupted
  BY <1>a, <1>18
  DEF ControlInv, AgentStates, Turns, Compactions, CompactorInterrupted,
      FailCompaction
<1>19. CASE RebuildContext
  BY <1>a, <1>19 DEF ControlInv, AgentStates, Turns, Compactions, RebuildContext
<1>20. CASE CompactionSkipped
  BY <1>a, <1>20
  DEF ControlInv, AgentStates, Turns, Compactions, CompactionSkipped, EndTurn,
      BeginRequest, AwaitStream
<1>21. CASE CompactionFailed
  BY <1>a, <1>21
  DEF ControlInv, AgentStates, Turns, Compactions, CompactionFailed, EndTurn
<1>22. CASE TextResponse
  <2>1. /\ pc = "message" /\ pc' = "turnCompleted" /\ turn' = turn
        /\ \/ pend' # "none"
           \/ /\ state' = [state EXCEPT !.noTool = @ + 1]
              /\ ~NoToolExhausted
        /\ state'.turn = state.turn
    BY <1>a, <1>22 DEF TextResponse, EndTurn, AgentStates
  <2>2. pend' = "none" => state'.noTool < MaxNoTool
    BY <1>a, <1>b, <2>1 DEF NoToolExhausted, AgentStates
  <2> QED
    BY <1>b, <2>1, <2>2 DEF ControlInv
<1>23. CASE ResponseAborted
  BY <1>a, <1>23
  DEF ControlInv, AgentStates, Turns, Compactions, ResponseAborted, EndTurn
<1>24. CASE FirstCall
  <2>1. Len(turn.calls) \in Nat /\ Len(turn.calls) # 0
    BY <1>a, <1>24, TurnUpdates, CallsOf, EmptyCalls DEF FirstCall
  <2>2. /\ pc' = "toolStarted" /\ turn'.idx = 1 /\ turn'.calls = turn.calls
        /\ turn'.step = turn.step /\ turn'.retries = turn.retries
        /\ state'.turn = state.turn /\ state'.noTool = 0 /\ pc = "message"
    BY <1>a, <1>24 DEF FirstCall, StartCall, AgentStates, Turns
  <2> QED
    BY <1>b, <2>1, <2>2 DEF ControlInv
<1>25. CASE RejectRepeatedCall
  BY <1>a, <1>25
  DEF ControlInv, AgentStates, Turns, Compactions, RejectRepeatedCall,
      CompleteCall
<1>26. CASE DispatchCall
  BY <1>a, <1>26
  DEF ControlInv, AgentStates, Turns, Compactions, DispatchCall, CompleteCall
<1>27. CASE HandlerInterrupted
  BY <1>a, <1>27
  DEF ControlInv, AgentStates, Turns, Compactions, HandlerInterrupted,
      CompleteCall
<1>28. CASE NextCall
  BY <1>a, <1>28
  DEF ControlInv, AgentStates, Turns, Compactions, NextCall, StartCall
<1>29. CASE SkipCall
  BY <1>a, <1>29
  DEF ControlInv, AgentStates, Turns, Compactions, SkipCall, StartCall
<1>30. CASE CallSkipped
  BY <1>a, <1>30
  DEF ControlInv, AgentStates, Turns, Compactions, CallSkipped, CompleteCall
<1>31. CASE EndBatch
  BY <1>a, <1>31
  DEF ControlInv, AgentStates, Turns, Compactions, EndBatch, EndTurn
<1>32. CASE RepeatedCallEndsTurn
  BY <1>a, <1>32
  DEF ControlInv, AgentStates, Turns, Compactions, RepeatedCallEndsTurn, EndTurn
<1>33. CASE TaskPrepared
  BY <1>a, <1>33 DEF ControlInv, AgentStates, Turns, Compactions, TaskPrepared
<1>34. CASE PrepareFails
  BY <1>a, <1>34
  DEF ControlInv, AgentStates, Turns, Compactions, PrepareFails, Finish
<1>35. CASE ReceiveDelta
  BY <1>a, <1>35 DEF ControlInv, AgentStates, Turns, Compactions, ReceiveDelta
<1>36. CASE ReceiveResponse
  BY <1>a, <1>36
  DEF ControlInv, AgentStates, Turns, Compactions, ReceiveResponse
<1>37. CASE StreamOverflows
  BY <1>a, <1>37
  DEF ControlInv, AgentStates, Turns, Compactions, StreamOverflows
<1>38. CASE StreamFails
  BY <1>a, <1>38 DEF ControlInv, AgentStates, Turns, Compactions, StreamFails
<1>39. CASE CommitCompaction
  BY <1>a, <1>39
  DEF ControlInv, AgentStates, Turns, Compactions, CommitCompaction
<1>40. CASE CompactorFails
  BY <1>a, <1>40
  DEF ControlInv, AgentStates, Turns, Compactions, CompactorFails,
      FailCompaction
<1>41. CASE HandlerReturns
  BY <1>a, <1>41
  DEF ControlInv, AgentStates, Turns, Compactions, HandlerReturns, CompleteCall
<1>42. CASE Abort
  BY <1>a, <1>42 DEF ControlInv, AgentStates, Turns, Compactions, Abort
<1>43. CASE CancelCaller
  BY <1>a, <1>43
  DEF ControlInv, AgentStates, Turns, Compactions, CancelCaller, Finish,
      EndTurn, FailCompaction
<1>44. CASE Reset
  <2>1. state'.turn = 0 /\ state'.noTool = 0 /\ UNCHANGED <<pc, pend, turn, comp>>
    BY <1>44 DEF Reset
  <2> QED
    BY <1>b, <2>1 DEF ControlInv
<1>45. CASE UNCHANGED vars
  BY <1>a, <1>45 DEF ControlInv, AgentStates, Turns, Compactions, vars
<1> QED
  BY <1>1, <1>2, <1>3, <1>4, <1>5, <1>6, <1>7, <1>8, <1>9, <1>10, <1>11,
     <1>12, <1>13, <1>14, <1>15, <1>16, <1>17, <1>18, <1>19, <1>20, <1>21,
     <1>22, <1>23, <1>24, <1>25, <1>26, <1>27, <1>28, <1>29, <1>30, <1>31,
     <1>32, <1>33, <1>34, <1>35, <1>36, <1>37, <1>38, <1>39, <1>40, <1>41,
     <1>42, <1>43, <1>44, <1>45
  DEF Next, RunStep, WorkStep

-----------------------------------------------------------------------------
(* Events.                                                                 *)

\* Every step that is not the cancellation of the caller closes what it opened.
LEMMA EventsStep ==
    ASSUME TypeOK, ControlInv, EventsInv, [Next]_vars
    PROVE  EventsInv'
<1> USE DEF InTurn, CompactionAwaits, StreamAwaits, TurnAwaits, BatchAwaits
<1>a. turn \in Turns /\ seen \in Views /\ env \in Environments
  BY DEF TypeOK
<1>b. env.cancels \in Nat /\ turn.step \in Nat
  <2>1. env.cancels \in 0..MaxCancels /\ turn.step \in 0..MaxSteps
    BY <1>a, EnvironmentUpdates, TurnUpdates
  <2> QED
    BY <2>1
<1>1. CASE BeginRun
  BY <1>a, <1>b, <1>1 DEF EventsInv, Turns, Views, Environments, BeginRun
<1>2. CASE EndRun
  BY <1>a, <1>b, <1>2 DEF EventsInv, Turns, Views, Environments, EndRun
<1>3. CASE PrepareTask
  BY <1>a, <1>b, <1>3
  DEF EventsInv, Turns, Views, Environments, PrepareTask, Finish
<1>4. CASE PrepareInterrupted
  BY <1>a, <1>b, <1>4
  DEF EventsInv, Turns, Views, Environments, PrepareInterrupted, Finish
<1>5. CASE StepsExhausted
  BY <1>a, <1>b, <1>5
  DEF EventsInv, Turns, Views, Environments, StepsExhausted, Finish
<1>6. CASE StopBeforeTurn
  BY <1>a, <1>b, <1>6
  DEF EventsInv, Turns, Views, Environments, StopBeforeTurn, Finish
<1>7. CASE StartTurn
  BY <1>a, <1>b, <1>7 DEF EventsInv, Turns, Views, Environments, StartTurn
<1>8. CASE TurnSettled
  BY <1>a, <1>b, <1>8
  DEF EventsInv, Turns, Views, Environments, TurnSettled, Finish
<1>9. CASE EvaluateContext
  BY <1>a, <1>b, <1>9
  DEF EventsInv, Turns, Views, Environments, EvaluateContext, BeginRequest,
      AwaitStream
<1>10. CASE ContextEvaluated
  BY <1>a, <1>b, <1>10
  DEF EventsInv, Turns, Views, Environments, ContextEvaluated, BeginRequest,
      AwaitStream, StartCompaction
<1>11. CASE ContextRebuilt
  BY <1>a, <1>b, <1>11
  DEF EventsInv, Turns, Views, Environments, ContextRebuilt, BeginRequest,
      AwaitStream
<1>12. CASE DeltaDelivered
  BY <1>a, <1>b, <1>12
  DEF EventsInv, Turns, Views, Environments, DeltaDelivered, AwaitStream
<1>13. CASE StreamInterrupted
  BY <1>a, <1>b, <1>13
  DEF EventsInv, Turns, Views, Environments, StreamInterrupted
<1>14. CASE AcceptResponse
  BY <1>a, <1>b, <1>14 DEF EventsInv, Turns, Views, Environments, AcceptResponse
<1>15. CASE RecoverFromOverflow
  BY <1>a, <1>b, <1>15
  DEF EventsInv, Turns, Views, Environments, RecoverFromOverflow,
      StartCompaction
<1>16. CASE RequestFails
  BY <1>a, <1>b, <1>16
  DEF EventsInv, Turns, Views, Environments, RequestFails, EndTurn
<1>17. CASE RunCompactor
  BY <1>a, <1>b, <1>17
  DEF EventsInv, Turns, Views, Environments, RunCompactor, FailCompaction
<1>18. CASE CompactorInterrupted
  BY <1>a, <1>b, <1>18
  DEF EventsInv, Turns, Views, Environments, CompactorInterrupted,
      FailCompaction
<1>19. CASE RebuildContext
  BY <1>a, <1>b, <1>19 DEF EventsInv, Turns, Views, Environments, RebuildContext
<1>20. CASE CompactionSkipped
  BY <1>a, <1>b, <1>20, ZenonT(60)
  DEF EventsInv, Turns, Views, Environments, CompactionSkipped, EndTurn,
      BeginRequest, AwaitStream
<1>21. CASE CompactionFailed
  BY <1>a, <1>b, <1>21
  DEF EventsInv, Turns, Views, Environments, CompactionFailed, EndTurn
<1>22. CASE TextResponse
  BY <1>a, <1>b, <1>22
  DEF EventsInv, Turns, Views, Environments, TextResponse, EndTurn
<1>23. CASE ResponseAborted
  BY <1>a, <1>b, <1>23
  DEF EventsInv, Turns, Views, Environments, ResponseAborted, EndTurn
<1>24. CASE FirstCall
  BY <1>a, <1>b, <1>24
  DEF EventsInv, Turns, Views, Environments, FirstCall, StartCall
<1>25. CASE RejectRepeatedCall
  BY <1>a, <1>b, <1>25
  DEF EventsInv, Turns, Views, Environments, RejectRepeatedCall, CompleteCall
<1>26. CASE DispatchCall
  BY <1>a, <1>b, <1>26
  DEF EventsInv, Turns, Views, Environments, DispatchCall, CompleteCall
<1>27. CASE HandlerInterrupted
  BY <1>a, <1>b, <1>27
  DEF EventsInv, Turns, Views, Environments, HandlerInterrupted, CompleteCall
<1>28. CASE NextCall
  BY <1>a, <1>b, <1>28
  DEF EventsInv, Turns, Views, Environments, NextCall, StartCall
<1>29. CASE SkipCall
  BY <1>a, <1>b, <1>29
  DEF EventsInv, Turns, Views, Environments, SkipCall, StartCall
<1>30. CASE CallSkipped
  BY <1>a, <1>b, <1>30
  DEF EventsInv, Turns, Views, Environments, CallSkipped, CompleteCall
<1>31. CASE EndBatch
  BY <1>a, <1>b, <1>31
  DEF EventsInv, Turns, Views, Environments, EndBatch, EndTurn
<1>32. CASE RepeatedCallEndsTurn
  BY <1>a, <1>b, <1>32
  DEF EventsInv, Turns, Views, Environments, RepeatedCallEndsTurn, EndTurn
<1>33. CASE TaskPrepared
  BY <1>a, <1>b, <1>33 DEF EventsInv, Turns, Views, Environments, TaskPrepared
<1>34. CASE PrepareFails
  BY <1>a, <1>b, <1>34
  DEF EventsInv, Turns, Views, Environments, PrepareFails, Finish
<1>35. CASE ReceiveDelta
  BY <1>a, <1>b, <1>35 DEF EventsInv, Turns, Views, Environments, ReceiveDelta
<1>36. CASE ReceiveResponse
  BY <1>a, <1>b, <1>36
  DEF EventsInv, Turns, Views, Environments, ReceiveResponse
<1>37. CASE StreamOverflows
  BY <1>a, <1>b, <1>37
  DEF EventsInv, Turns, Views, Environments, StreamOverflows
<1>38. CASE StreamFails
  BY <1>a, <1>b, <1>38 DEF EventsInv, Turns, Views, Environments, StreamFails
<1>39. CASE CommitCompaction
  BY <1>a, <1>b, <1>39
  DEF EventsInv, Turns, Views, Environments, CommitCompaction
<1>40. CASE CompactorFails
  BY <1>a, <1>b, <1>40
  DEF EventsInv, Turns, Views, Environments, CompactorFails, FailCompaction
<1>41. CASE HandlerReturns
  BY <1>a, <1>b, <1>41
  DEF EventsInv, Turns, Views, Environments, HandlerReturns, CompleteCall
<1>42. CASE Abort
  BY <1>a, <1>b, <1>42 DEF EventsInv, Turns, Views, Environments, Abort
<1>43. CASE CancelCaller
  BY <1>a, <1>b, <1>43
  DEF EventsInv, Turns, Views, Environments, CancelCaller, Finish, EndTurn,
      FailCompaction
<1>44. CASE Reset
  BY <1>a, <1>b, <1>44 DEF EventsInv, Turns, Views, Environments, Reset
<1>45. CASE UNCHANGED vars
  BY <1>a, <1>b, <1>45 DEF EventsInv, Turns, Views, Environments, vars
<1> QED
  BY <1>1, <1>2, <1>3, <1>4, <1>5, <1>6, <1>7, <1>8, <1>9, <1>10, <1>11,
     <1>12, <1>13, <1>14, <1>15, <1>16, <1>17, <1>18, <1>19, <1>20, <1>21,
     <1>22, <1>23, <1>24, <1>25, <1>26, <1>27, <1>28, <1>29, <1>30, <1>31,
     <1>32, <1>33, <1>34, <1>35, <1>36, <1>37, <1>38, <1>39, <1>40, <1>41,
     <1>42, <1>43, <1>44, <1>45
  DEF Next, RunStep, WorkStep

-----------------------------------------------------------------------------
(* Requests and tokens.                                                    *)

\* A response is counted once, and a turn is begun only below the limit.
LEMMA BudgetStep ==
    ASSUME TypeOK, BudgetInv, [Next]_vars
    PROVE  BudgetInv'
<1> USE DEF BeforeResponse, BeforeRequest, InCompaction, CompactionAwaits,
        StreamAwaits, TurnAwaits, BatchAwaits, OuterAwaits, NoLimit
<1>a. /\ usage \in Usages
      /\ usage.requests \in Nat /\ usage.reported \in Nat /\ usage.tokens \in Nat
  BY UsageUpdates DEF TypeOK
<1>1. CASE BeginRun
  <2>1. pc' = "started" /\ usage'.requests = 0 /\ usage'.reported = 0
        /\ usage'.tokens = 0
    BY <1>1 DEF BeginRun, NewUsage
  <2> QED
    BY <2>1 DEF BudgetInv, BudgetOvershoot
<1>2. CASE EndRun
  BY <1>a, <1>2 DEF BudgetInv, BudgetOvershoot, Usages, EndRun
<1>3. CASE PrepareTask
  BY <1>a, <1>3 DEF BudgetInv, BudgetOvershoot, Usages, PrepareTask, Finish
<1>4. CASE PrepareInterrupted
  BY <1>a, <1>4
  DEF BudgetInv, BudgetOvershoot, Usages, PrepareInterrupted, Finish
<1>5. CASE StepsExhausted
  BY <1>a, <1>5 DEF BudgetInv, BudgetOvershoot, Usages, StepsExhausted, Finish
<1>6. CASE StopBeforeTurn
  BY <1>a, <1>6 DEF BudgetInv, BudgetOvershoot, Usages, StopBeforeTurn, Finish
<1>7. CASE StartTurn
  <2>1. /\ pc' = "turnStarted" /\ usage' = usage /\ BudgetFailures = {}
    BY <1>7 DEF StartTurn
  <2>2. TokenLimit # NoLimit => usage.requests = 0 \/ ~BudgetSpent
    BY <2>1 DEF BudgetFailures
  <2>3. TokenLimit \in Nat
    BY Bounds
  <2>4. TokenLimit # NoLimit => usage.tokens < TokenLimit
    BY <1>a, <2>2, <2>3 DEF BudgetSpent, BudgetInv
  <2> QED
    BY <1>a, <2>1, <2>4 DEF BudgetInv, BudgetOvershoot
<1>8. CASE TurnSettled
  BY <1>a, <1>8 DEF BudgetInv, BudgetOvershoot, Usages, TurnSettled, Finish
<1>9. CASE EvaluateContext
  <2>1. \/ pc' = "pressure" /\ usage' = usage
        \/ /\ pc' \in {"streaming", "closing"}
           /\ usage' = [usage EXCEPT !.requests = usage.requests + 1]
    BY <1>9 DEF EvaluateContext, BeginRequest, AwaitStream
  <2>2. pc = "turnStarted"
    BY <1>9 DEF EvaluateContext
  <2> QED
    BY <1>a, <2>1, <2>2 DEF BudgetInv, BudgetOvershoot, Usages
<1>10. CASE ContextEvaluated
  BY <1>a, <1>10
  DEF BudgetInv, BudgetOvershoot, Usages, ContextEvaluated, BeginRequest,
      AwaitStream, StartCompaction
<1>11. CASE ContextRebuilt
  BY <1>a, <1>11
  DEF BudgetInv, BudgetOvershoot, Usages, ContextRebuilt, BeginRequest,
      AwaitStream
<1>12. CASE DeltaDelivered
  BY <1>a, <1>12
  DEF BudgetInv, BudgetOvershoot, Usages, DeltaDelivered, AwaitStream
<1>13. CASE StreamInterrupted
  BY <1>a, <1>13 DEF BudgetInv, BudgetOvershoot, Usages, StreamInterrupted
<1>14. CASE AcceptResponse
  <2>1. /\ pc = "closing" /\ pc' = "message"
        /\ usage' = IF turn.cost = NoUsage THEN usage
                    ELSE [usage EXCEPT !.reported = usage.reported + 1,
                                       !.tokens = usage.tokens + turn.cost]
    BY <1>14 DEF AcceptResponse
  <2>2. CASE turn.cost = NoUsage
    BY <2>1, <2>2 DEF BudgetInv, BudgetOvershoot
  <2>3. CASE turn.cost # NoUsage
    <3>1. turn.cost \in Costs
      BY <2>3, TurnUpdates DEF TypeOK
    <3>2. turn.cost \in Nat /\ TokenLimit \in Nat
      BY <3>1, Bounds
    <3>3. /\ usage'.requests = usage.requests
          /\ usage'.reported = usage.reported + 1
          /\ usage'.tokens = usage.tokens + turn.cost
      BY <1>a, <2>1, <2>3 DEF Usages
    <3>4. /\ usage.reported < usage.requests
          /\ TokenLimit # NoLimit => usage.tokens < TokenLimit
      BY <2>1 DEF BudgetInv
    <3>5. TokenLimit # NoLimit => usage'.tokens < TokenLimit + turn.cost
      BY <1>a, <3>2, <3>3, <3>4
    <3>6. BudgetOvershoot'
      BY <3>1, <3>5 DEF BudgetOvershoot
    <3>7. usage'.reported <= usage'.requests /\ usage'.reported # 0
      BY <1>a, <3>3, <3>4
    <3> QED
      BY <2>1, <3>6, <3>7 DEF BudgetInv
  <2> QED
    BY <2>2, <2>3
<1>15. CASE RecoverFromOverflow
  BY <1>a, <1>15
  DEF BudgetInv, BudgetOvershoot, Usages, RecoverFromOverflow, StartCompaction
<1>16. CASE RequestFails
  BY <1>a, <1>16 DEF BudgetInv, BudgetOvershoot, Usages, RequestFails, EndTurn
<1>17. CASE RunCompactor
  BY <1>a, <1>17
  DEF BudgetInv, BudgetOvershoot, Usages, RunCompactor, FailCompaction
<1>18. CASE CompactorInterrupted
  BY <1>a, <1>18
  DEF BudgetInv, BudgetOvershoot, Usages, CompactorInterrupted, FailCompaction
<1>19. CASE RebuildContext
  BY <1>a, <1>19 DEF BudgetInv, BudgetOvershoot, Usages, RebuildContext
<1>20. CASE CompactionSkipped
  BY <1>a, <1>20
  DEF BudgetInv, BudgetOvershoot, Usages, CompactionSkipped, EndTurn,
      BeginRequest, AwaitStream
<1>21. CASE CompactionFailed
  BY <1>a, <1>21
  DEF BudgetInv, BudgetOvershoot, Usages, CompactionFailed, EndTurn
<1>22. CASE TextResponse
  BY <1>a, <1>22 DEF BudgetInv, BudgetOvershoot, Usages, TextResponse, EndTurn
<1>23. CASE ResponseAborted
  BY <1>a, <1>23
  DEF BudgetInv, BudgetOvershoot, Usages, ResponseAborted, EndTurn
<1>24. CASE FirstCall
  BY <1>a, <1>24 DEF BudgetInv, BudgetOvershoot, Usages, FirstCall, StartCall
<1>25. CASE RejectRepeatedCall
  BY <1>a, <1>25
  DEF BudgetInv, BudgetOvershoot, Usages, RejectRepeatedCall, CompleteCall
<1>26. CASE DispatchCall
  BY <1>a, <1>26
  DEF BudgetInv, BudgetOvershoot, Usages, DispatchCall, CompleteCall
<1>27. CASE HandlerInterrupted
  BY <1>a, <1>27
  DEF BudgetInv, BudgetOvershoot, Usages, HandlerInterrupted, CompleteCall
<1>28. CASE NextCall
  BY <1>a, <1>28 DEF BudgetInv, BudgetOvershoot, Usages, NextCall, StartCall
<1>29. CASE SkipCall
  BY <1>a, <1>29 DEF BudgetInv, BudgetOvershoot, Usages, SkipCall, StartCall
<1>30. CASE CallSkipped
  BY <1>a, <1>30
  DEF BudgetInv, BudgetOvershoot, Usages, CallSkipped, CompleteCall
<1>31. CASE EndBatch
  BY <1>a, <1>31 DEF BudgetInv, BudgetOvershoot, Usages, EndBatch, EndTurn
<1>32. CASE RepeatedCallEndsTurn
  BY <1>a, <1>32
  DEF BudgetInv, BudgetOvershoot, Usages, RepeatedCallEndsTurn, EndTurn
<1>33. CASE TaskPrepared
  BY <1>a, <1>33 DEF BudgetInv, BudgetOvershoot, Usages, TaskPrepared
<1>34. CASE PrepareFails
  BY <1>a, <1>34 DEF BudgetInv, BudgetOvershoot, Usages, PrepareFails, Finish
<1>35. CASE ReceiveDelta
  BY <1>a, <1>35 DEF BudgetInv, BudgetOvershoot, Usages, ReceiveDelta
<1>36. CASE ReceiveResponse
  BY <1>a, <1>36 DEF BudgetInv, BudgetOvershoot, Usages, ReceiveResponse
<1>37. CASE StreamOverflows
  BY <1>a, <1>37 DEF BudgetInv, BudgetOvershoot, Usages, StreamOverflows
<1>38. CASE StreamFails
  BY <1>a, <1>38 DEF BudgetInv, BudgetOvershoot, Usages, StreamFails
<1>39. CASE CommitCompaction
  BY <1>a, <1>39 DEF BudgetInv, BudgetOvershoot, Usages, CommitCompaction
<1>40. CASE CompactorFails
  BY <1>a, <1>40
  DEF BudgetInv, BudgetOvershoot, Usages, CompactorFails, FailCompaction
<1>41. CASE HandlerReturns
  BY <1>a, <1>41
  DEF BudgetInv, BudgetOvershoot, Usages, HandlerReturns, CompleteCall
<1>42. CASE Abort
  BY <1>a, <1>42 DEF BudgetInv, BudgetOvershoot, Usages, Abort
<1>43. CASE CancelCaller
  BY <1>a, <1>43
  DEF BudgetInv, BudgetOvershoot, Usages, CancelCaller, Finish, EndTurn,
      FailCompaction
<1>44. CASE Reset
  BY <1>a, <1>44 DEF BudgetInv, BudgetOvershoot, Usages, Reset
<1>45. CASE UNCHANGED vars
  BY <1>a, <1>45 DEF BudgetInv, BudgetOvershoot, Usages, vars
<1> QED
  BY <1>1, <1>2, <1>3, <1>4, <1>5, <1>6, <1>7, <1>8, <1>9, <1>10, <1>11,
     <1>12, <1>13, <1>14, <1>15, <1>16, <1>17, <1>18, <1>19, <1>20, <1>21,
     <1>22, <1>23, <1>24, <1>25, <1>26, <1>27, <1>28, <1>29, <1>30, <1>31,
     <1>32, <1>33, <1>34, <1>35, <1>36, <1>37, <1>38, <1>39, <1>40, <1>41,
     <1>42, <1>43, <1>44, <1>45
  DEF Next, RunStep, WorkStep

\* Each turn adds its request and its retries.
LEMMA RequestsOfTurns ==
    /\ RequestsOf(0) = 0
    /\ \A n \in Nat \ {0} :
         /\ RequestsOf(n) \in Nat /\ RequestsOf(n - 1) \in Nat
         /\ RequestsOf(n) = RequestsOf(n - 1) + 1 + MaxOverflowRetries
<1>1. CASE MaxOverflowRetries = 0
  BY <1>1 DEF RequestsOf
<1>2. CASE MaxOverflowRetries = 1
  BY <1>2 DEF RequestsOf
<1> QED
  BY <1>1, <1>2, Bounds

\* A turn makes one request, and one more for each retry.
LEMMA RequestsStep ==
    ASSUME TypeOK, ControlInv, RequestsInv, [Next]_vars
    PROVE  RequestsInv'
<1> USE DEF BeforeResponse, BeforeRequest, InTurn, InCompaction,
        CompactionAwaits, StreamAwaits, TurnAwaits, BatchAwaits, OuterAwaits
<1>a. /\ usage \in Usages /\ turn \in Turns /\ seen \in Views
      /\ comp \in Compactions
  BY DEF TypeOK
<1>b. /\ usage.requests \in Nat /\ turn.step \in Nat /\ turn.retries \in Nat
      /\ turn.retries <= MaxOverflowRetries
  <2>1. /\ usage.requests \in Nat /\ turn.step \in 0..MaxSteps
        /\ turn.retries \in 0..MaxOverflowRetries
    BY <1>a, UsageUpdates, TurnUpdates
  <2>2. MaxSteps \in Nat /\ MaxOverflowRetries \in Nat
    BY Bounds
  <2> QED
    BY <2>1, <2>2
<1>c. pc \in InTurn \cup {"turnCompleted"} =>
        /\ turn.step > 0
        /\ RequestsOf(turn.step) \in Nat /\ RequestsOf(turn.step - 1) \in Nat
        /\ RequestsOf(turn.step)
             = RequestsOf(turn.step - 1) + 1 + MaxOverflowRetries
  <2>1. pc \in InTurn \cup {"turnCompleted"} => turn.step > 0
    BY DEF ControlInv
  <2>2. turn.step > 0 =>
          /\ RequestsOf(turn.step) \in Nat /\ RequestsOf(turn.step - 1) \in Nat
          /\ RequestsOf(turn.step)
               = RequestsOf(turn.step - 1) + 1 + MaxOverflowRetries
    BY <1>b, RequestsOfTurns
  <2> QED
    BY <2>1, <2>2
<1>d. MaxOverflowRetries \in Nat
  BY Bounds
<1> USE DEF RequestToCome

<1>1. CASE BeginRun
  <2>1. pc' = "started" /\ usage'.requests = 0 /\ turn'.step = 0 /\ ~seen'.exposed
    BY <1>1 DEF BeginRun, NewUsage, NewTurn
  <2> QED
    BY <2>1, RequestsOfTurns DEF RequestsInv
<1>2. CASE EndRun
  BY <1>a, <1>b, <1>2 DEF RequestsInv, Usages, Turns, Views, Compactions, EndRun
<1>3. CASE PrepareTask
  BY <1>a, <1>b, <1>3
  DEF RequestsInv, Usages, Turns, Views, Compactions, PrepareTask, Finish
<1>4. CASE PrepareInterrupted
  BY <1>a, <1>b, <1>4
  DEF RequestsInv, Usages, Turns, Views, Compactions, PrepareInterrupted, Finish
<1>5. CASE StepsExhausted
  BY <1>a, <1>b, <1>5
  DEF RequestsInv, Usages, Turns, Views, Compactions, StepsExhausted, Finish
<1>6. CASE StopBeforeTurn
  BY <1>a, <1>b, <1>6
  DEF RequestsInv, Usages, Turns, Views, Compactions, StopBeforeTurn, Finish
<1>7. CASE StartTurn
  <2>1. /\ pc = "loop" /\ pc' = "turnStarted" /\ usage' = usage
        /\ turn'.step = turn.step + 1 /\ turn'.retries = 0 /\ ~seen'.exposed
    BY <1>a, <1>7 DEF StartTurn, NewTurn, Views
  <2>2. usage.requests <= RequestsOf(turn.step)
    BY <2>1 DEF RequestsInv
  <2>3. turn.step + 1 \in Nat \ {0} /\ turn'.step - 1 = turn.step
    BY <1>b, <2>1
  <2>4. RequestsOf(turn.step) \in Nat
    BY <2>3, <2>1, RequestsOfTurns
  <2>5. usage.requests + 1 <= RequestsOf(turn'.step - 1) + 1 + turn'.retries
    BY <1>b, <2>1, <2>2, <2>3, <2>4
  <2> QED
    BY <2>1, <2>5 DEF RequestsInv
<1>8. CASE TurnSettled
  <2>1. /\ pc = "turnCompleted" /\ pc' \in {"loop", "finished"}
        /\ UNCHANGED <<usage, turn, seen>>
    BY <1>8 DEF TurnSettled, Finish
  <2>2. usage.requests <= RequestsOf(turn.step - 1) + 1 + turn.retries
    BY <1>b, <1>c, <2>1 DEF RequestsInv
  <2>3. usage.requests <= RequestsOf(turn.step)
    BY <1>b, <1>c, <1>d, <2>1, <2>2
  <2> QED
    BY <2>1, <2>3 DEF RequestsInv
<1>9. CASE EvaluateContext
  <2>1. /\ pc = "turnStarted" /\ UNCHANGED seen
        /\ \/ /\ pc' = "pressure"
              /\ UNCHANGED <<usage, turn>>
           \/ /\ pc' \in {"streaming", "closing"}
              /\ usage' = [usage EXCEPT !.requests = usage.requests + 1]
              /\ turn' = [turn EXCEPT !.started = FALSE]
    BY <1>9 DEF EvaluateContext, BeginRequest, AwaitStream
  <2> QED
    BY <1>a, <1>b, <1>c, <2>1 DEF RequestsInv, Usages, Turns, Views
<1>10. CASE ContextEvaluated
  BY <1>a, <1>b, <1>10
  DEF RequestsInv, Usages, Turns, Views, Compactions, ContextEvaluated,
      BeginRequest, AwaitStream, StartCompaction
<1>11. CASE ContextRebuilt
  BY <1>a, <1>b, <1>11
  DEF RequestsInv, Usages, Turns, Views, Compactions, ContextRebuilt,
      BeginRequest, AwaitStream
<1>12. CASE DeltaDelivered
  BY <1>a, <1>b, <1>12
  DEF RequestsInv, Usages, Turns, Views, Compactions, DeltaDelivered,
      AwaitStream
<1>13. CASE StreamInterrupted
  BY <1>a, <1>b, <1>13
  DEF RequestsInv, Usages, Turns, Views, Compactions, StreamInterrupted
<1>14. CASE AcceptResponse
  BY <1>a, <1>b, <1>14
  DEF RequestsInv, Usages, Turns, Views, Compactions, AcceptResponse
<1>15. CASE RecoverFromOverflow
  <2>1. /\ pc = "closing" /\ pc' = "compStarted" /\ comp'.trigger = "overflow"
        /\ ~turn.started /\ UNCHANGED <<usage, turn>> /\ seen'.exposed = seen.exposed
    BY <1>a, <1>15
    DEF RecoverFromOverflow, StartCompaction, MayRetryOverflow, Views
  <2> QED
    BY <1>b, <1>c, <2>1 DEF RequestsInv
<1>16. CASE RequestFails
  BY <1>a, <1>b, <1>16
  DEF RequestsInv, Usages, Turns, Views, Compactions, RequestFails, EndTurn
<1>17. CASE RunCompactor
  BY <1>a, <1>b, <1>c, <1>d, <1>17
  DEF RequestsInv, Usages, Turns, Views, Compactions, RunCompactor,
      FailCompaction
<1>18. CASE CompactorInterrupted
  BY <1>a, <1>b, <1>c, <1>d, <1>18
  DEF RequestsInv, Usages, Turns, Views, Compactions, CompactorInterrupted,
      FailCompaction
<1>19. CASE RebuildContext
  BY <1>a, <1>b, <1>c, <1>d, <1>19
  DEF RequestsInv, Usages, Turns, Views, Compactions, RebuildContext
<1>20. CASE CompactionSkipped
  BY <1>a, <1>b, <1>20
  DEF RequestsInv, Usages, Turns, Views, Compactions, CompactionSkipped,
      EndTurn, BeginRequest, AwaitStream
<1>21. CASE CompactionFailed
  BY <1>a, <1>b, <1>21
  DEF RequestsInv, Usages, Turns, Views, Compactions, CompactionFailed, EndTurn
<1>22. CASE TextResponse
  BY <1>a, <1>b, <1>22
  DEF RequestsInv, Usages, Turns, Views, Compactions, TextResponse, EndTurn
<1>23. CASE ResponseAborted
  BY <1>a, <1>b, <1>23
  DEF RequestsInv, Usages, Turns, Views, Compactions, ResponseAborted, EndTurn
<1>24. CASE FirstCall
  BY <1>a, <1>b, <1>24
  DEF RequestsInv, Usages, Turns, Views, Compactions, FirstCall, StartCall
<1>25. CASE RejectRepeatedCall
  BY <1>a, <1>b, <1>25
  DEF RequestsInv, Usages, Turns, Views, Compactions, RejectRepeatedCall,
      CompleteCall
<1>26. CASE DispatchCall
  BY <1>a, <1>b, <1>26
  DEF RequestsInv, Usages, Turns, Views, Compactions, DispatchCall, CompleteCall
<1>27. CASE HandlerInterrupted
  BY <1>a, <1>b, <1>27
  DEF RequestsInv, Usages, Turns, Views, Compactions, HandlerInterrupted,
      CompleteCall
<1>28. CASE NextCall
  BY <1>a, <1>b, <1>28
  DEF RequestsInv, Usages, Turns, Views, Compactions, NextCall, StartCall
<1>29. CASE SkipCall
  BY <1>a, <1>b, <1>29
  DEF RequestsInv, Usages, Turns, Views, Compactions, SkipCall, StartCall
<1>30. CASE CallSkipped
  BY <1>a, <1>b, <1>30
  DEF RequestsInv, Usages, Turns, Views, Compactions, CallSkipped, CompleteCall
<1>31. CASE EndBatch
  BY <1>a, <1>b, <1>31
  DEF RequestsInv, Usages, Turns, Views, Compactions, EndBatch, EndTurn
<1>32. CASE RepeatedCallEndsTurn
  BY <1>a, <1>b, <1>32
  DEF RequestsInv, Usages, Turns, Views, Compactions, RepeatedCallEndsTurn,
      EndTurn
<1>33. CASE TaskPrepared
  BY <1>a, <1>b, <1>33
  DEF RequestsInv, Usages, Turns, Views, Compactions, TaskPrepared
<1>34. CASE PrepareFails
  BY <1>a, <1>b, <1>34
  DEF RequestsInv, Usages, Turns, Views, Compactions, PrepareFails, Finish
<1>35. CASE ReceiveDelta
  BY <1>a, <1>b, <1>35
  DEF RequestsInv, Usages, Turns, Views, Compactions, ReceiveDelta
<1>36. CASE ReceiveResponse
  BY <1>a, <1>b, <1>36
  DEF RequestsInv, Usages, Turns, Views, Compactions, ReceiveResponse
<1>37. CASE StreamOverflows
  BY <1>a, <1>b, <1>37
  DEF RequestsInv, Usages, Turns, Views, Compactions, StreamOverflows
<1>38. CASE StreamFails
  BY <1>a, <1>b, <1>38
  DEF RequestsInv, Usages, Turns, Views, Compactions, StreamFails
<1>39. CASE CommitCompaction
  BY <1>a, <1>b, <1>39
  DEF RequestsInv, Usages, Turns, Views, Compactions, CommitCompaction
<1>40. CASE CompactorFails
  BY <1>a, <1>b, <1>c, <1>d, <1>40
  DEF RequestsInv, Usages, Turns, Views, Compactions, CompactorFails,
      FailCompaction
<1>41. CASE HandlerReturns
  BY <1>a, <1>b, <1>41
  DEF RequestsInv, Usages, Turns, Views, Compactions, HandlerReturns,
      CompleteCall
<1>42. CASE Abort
  BY <1>a, <1>b, <1>42 DEF RequestsInv, Usages, Turns, Views, Compactions, Abort
<1>43. CASE CancelCaller
  BY <1>a, <1>b, <1>c, <1>d, <1>43
  DEF RequestsInv, Usages, Turns, Views, Compactions, CancelCaller, Finish,
      EndTurn, FailCompaction
<1>44. CASE Reset
  BY <1>a, <1>b, <1>44 DEF RequestsInv, Usages, Turns, Views, Compactions, Reset
<1>45. CASE UNCHANGED vars
  BY <1>a, <1>b, <1>45 DEF RequestsInv, Usages, Turns, Views, Compactions, vars
<1> QED
  BY <1>1, <1>2, <1>3, <1>4, <1>5, <1>6, <1>7, <1>8, <1>9, <1>10, <1>11,
     <1>12, <1>13, <1>14, <1>15, <1>16, <1>17, <1>18, <1>19, <1>20, <1>21,
     <1>22, <1>23, <1>24, <1>25, <1>26, <1>27, <1>28, <1>29, <1>30, <1>31,
     <1>32, <1>33, <1>34, <1>35, <1>36, <1>37, <1>38, <1>39, <1>40, <1>41,
     <1>42, <1>43, <1>44, <1>45
  DEF Next, RunStep, WorkStep

-----------------------------------------------------------------------------
(* The session and the history.                                            *)

\* Nothing is added by nothing, and results are added one after the other.
LEMMA Joining ==
    /\ \A ms \in Histories : ms \o <<>> = ms
    /\ \A a, b, c \in Histories : (a \o b) \o c = a \o (b \o c)
BY ConcatEmptySeq, ConcatAssociative DEF Histories

\* What is recorded is what the agent knows and the results it holds back.
LEMMA SessionStep ==
    ASSUME TypeOK, ControlInv, SessionInv, [Next]_vars
    PROVE  SessionInv'
<1> USE DEF InTurn, CompactionAwaits, StreamAwaits, TurnAwaits, BatchAwaits,
        OuterAwaits
<1>a. /\ state \in AgentStates /\ turn \in Turns /\ seen \in Views
      /\ env \in Environments /\ env.resets \in Nat
      /\ env.resultsLost \in BOOLEAN
  <2>1. /\ state \in AgentStates /\ turn \in Turns /\ seen \in Views
        /\ env \in Environments
    BY DEF TypeOK
  <2>2. env.resets \in 0..MaxResets /\ env.resultsLost \in BOOLEAN
    BY <2>1, EnvironmentUpdates
  <2> QED
    BY <2>1, <2>2, Bounds
<1>b. /\ state.messages \in Histories /\ turn.results \in Histories
      /\ CallResult \in Histories /\ <<>> \in Histories
  BY <1>a, AgentStateUpdates, TurnUpdates, CallTypes
<1>c. /\ state.messages \o <<>> = state.messages
      /\ turn.results \o <<>> = turn.results
      /\ (state.messages \o turn.results) \o <<>>
           = state.messages \o (turn.results \o <<>>)
      /\ (state.messages \o turn.results) \o CallResult
           = state.messages \o (turn.results \o CallResult)
  BY <1>b, Joining
<1>1. CASE BeginRun
  BY <1>a, <1>b, <1>c, <1>1
  DEF SessionInv, AgentStates, Turns, Views, Environments, BeginRun
<1>2. CASE EndRun
  BY <1>a, <1>b, <1>c, <1>2
  DEF SessionInv, AgentStates, Turns, Views, Environments, EndRun
<1>3. CASE PrepareTask
  BY <1>a, <1>b, <1>c, <1>3
  DEF SessionInv, AgentStates, Turns, Views, Environments, PrepareTask, Finish
<1>4. CASE PrepareInterrupted
  BY <1>a, <1>b, <1>c, <1>4
  DEF SessionInv, AgentStates, Turns, Views, Environments, PrepareInterrupted,
      Finish
<1>5. CASE StepsExhausted
  BY <1>a, <1>b, <1>c, <1>5
  DEF SessionInv, AgentStates, Turns, Views, Environments, StepsExhausted,
      Finish
<1>6. CASE StopBeforeTurn
  BY <1>a, <1>b, <1>c, <1>6
  DEF SessionInv, AgentStates, Turns, Views, Environments, StopBeforeTurn,
      Finish
<1>7. CASE StartTurn
  <2>1. /\ pc = "loop" /\ pc' = "turnStarted" /\ turn'.results = <<>>
        /\ turn'.outcome = "continue"
        /\ state'.messages = state.messages /\ seen'.session = seen.session
        /\ env' = env
    BY <1>a, <1>7 DEF StartTurn, NewTurn, AgentStates, Views
  <2> QED
    BY <2>1 DEF SessionInv
<1>8. CASE TurnSettled
  BY <1>a, <1>b, <1>c, <1>8
  DEF SessionInv, AgentStates, Turns, Views, Environments, TurnSettled, Finish
<1>9. CASE EvaluateContext
  BY <1>a, <1>b, <1>c, <1>9
  DEF SessionInv, AgentStates, Turns, Views, Environments, EvaluateContext,
      BeginRequest, AwaitStream
<1>10. CASE ContextEvaluated
  BY <1>a, <1>b, <1>c, <1>10
  DEF SessionInv, AgentStates, Turns, Views, Environments, ContextEvaluated,
      BeginRequest, AwaitStream, StartCompaction
<1>11. CASE ContextRebuilt
  BY <1>a, <1>b, <1>c, <1>11
  DEF SessionInv, AgentStates, Turns, Views, Environments, ContextRebuilt,
      BeginRequest, AwaitStream
<1>12. CASE DeltaDelivered
  BY <1>a, <1>b, <1>c, <1>12
  DEF SessionInv, AgentStates, Turns, Views, Environments, DeltaDelivered,
      AwaitStream
<1>13. CASE StreamInterrupted
  BY <1>a, <1>b, <1>c, <1>13
  DEF SessionInv, AgentStates, Turns, Views, Environments, StreamInterrupted
<1>14. CASE AcceptResponse
  BY <1>a, <1>b, <1>c, <1>14
  DEF SessionInv, AgentStates, Turns, Views, Environments, AcceptResponse
<1>15. CASE RecoverFromOverflow
  BY <1>a, <1>b, <1>c, <1>15
  DEF SessionInv, AgentStates, Turns, Views, Environments, RecoverFromOverflow,
      StartCompaction
<1>16. CASE RequestFails
  BY <1>a, <1>b, <1>c, <1>16
  DEF SessionInv, AgentStates, Turns, Views, Environments, RequestFails, EndTurn
<1>17. CASE RunCompactor
  BY <1>a, <1>b, <1>c, <1>17
  DEF SessionInv, AgentStates, Turns, Views, Environments, RunCompactor,
      FailCompaction
<1>18. CASE CompactorInterrupted
  BY <1>a, <1>b, <1>c, <1>18
  DEF SessionInv, AgentStates, Turns, Views, Environments, CompactorInterrupted,
      FailCompaction
<1>19. CASE RebuildContext
  BY <1>a, <1>b, <1>c, <1>19
  DEF SessionInv, AgentStates, Turns, Views, Environments, RebuildContext
<1>20. CASE CompactionSkipped
  BY <1>a, <1>b, <1>c, <1>20
  DEF SessionInv, AgentStates, Turns, Views, Environments, CompactionSkipped,
      EndTurn, BeginRequest, AwaitStream
<1>21. CASE CompactionFailed
  BY <1>a, <1>b, <1>c, <1>21
  DEF SessionInv, AgentStates, Turns, Views, Environments, CompactionFailed,
      EndTurn
<1>22. CASE TextResponse
  BY <1>a, <1>b, <1>c, <1>22
  DEF SessionInv, AgentStates, Turns, Views, Environments, TextResponse, EndTurn
<1>23. CASE ResponseAborted
  BY <1>a, <1>b, <1>c, <1>23
  DEF SessionInv, AgentStates, Turns, Views, Environments, ResponseAborted,
      EndTurn
<1>24. CASE FirstCall
  BY <1>a, <1>b, <1>c, <1>24
  DEF SessionInv, AgentStates, Turns, Views, Environments, FirstCall, StartCall
<1>25. CASE RejectRepeatedCall
  BY <1>a, <1>b, <1>c, <1>25
  DEF SessionInv, AgentStates, Turns, Views, Environments, RejectRepeatedCall,
      CompleteCall
<1>26. CASE DispatchCall
  <2>1. /\ pc = "toolStarted" /\ UNCHANGED <<state, env>>
        /\ \/ /\ pc' = "toolCompleted"
              /\ turn'.results = turn.results \o CallResult
              /\ seen'.session = seen.session \o CallResult
           \/ pc' = "dispatching" /\ UNCHANGED <<turn, seen>>
    BY <1>a, <1>26 DEF DispatchCall, CompleteCall, Turns, Views
  <2> QED
    BY <1>b, <1>c, <2>1 DEF SessionInv
<1>27. CASE HandlerInterrupted
  BY <1>a, <1>b, <1>c, <1>27
  DEF SessionInv, AgentStates, Turns, Views, Environments, HandlerInterrupted,
      CompleteCall
<1>28. CASE NextCall
  BY <1>a, <1>b, <1>c, <1>28
  DEF SessionInv, AgentStates, Turns, Views, Environments, NextCall, StartCall
<1>29. CASE SkipCall
  BY <1>a, <1>b, <1>c, <1>29
  DEF SessionInv, AgentStates, Turns, Views, Environments, SkipCall, StartCall
<1>30. CASE CallSkipped
  BY <1>a, <1>b, <1>c, <1>30
  DEF SessionInv, AgentStates, Turns, Views, Environments, CallSkipped,
      CompleteCall
<1>31. CASE EndBatch
  BY <1>a, <1>b, <1>c, <1>31
  DEF SessionInv, AgentStates, Turns, Views, Environments, EndBatch, EndTurn
<1>32. CASE RepeatedCallEndsTurn
  BY <1>a, <1>b, <1>c, <1>32
  DEF SessionInv, AgentStates, Turns, Views, Environments, RepeatedCallEndsTurn,
      EndTurn
<1>33. CASE TaskPrepared
  BY <1>a, <1>b, <1>c, <1>33
  DEF SessionInv, AgentStates, Turns, Views, Environments, TaskPrepared
<1>34. CASE PrepareFails
  BY <1>a, <1>b, <1>c, <1>34
  DEF SessionInv, AgentStates, Turns, Views, Environments, PrepareFails, Finish
<1>35. CASE ReceiveDelta
  BY <1>a, <1>b, <1>c, <1>35
  DEF SessionInv, AgentStates, Turns, Views, Environments, ReceiveDelta
<1>36. CASE ReceiveResponse
  BY <1>a, <1>b, <1>c, <1>36
  DEF SessionInv, AgentStates, Turns, Views, Environments, ReceiveResponse
<1>37. CASE StreamOverflows
  BY <1>a, <1>b, <1>c, <1>37
  DEF SessionInv, AgentStates, Turns, Views, Environments, StreamOverflows
<1>38. CASE StreamFails
  BY <1>a, <1>b, <1>c, <1>38
  DEF SessionInv, AgentStates, Turns, Views, Environments, StreamFails
<1>39. CASE CommitCompaction
  BY <1>a, <1>b, <1>c, <1>39
  DEF SessionInv, AgentStates, Turns, Views, Environments, CommitCompaction
<1>40. CASE CompactorFails
  BY <1>a, <1>b, <1>c, <1>40
  DEF SessionInv, AgentStates, Turns, Views, Environments, CompactorFails,
      FailCompaction
<1>41. CASE HandlerReturns
  <2>1. /\ pc = "dispatching" /\ UNCHANGED <<state, env>>
        /\ pc' = "toolCompleted"
        /\ turn'.results = turn.results \o CallResult
        /\ seen'.session = seen.session \o CallResult
    BY <1>a, <1>41 DEF HandlerReturns, CompleteCall, Turns, Views
  <2> QED
    BY <1>b, <1>c, <2>1 DEF SessionInv
<1>42. CASE Abort
  BY <1>a, <1>b, <1>c, <1>42
  DEF SessionInv, AgentStates, Turns, Views, Environments, Abort
<1>43. CASE CancelCaller
  BY <1>a, <1>b, <1>c, <1>43
  DEF SessionInv, AgentStates, Turns, Views, Environments, CancelCaller, Finish,
      EndTurn, FailCompaction
<1>44. CASE Reset
  BY <1>a, <1>b, <1>c, <1>44
  DEF SessionInv, AgentStates, Turns, Views, Environments, Reset
<1>45. CASE UNCHANGED vars
  BY <1>a, <1>b, <1>c, <1>45
  DEF SessionInv, AgentStates, Turns, Views, Environments, vars
<1> QED
  BY <1>1, <1>2, <1>3, <1>4, <1>5, <1>6, <1>7, <1>8, <1>9, <1>10, <1>11,
     <1>12, <1>13, <1>14, <1>15, <1>16, <1>17, <1>18, <1>19, <1>20, <1>21,
     <1>22, <1>23, <1>24, <1>25, <1>26, <1>27, <1>28, <1>29, <1>30, <1>31,
     <1>32, <1>33, <1>34, <1>35, <1>36, <1>37, <1>38, <1>39, <1>40, <1>41,
     <1>42, <1>43, <1>44, <1>45
  DEF Next, RunStep, WorkStep

-----------------------------------------------------------------------------
(* The open batch.                                                         *)

\* A call that is settled adds one result to those of the calls before it.
LEMMA CallSettles ==
    ASSUME TypeOK, ControlInv, ResultsInv,
           pc \in {"toolStarted", "dispatching", "skipStarted"},
           NEW o, o # "repeated", CompleteCall(o, CallResult), UNCHANGED runs
    PROVE  ResultsInv'
<1>1. turn \in Turns /\ turn.results \in Seq(Messages) /\ Len(turn.results) \in Nat
  BY TurnUpdates, LenProperties DEF TypeOK, Histories
<1>2. /\ turn.idx \in Nat /\ turn.idx > 0 /\ Len(turn.results) = turn.idx - 1
      /\ \A i \in 1..Len(turn.results) :
            turn.results[i] = ToolResult(runs, turn.step, i)
  <2>1. turn.idx \in 0..MaxCalls /\ MaxCalls \in Nat
    BY <1>1, TurnUpdates, Bounds
  <2>2. turn.idx > 0
    <3>1. turn.idx \in 1..Len(turn.calls)
      BY DEF ControlInv, BatchAwaits
    <3> QED
      BY <2>1, <3>1
  <2> QED
    BY <2>1, <2>2 DEF ResultsInv, BatchAwaits
<1> DEFINE r == ToolResult(runs, turn.step, turn.idx)
<1>3. turn'.results = turn.results \o <<r>> /\ pc' = "toolCompleted"
      /\ turn'.idx = turn.idx /\ turn'.step = turn.step /\ turn'.outcome = o
  BY <1>1 DEF CompleteCall, CallResult, Turns
<1>4. r \in Messages
  <2>1. runs \in 0..MaxRuns /\ turn.step \in 0..MaxSteps /\ MaxRuns \in Nat
        /\ MaxSteps \in Nat
    BY <1>1, TurnUpdates, Bounds DEF TypeOK
  <2> QED
    BY <1>2, <2>1, MessageTypes
<1> HIDE DEF r
<1>5. /\ Len(turn'.results) = turn.idx
      /\ \A i \in 1..turn.idx :
            turn'.results[i] = IF i < turn.idx THEN turn.results[i] ELSE r
  <2>1. turn'.results = Append(turn.results, r)
    BY <1>1, <1>3, <1>4, AppendIsConcat
  <2> QED
    BY <1>1, <1>2, <1>4, <2>1, AppendProperties
<1>6. \A i \in 1..turn.idx : turn'.results[i] = ToolResult(runs, turn.step, i)
  BY <1>2, <1>5 DEF r
<1> QED
  BY <1>3, <1>5, <1>6 DEF ResultsInv

\* A settled call adds its own result and nothing else.
LEMMA ResultsStep ==
    ASSUME TypeOK, ControlInv, SessionInv, ResultsInv, [Next]_vars
    PROVE  ResultsInv'
<1> USE DEF InTurn, CompactionAwaits, StreamAwaits, TurnAwaits, BatchAwaits,
        OuterAwaits
<1>a. turn \in Turns /\ turn.results \in Seq(Messages)
  BY TurnUpdates DEF TypeOK, Histories
<1>1. CASE BeginRun
  BY <1>a, <1>1 DEF ResultsInv, Turns, BeginRun
<1>2. CASE EndRun
  BY <1>a, <1>2 DEF ResultsInv, Turns, EndRun
<1>3. CASE PrepareTask
  BY <1>a, <1>3 DEF ResultsInv, Turns, PrepareTask, Finish
<1>4. CASE PrepareInterrupted
  BY <1>a, <1>4 DEF ResultsInv, Turns, PrepareInterrupted, Finish
<1>5. CASE StepsExhausted
  BY <1>a, <1>5 DEF ResultsInv, Turns, StepsExhausted, Finish
<1>6. CASE StopBeforeTurn
  BY <1>a, <1>6 DEF ResultsInv, Turns, StopBeforeTurn, Finish
<1>7. CASE StartTurn
  BY <1>a, <1>7 DEF ResultsInv, Turns, StartTurn
<1>8. CASE TurnSettled
  BY <1>a, <1>8 DEF ResultsInv, Turns, TurnSettled, Finish
<1>9. CASE EvaluateContext
  BY <1>a, <1>9
  DEF ResultsInv, Turns, EvaluateContext, BeginRequest, AwaitStream
<1>10. CASE ContextEvaluated
  BY <1>a, <1>10
  DEF ResultsInv, Turns, ContextEvaluated, BeginRequest, AwaitStream,
      StartCompaction
<1>11. CASE ContextRebuilt
  BY <1>a, <1>11
  DEF ResultsInv, Turns, ContextRebuilt, BeginRequest, AwaitStream
<1>12. CASE DeltaDelivered
  BY <1>a, <1>12 DEF ResultsInv, Turns, DeltaDelivered, AwaitStream
<1>13. CASE StreamInterrupted
  BY <1>a, <1>13 DEF ResultsInv, Turns, StreamInterrupted
<1>14. CASE AcceptResponse
  BY <1>a, <1>14 DEF ResultsInv, Turns, AcceptResponse
<1>15. CASE RecoverFromOverflow
  BY <1>a, <1>15 DEF ResultsInv, Turns, RecoverFromOverflow, StartCompaction
<1>16. CASE RequestFails
  BY <1>a, <1>16 DEF ResultsInv, Turns, RequestFails, EndTurn
<1>17. CASE RunCompactor
  BY <1>a, <1>17 DEF ResultsInv, Turns, RunCompactor, FailCompaction
<1>18. CASE CompactorInterrupted
  BY <1>a, <1>18 DEF ResultsInv, Turns, CompactorInterrupted, FailCompaction
<1>19. CASE RebuildContext
  BY <1>a, <1>19 DEF ResultsInv, Turns, RebuildContext
<1>20. CASE CompactionSkipped
  BY <1>a, <1>20
  DEF ResultsInv, Turns, CompactionSkipped, EndTurn, BeginRequest, AwaitStream
<1>21. CASE CompactionFailed
  BY <1>a, <1>21 DEF ResultsInv, Turns, CompactionFailed, EndTurn
<1>22. CASE TextResponse
  BY <1>a, <1>22 DEF ResultsInv, Turns, TextResponse, EndTurn
<1>23. CASE ResponseAborted
  BY <1>a, <1>23 DEF ResultsInv, Turns, ResponseAborted, EndTurn
<1>24. CASE FirstCall
  <2>1. /\ pc = "message" /\ pc' = "toolStarted" /\ turn'.idx = 1
        /\ turn'.results = turn.results /\ turn.results = <<>>
    BY <1>a, <1>24 DEF FirstCall, StartCall, Turns, SessionInv
  <2>2. Len(turn'.results) = 0
    BY <2>1
  <2> QED
    BY <2>1, <2>2 DEF ResultsInv
<1>25. CASE RejectRepeatedCall
  BY <1>a, <1>25 DEF ResultsInv, Turns, RejectRepeatedCall, CompleteCall
<1>26. CASE DispatchCall
  <2>1. /\ pc = "toolStarted" /\ UNCHANGED runs
        /\ \/ CompleteCall("continue", CallResult)
           \/ CompleteCall("cancelled", CallResult)
           \/ pc' = "dispatching" /\ UNCHANGED turn
    BY <1>26 DEF DispatchCall
  <2>2. CASE pc' = "dispatching" /\ UNCHANGED turn
    BY <2>1, <2>2 DEF ResultsInv
  <2> QED
    BY <2>1, <2>2, CallSettles
<1>27. CASE HandlerInterrupted
  BY <1>27, CallSettles DEF HandlerInterrupted
<1>28. CASE NextCall
  BY <1>a, <1>28 DEF ResultsInv, Turns, NextCall, StartCall
<1>29. CASE SkipCall
  BY <1>a, <1>29 DEF ResultsInv, Turns, SkipCall, StartCall
<1>30. CASE CallSkipped
  BY <1>30, CallSettles DEF CallSkipped
<1>31. CASE EndBatch
  BY <1>a, <1>31 DEF ResultsInv, Turns, EndBatch, EndTurn
<1>32. CASE RepeatedCallEndsTurn
  BY <1>a, <1>32 DEF ResultsInv, Turns, RepeatedCallEndsTurn, EndTurn
<1>33. CASE TaskPrepared
  BY <1>a, <1>33 DEF ResultsInv, Turns, TaskPrepared
<1>34. CASE PrepareFails
  BY <1>a, <1>34 DEF ResultsInv, Turns, PrepareFails, Finish
<1>35. CASE ReceiveDelta
  BY <1>a, <1>35 DEF ResultsInv, Turns, ReceiveDelta
<1>36. CASE ReceiveResponse
  BY <1>a, <1>36 DEF ResultsInv, Turns, ReceiveResponse
<1>37. CASE StreamOverflows
  BY <1>a, <1>37 DEF ResultsInv, Turns, StreamOverflows
<1>38. CASE StreamFails
  BY <1>a, <1>38 DEF ResultsInv, Turns, StreamFails
<1>39. CASE CommitCompaction
  BY <1>a, <1>39 DEF ResultsInv, Turns, CommitCompaction
<1>40. CASE CompactorFails
  BY <1>a, <1>40 DEF ResultsInv, Turns, CompactorFails, FailCompaction
<1>41. CASE HandlerReturns
  BY <1>41, CallSettles DEF HandlerReturns
<1>42. CASE Abort
  BY <1>a, <1>42 DEF ResultsInv, Turns, Abort
<1>43. CASE CancelCaller
  BY <1>a, <1>43
  DEF ResultsInv, Turns, CancelCaller, Finish, EndTurn, FailCompaction
<1>44. CASE Reset
  BY <1>a, <1>44 DEF ResultsInv, Turns, Reset
<1>45. CASE UNCHANGED vars
  BY <1>a, <1>45 DEF ResultsInv, Turns, vars
<1> QED
  BY <1>1, <1>2, <1>3, <1>4, <1>5, <1>6, <1>7, <1>8, <1>9, <1>10, <1>11,
     <1>12, <1>13, <1>14, <1>15, <1>16, <1>17, <1>18, <1>19, <1>20, <1>21,
     <1>22, <1>23, <1>24, <1>25, <1>26, <1>27, <1>28, <1>29, <1>30, <1>31,
     <1>32, <1>33, <1>34, <1>35, <1>36, <1>37, <1>38, <1>39, <1>40, <1>41,
     <1>42, <1>43, <1>44, <1>45
  DEF Next, RunStep, WorkStep

-----------------------------------------------------------------------------
(* Pairs of calls and results, as the history grows and is cut.            *)

\* The messages of a history, at their positions.
LEMMA MessageFields ==
    ASSUME NEW ms \in Histories
    PROVE  /\ Len(ms) \in Nat
           /\ \A p \in 1..Len(ms) :
                /\ ms[p] \in Messages
                /\ ms[p].run \in Nat /\ ms[p].step \in Nat /\ ms[p].call \in Nat
<1>1. ms \in Seq(Messages)
  BY DEF Histories
<1>2. Len(ms) \in Nat /\ \A p \in 1..Len(ms) : ms[p] \in Messages
  BY <1>1, LenProperties, ElementOfSeq
<1>3. \A m \in Messages : m.run \in Nat /\ m.step \in Nat /\ m.call \in Nat
  BY DEF Messages
<1> QED
  BY <1>2, <1>3

\* What the messages of a run are.
LEMMA NewMessages ==
    \A r, s, n :
        /\ User(r).role = "user" /\ User(r).run = r
        /\ Summary.role = "summary" /\ Summary.run = 0
        /\ Assistant(r, s, n).role = "assistant" /\ Assistant(r, s, n).run = r
        /\ Assistant(r, s, n).step = s /\ Assistant(r, s, n).call = n
        /\ ToolResult(r, s, n).role = "tool" /\ ToolResult(r, s, n).run = r
        /\ ToolResult(r, s, n).step = s /\ ToolResult(r, s, n).call = n
BY DEF User, Assistant, ToolResult, Summary, NewMessage

\* What was answered stays answered when messages are added.
LEMMA SettledStays ==
    ASSUME NEW ms \in Histories, NEW longer \in Histories,
           Len(ms) <= Len(longer), \A i \in 1..Len(ms) : longer[i] = ms[i],
           NEW r, NEW n \in 0..Len(ms), Settled(ms, r, n)
    PROVE  Settled(longer, r, n)
<1> SUFFICES ASSUME NEW p \in 1..n, longer[p].role = "assistant",
                    longer[p].run = r, NEW i \in 1..longer[p].call
             PROVE  /\ p + i <= Len(longer)
                    /\ longer[p + i] = ToolResult(longer[p].run, longer[p].step, i)
  BY DEF Settled, Answered
<1>1. /\ Len(ms) \in Nat /\ Len(longer) \in Nat /\ p \in 1..Len(ms)
      /\ longer[p] = ms[p] /\ ms[p].call \in Nat
  BY MessageFields
<1>2. p + i <= Len(ms) /\ ms[p + i] = ToolResult(ms[p].run, ms[p].step, i)
  BY <1>1 DEF Settled, Answered
<1>3. p + i \in 1..Len(ms)
  BY <1>1, <1>2
<1> QED
  BY <1>1, <1>2, <1>3

\* A message that is not a result keeps the pairs.
LEMMA PairedAppend ==
    ASSUME NEW ms \in Histories, NEW m \in Messages, m.role # "tool", Paired(ms)
    PROVE  Paired(Append(ms, m))
<1> DEFINE longer == Append(ms, m)
<1>1. /\ longer \in Histories /\ Len(longer) = Len(ms) + 1 /\ Len(ms) \in Nat
      /\ \A i \in 1..Len(ms) : longer[i] = ms[i]
      /\ longer[Len(ms) + 1] = m
  BY AppendProperties, MessageFields DEF Histories
<1> HIDE DEF longer
<1> SUFFICES ASSUME NEW p \in 1..Len(longer), longer[p].role = "tool"
             PROVE  \E q \in 1..(p - 1) :
                        /\ longer[q].role = "assistant"
                        /\ longer[q].run = longer[p].run
                        /\ longer[q].step = longer[p].step
                        /\ p = q + longer[p].call
                        /\ longer[p].call <= longer[q].call
                        /\ \A i \in (q + 1)..p : longer[i].role = "tool"
  BY DEF Paired, longer
<1>2. p \in 1..Len(ms) /\ longer[p] = ms[p]
  BY <1>1
<1>3. PICK q \in 1..(p - 1) :
        /\ ms[q].role = "assistant"
        /\ ms[q].run = ms[p].run
        /\ ms[q].step = ms[p].step
        /\ p = q + ms[p].call
        /\ ms[p].call <= ms[q].call
        /\ \A i \in (q + 1)..p : ms[i].role = "tool"
  BY <1>2 DEF Paired
<1>4. q \in 1..Len(ms) /\ \A i \in (q + 1)..p : i \in 1..Len(ms)
  BY <1>1, <1>2
<1> QED
  BY <1>1, <1>2, <1>3, <1>4

\* The results of a batch, added behind the message that asks for them.
LEMMA ResultsJoin ==
    ASSUME NEW ms \in Histories, NEW rs \in Histories, NEW r \in Nat,
           NEW s \in Nat, NEW k \in Nat,
           Len(ms) > 0, ms[Len(ms)] = Assistant(r, s, k), Len(rs) <= k,
           \A i \in 1..Len(rs) : rs[i] = ToolResult(r, s, i),
           Paired(ms), Settled(ms, r, Len(ms) - 1)
    PROVE  /\ Paired(ms \o rs)
           /\ Len(rs) = k => Settled(ms \o rs, r, Len(ms \o rs))
<1> DEFINE longer == ms \o rs
           n == Len(ms)
<1>1. /\ longer \in Histories /\ Len(longer) = n + Len(rs)
      /\ n \in Nat /\ Len(rs) \in Nat
      /\ \A i \in 1..n : longer[i] = ms[i]
      /\ \A i \in 1..Len(rs) : longer[n + i] = rs[i]
  BY ConcatProperties, LenProperties DEF Histories
<1> HIDE DEF longer
<1>2. /\ longer[n] = Assistant(r, s, k)
      /\ \A i \in 1..Len(rs) : longer[n + i] = ToolResult(r, s, i)
  BY <1>1, SMTT(60)
<1> HIDE DEF n
<1>3. ASSUME NEW p \in 1..Len(longer), longer[p].role = "tool"
      PROVE  \E q \in 1..(p - 1) :
                /\ longer[q].role = "assistant"
                /\ longer[q].run = longer[p].run
                /\ longer[q].step = longer[p].step
                /\ p = q + longer[p].call
                /\ longer[p].call <= longer[q].call
                /\ \A i \in (q + 1)..p : longer[i].role = "tool"
  <2>1. CASE p <= n
    <3>1. p \in 1..n /\ longer[p] = ms[p]
      BY <1>1, <2>1
    <3>2. PICK q \in 1..(p - 1) :
            /\ ms[q].role = "assistant"
            /\ ms[q].run = ms[p].run
            /\ ms[q].step = ms[p].step
            /\ p = q + ms[p].call
            /\ ms[p].call <= ms[q].call
            /\ \A i \in (q + 1)..p : ms[i].role = "tool"
      BY <1>3, <3>1 DEF Paired, n
    <3>3. q \in 1..n /\ \A i \in (q + 1)..p : i \in 1..n
      BY <1>1, <3>1
    <3> QED
      BY <1>1, <3>1, <3>2, <3>3, ZenonT(60)
  <2>2. CASE p > n
    <3>1. p - n \in 1..Len(rs) /\ n + (p - n) = p /\ n \in 1..(p - 1)
      BY <1>1, <2>2 DEF n
    <3>2. longer[p] = ToolResult(r, s, p - n)
      BY <1>2, <3>1
    <3>3. /\ longer[n].role = "assistant"
          /\ longer[n].run = longer[p].run
          /\ longer[n].step = longer[p].step
          /\ longer[p].call = p - n
          /\ longer[n].call = k
      BY <1>2, <3>2, NewMessages
    <3>4. \A i \in (n + 1)..p : longer[i].role = "tool"
      <4> SUFFICES ASSUME NEW i \in (n + 1)..p PROVE longer[i].role = "tool"
        OBVIOUS
      <4>1. i - n \in 1..Len(rs) /\ n + (i - n) = i
        BY <1>1
      <4>2. longer[i] = ToolResult(r, s, i - n)
        BY <1>2, <4>1
      <4> QED
        BY <4>2, NewMessages
    <3>5. p = n + longer[p].call /\ longer[p].call <= longer[n].call
      BY <1>1, <3>1, <3>3
    <3> QED
      BY <3>1, <3>3, <3>4, <3>5
  <2> QED
    BY <1>1, <2>1, <2>2
<1>4. ASSUME Len(rs) = k PROVE Settled(longer, r, Len(longer))
  <2> SUFFICES ASSUME NEW p \in 1..Len(longer), longer[p].role = "assistant",
                      longer[p].run = r
               PROVE  Answered(longer, p)
    BY DEF Settled
  <2>1. CASE p <= n - 1
    <3>1. Settled(longer, r, n - 1)
      <4>1. n - 1 \in 0..Len(ms) /\ Len(ms) <= Len(longer)
        BY <1>1 DEF n
      <4>2. Settled(ms, r, n - 1)
        BY DEF n
      <4> QED
        BY <1>1, <4>1, <4>2, SettledStays DEF n
    <3>2. p \in 1..(n - 1)
      BY <1>1, <2>1
    <3> QED
      BY <3>1, <3>2 DEF Settled
  <2>2. CASE p = n
    <3>1. longer[p].run = r /\ longer[p].step = s /\ longer[p].call = k
      BY <1>2, <2>2, NewMessages
    <3> QED
      BY <1>1, <1>2, <1>4, <2>2, <3>1 DEF Answered
  <2>3. CASE p > n
    <3>1. p - n \in 1..Len(rs) /\ n + (p - n) = p
      BY <1>1, <2>3, SMTT(60)
    <3>2. longer[p] = ToolResult(r, s, p - n)
      BY <1>2, <3>1
    <3> QED
      BY <3>2, NewMessages
  <2> QED
    BY <1>1, <2>1, <2>2, <2>3
<1> QED
  BY <1>3, <1>4 DEF Paired, longer

\* A cut is made before a message of the user: the pairs behind it stay whole.
LEMMA CutKeepsPairs ==
    ASSUME NEW ms \in Histories, NEW cut \in CutPoints(ms), CanCompact(ms, cut)
    PROVE  /\ Paired(ms) => Paired(Compacted(ms, cut))
           /\ \A r : Settled(ms, r, Len(ms)) =>
                Settled(Compacted(ms, cut), r, Len(Compacted(ms, cut)))
           /\ \A r \in Nat : (\A p \in 1..Len(ms) : ms[p].run <= r) =>
                \A p \in 1..Len(Compacted(ms, cut)) : Compacted(ms, cut)[p].run <= r
<1> DEFINE kept == Compacted(ms, cut)
<1>1. cut \in 1..Len(ms) /\ ms[cut].role = "user" /\ Len(ms) \in Nat
  <2>1. HistoryStart(ms) \in {1, 2} /\ cut > HistoryStart(ms)
    BY CutRange DEF CanCompact, Histories
  <2> QED
    BY <2>1, CutRange, MessageFields DEF Histories
<1> DEFINE from(p) == cut + p - 2
<1>2. /\ kept \in Histories /\ Len(kept) = Len(ms) - cut + 2
      /\ kept[1] = Summary
      /\ \A p \in 2..Len(kept) : from(p) \in cut..Len(ms) /\ kept[p] = ms[from(p)]
  <2>1. cut \in Nat \ {0} /\ cut <= Len(ms)
    BY <1>1
  <2>2. /\ kept \in Histories /\ Len(kept) = Len(ms) - cut + 2
        /\ kept[1] = Summary
        /\ \A p \in 2..(Len(ms) - cut + 2) : kept[p] = ms[cut + p - 2]
    BY <2>1, CompactedShape DEF Histories
  <2> HIDE DEF kept
  <2> QED
    BY <1>1, <2>1, <2>2
<1> HIDE DEF kept
<1>3. ASSUME Paired(ms), NEW p \in 1..Len(kept), kept[p].role = "tool"
      PROVE  \E q \in 1..(p - 1) :
                /\ kept[q].role = "assistant"
                /\ kept[q].run = kept[p].run
                /\ kept[q].step = kept[p].step
                /\ p = q + kept[p].call
                /\ kept[p].call <= kept[q].call
                /\ \A i \in (q + 1)..p : kept[i].role = "tool"
  <2>0. Len(kept) \in Nat
    BY <1>2, MessageFields
  <2>1. p # 1
    BY <1>2, <1>3, NewMessages
  <2>2. p \in 2..Len(kept) /\ from(p) \in 1..Len(ms) /\ from(p) >= cut
        /\ kept[p] = ms[from(p)]
    BY <1>1, <1>2, <2>1
  <2>3. PICK q0 \in 1..(from(p) - 1) :
          /\ ms[q0].role = "assistant"
          /\ ms[q0].run = ms[from(p)].run
          /\ ms[q0].step = ms[from(p)].step
          /\ from(p) = q0 + ms[from(p)].call
          /\ ms[from(p)].call <= ms[q0].call
          /\ \A i \in (q0 + 1)..from(p) : ms[i].role = "tool"
    BY <1>3, <2>2 DEF Paired
  <2>4. q0 >= cut
    <3>1. cut \notin (q0 + 1)..from(p)
      BY <1>1, <2>3
    <3> QED
      BY <1>1, <2>2, <3>1
  <2> DEFINE q == q0 - cut + 2
  <2>5. q \in 2..Len(kept) /\ q \in 1..(p - 1) /\ from(q) = q0
    BY <1>1, <1>2, <2>2, <2>4
  <2>6. kept[q] = ms[q0] /\ p = q + kept[p].call
    <3>1. kept[q] = ms[q0]
      BY <1>2, <2>5
    <3>2. ms[from(p)].call \in Nat
      BY <2>2, MessageFields
    <3>3. from(p) = q0 + ms[from(p)].call /\ kept[p].call = ms[from(p)].call
      BY <2>2, <2>3
    <3>4. cut \in Nat /\ p \in Nat /\ q0 \in Nat
      BY <1>1, <2>2
    <3>5. PICK c \in Nat : c = ms[from(p)].call
      BY <3>2
    <3>6. cut + p - 2 = q0 + c
      BY <3>3, <3>5
    <3>7. p = (q0 - cut + 2) + c
      BY ONLY <3>4, <3>6, c \in Nat
    <3> QED
      BY <3>1, <3>3, <3>5, <3>7
  <2>7. \A i \in (q + 1)..p : kept[i].role = "tool"
    <3> SUFFICES ASSUME NEW i \in (q + 1)..p PROVE kept[i].role = "tool"
      OBVIOUS
    <3>1. i \in 2..Len(kept) /\ from(i) \in (q0 + 1)..from(p)
      <4>1. cut \in Nat /\ p \in Nat /\ q0 \in Nat /\ Len(kept) \in Nat
            /\ p <= Len(kept)
        BY <1>1, <2>0, <2>2
      <4>2. i \in Int /\ (q0 - cut + 2) + 1 <= i /\ i <= p
        BY <4>1
      <4>3. i \in 2..Len(kept)
        BY ONLY <2>4, <4>1, <4>2
      <4>4. cut + i - 2 \in (q0 + 1)..(cut + p - 2)
        BY ONLY <4>1, <4>2
      <4> QED
        BY <4>3, <4>4
    <3> QED
      BY <1>2, <2>3, <3>1
  <2> HIDE DEF q
  <2> QED
    BY <2>2, <2>3, <2>5, <2>6, <2>7
<1>4. ASSUME NEW r, Settled(ms, r, Len(ms)), NEW p \in 1..Len(kept),
             kept[p].role = "assistant", kept[p].run = r,
             NEW i \in 1..kept[p].call
      PROVE  /\ p + i <= Len(kept)
             /\ kept[p + i] = ToolResult(kept[p].run, kept[p].step, i)
  <2>1. p # 1
    BY <1>2, <1>4, NewMessages
  <2>2. p \in 2..Len(kept) /\ from(p) \in 1..Len(ms) /\ kept[p] = ms[from(p)]
    BY <1>1, <1>2, <2>1
  <2>3. ms[from(p)].call \in Nat
    BY <2>2, MessageFields
  <2>4. /\ from(p) + i <= Len(ms)
        /\ ms[from(p) + i] = ToolResult(ms[from(p)].run, ms[from(p)].step, i)
    BY <1>4, <2>2 DEF Settled, Answered
  <2>5. i \in Nat /\ p + i \in 2..Len(kept) /\ from(p + i) = from(p) + i
    BY <1>1, <1>2, <2>2, <2>3, <2>4
  <2> QED
    BY <1>2, <2>2, <2>4, <2>5
<1>5. ASSUME NEW r \in Nat, \A p \in 1..Len(ms) : ms[p].run <= r,
             NEW p \in 1..Len(kept)
      PROVE  kept[p].run <= r
  <2>1. CASE p = 1
    BY <1>2, <2>1, NewMessages
  <2>2. CASE p # 1
    <3>1. p \in 2..Len(kept) /\ from(p) \in 1..Len(ms)
      BY <1>1, <1>2, <2>2
    <3> QED
      BY <1>2, <1>5, <3>1
  <2> QED
    BY <2>1, <2>2
<1>6. Paired(ms) => Paired(kept)
  BY <1>3 DEF Paired
<1>7. \A r : Settled(ms, r, Len(ms)) => Settled(kept, r, Len(kept))
  BY <1>4 DEF Settled, Answered
<1> QED
  BY <1>5, <1>6, <1>7 DEF kept


-----------------------------------------------------------------------------
(* The history.                                                            *)

\* A position in a sequence joined of two is one in the first or the second.
LEMMA Positions ==
    \A a, b \in Nat : \A i \in 1..(a + b) :
        i \in 1..a \/ (~(i <= a) /\ i - a \in 1..b)
OBVIOUS

\* Every step keeps the pairs and answers what it has to.
LEMMA HistoryStep ==
    ASSUME TypeOK, ControlInv, SessionInv, ResultsInv, HistoryInv, [Next]_vars
    PROVE  HistoryInv'
<1> USE DEF Answering, BeforeResponse, BeforeRequest, InTurn, InCompaction,
        CompactionAwaits, StreamAwaits, TurnAwaits, BatchAwaits, OuterAwaits
<1>a. /\ state \in AgentStates /\ turn \in Turns /\ comp \in Compactions
      /\ env \in Environments
  BY DEF TypeOK
<1>b. /\ state.messages \in Histories /\ turn.results \in Histories
      /\ Len(state.messages) \in Nat /\ runs \in Nat /\ env.resets \in Nat
      /\ env.cancels \in Nat
  <2>1. /\ state.messages \in Histories /\ turn.results \in Histories
        /\ env.resets \in 0..MaxResets /\ env.cancels \in 0..MaxCancels
        /\ runs \in 0..MaxRuns
    BY <1>a, AgentStateUpdates, TurnUpdates, EnvironmentUpdates DEF TypeOK
  <2> QED
    BY <2>1, MessageFields, Bounds, SMTT(60)
<1>1. CASE BeginRun
  <2>1. /\ pc' = "started" /\ runs' = runs + 1 /\ env'.resets = env.resets
        /\ state'.messages = Append(state.messages, User(runs + 1))
    BY <1>a, <1>1 DEF BeginRun, Environments
  <2>2. ASSUME env.resets = 0
        PROVE  /\ Paired(state'.messages)
               /\ \A p \in 1..Len(state'.messages) : state'.messages[p].run <= runs + 1
               /\ Settled(state'.messages, runs + 1, Len(state'.messages))
    <3>1. Paired(state.messages)
          /\ \A p \in 1..Len(state.messages) : state.messages[p].run <= runs
      BY <2>2 DEF HistoryInv
    <3>2. /\ User(runs + 1) \in Messages /\ User(runs + 1).run = runs + 1
          /\ User(runs + 1).role = "user"
      <4>1. runs + 1 \in Nat
        BY <1>b
      <4>2. User(runs + 1) \in Messages
        BY <4>1, MessageTypes
      <4> QED
        BY <4>2 DEF User, NewMessage
    <3>3. /\ Len(state'.messages) = Len(state.messages) + 1
          /\ \A p \in 1..Len(state.messages) : state'.messages[p] = state.messages[p]
          /\ state'.messages[Len(state.messages) + 1] = User(runs + 1)
      BY <1>b, <2>1, <3>2, AppendProperties DEF Histories
    <3>4. \A p \in 1..Len(state.messages) : state.messages[p].run \in Nat
      BY <1>b, MessageFields
    <3>5. \A p \in 1..Len(state'.messages) :
            \/ /\ p \in 1..Len(state.messages)
               /\ state'.messages[p] = state.messages[p]
            \/ state'.messages[p] = User(runs + 1)
      BY <1>b, <3>3
    <3>6. Paired(state'.messages)
      BY <1>b, <2>1, <3>1, <3>2, PairedAppend
    <3>7. Settled(state'.messages, runs + 1, Len(state'.messages))
      <4> SUFFICES ASSUME NEW p \in 1..Len(state'.messages),
                          state'.messages[p].role = "assistant",
                          state'.messages[p].run = runs + 1
                   PROVE  FALSE
        BY DEF Settled
      <4>1. p \in 1..Len(state.messages) /\ state.messages[p].run = runs + 1
        BY <3>2, <3>5
      <4> QED
        BY <1>b, <3>1, <3>4, <4>1
    <3>8. \A p \in 1..Len(state'.messages) : state'.messages[p].run <= runs + 1
      <4> SUFFICES ASSUME NEW p \in 1..Len(state'.messages)
                   PROVE  state'.messages[p].run <= runs + 1
        OBVIOUS
      <4>1. CASE state'.messages[p] = User(runs + 1)
        BY <1>b, <3>2, <4>1
      <4>2. CASE /\ p \in 1..Len(state.messages)
                 /\ state'.messages[p] = state.messages[p]
        <5>1. state.messages[p].run <= runs /\ state.messages[p].run \in Nat
          BY <3>1, <3>4, <4>2
        <5> QED
          BY <1>b, <4>2, <5>1
      <4> QED
        BY <3>5, <4>1, <4>2
    <3> QED
      BY <3>6, <3>7, <3>8
  <2> QED
    BY <2>1, <2>2 DEF HistoryInv
<1>2. CASE EndRun
  BY <1>a, <1>b, <1>2
  DEF HistoryInv, AgentStates, Turns, Compactions, Environments, EndRun
<1>3. CASE PrepareTask
  BY <1>a, <1>b, <1>3
  DEF HistoryInv, AgentStates, Turns, Compactions, Environments, PrepareTask,
      Finish
<1>4. CASE PrepareInterrupted
  BY <1>a, <1>b, <1>4
  DEF HistoryInv, AgentStates, Turns, Compactions, Environments,
      PrepareInterrupted, Finish
<1>5. CASE StepsExhausted
  BY <1>a, <1>b, <1>5
  DEF HistoryInv, AgentStates, Turns, Compactions, Environments, StepsExhausted,
      Finish
<1>6. CASE StopBeforeTurn
  BY <1>a, <1>b, <1>6
  DEF HistoryInv, AgentStates, Turns, Compactions, Environments, StopBeforeTurn,
      Finish
<1>7. CASE StartTurn
  BY <1>a, <1>b, <1>7
  DEF HistoryInv, AgentStates, Turns, Compactions, Environments, StartTurn
<1>8. CASE TurnSettled
  BY <1>a, <1>b, <1>8
  DEF HistoryInv, AgentStates, Turns, Compactions, Environments, TurnSettled,
      Finish
<1>9. CASE EvaluateContext
  <2>1. /\ pc = "turnStarted" /\ UNCHANGED <<runs, state, env>>
        /\ \/ /\ pc' = "pressure"
              /\ \/ comp' = NoCompaction
                 \/ \E cut \in CutPoints(state.messages) :
                      comp' = [NoCompaction EXCEPT !.base = state.messages,
                                                   !.cut = cut]
           \/ pc' \in {"streaming", "closing"}
    BY <1>9 DEF EvaluateContext, BeginRequest, AwaitStream
  <2>2. \/ comp'.cut = NoPlan
        \/ comp'.base = state.messages /\ comp'.cut \in CutPoints(state.messages)
        \/ pc' \in {"streaming", "closing"}
    <3>1. CASE comp' = NoCompaction
      BY <3>1 DEF NoCompaction
    <3>2. CASE \E cut \in CutPoints(state.messages) :
                 comp' = [NoCompaction EXCEPT !.base = state.messages, !.cut = cut]
      <4>1. PICK cut \in CutPoints(state.messages) :
              comp' = [NoCompaction EXCEPT !.base = state.messages, !.cut = cut]
        BY <3>2
      <4>2. comp'.base = state.messages /\ comp'.cut = cut
        BY <4>1 DEF NoCompaction
      <4> QED
        BY <4>2
    <3> QED
      BY <2>1, <3>1, <3>2
  <2> QED
    BY <2>1, <2>2 DEF HistoryInv
<1>10. CASE ContextEvaluated
  BY <1>a, <1>b, <1>10
  DEF HistoryInv, AgentStates, Turns, Compactions, Environments,
      ContextEvaluated, BeginRequest, AwaitStream, StartCompaction
<1>11. CASE ContextRebuilt
  BY <1>a, <1>b, <1>11
  DEF HistoryInv, AgentStates, Turns, Compactions, Environments, ContextRebuilt,
      BeginRequest, AwaitStream
<1>12. CASE DeltaDelivered
  BY <1>a, <1>b, <1>12
  DEF HistoryInv, AgentStates, Turns, Compactions, Environments, DeltaDelivered,
      AwaitStream
<1>13. CASE StreamInterrupted
  BY <1>a, <1>b, <1>13
  DEF HistoryInv, AgentStates, Turns, Compactions, Environments,
      StreamInterrupted
<1>14. CASE AcceptResponse
  <2> DEFINE message == Assistant(runs, turn.step, Len(turn.calls))
  <2>1. /\ pc = "closing" /\ pc' = "message"
        /\ UNCHANGED <<runs, turn, env>>
        /\ state'.messages = Append(state.messages, message)
    BY <1>a, <1>14 DEF AcceptResponse, AgentStates
  <2>2. message \in Messages /\ message.role = "assistant" /\ message.run = runs
    <3>1. turn.step \in 0..MaxSteps /\ Len(turn.calls) \in Nat
      BY <1>a, TurnUpdates, CallsOf
    <3>2. turn.step \in Nat
      BY <3>1, Bounds
    <3> QED
      <4>1. message \in Messages
        BY <1>b, <3>1, <3>2, MessageTypes
      <4> QED
        BY <4>1 DEF Assistant, NewMessage
  <2> HIDE DEF message
  <2>3. /\ state'.messages \in Histories
        /\ Len(state'.messages) = Len(state.messages) + 1
        /\ \A p \in 1..Len(state.messages) : state'.messages[p] = state.messages[p]
        /\ state'.messages[Len(state.messages) + 1] = message
    BY <1>b, <2>1, <2>2, AppendProperties DEF Histories
  <2>4. ASSUME env.resets = 0
        PROVE  /\ Paired(state'.messages)
               /\ \A p \in 1..Len(state'.messages) : state'.messages[p].run <= runs
               /\ Settled(state'.messages, runs, Len(state.messages))
    <3>1. /\ Paired(state.messages)
          /\ \A p \in 1..Len(state.messages) : state.messages[p].run <= runs
          /\ Settled(state.messages, runs, Len(state.messages))
      BY <2>1, <2>4 DEF HistoryInv
    <3>2. Paired(state'.messages)
      BY <1>b, <2>1, <2>2, <3>1, PairedAppend
    <3>3. Settled(state'.messages, runs, Len(state.messages))
      <4>1. /\ Len(state.messages) \in 0..Len(state.messages)
            /\ Len(state.messages) <= Len(state'.messages)
        BY <1>b, <2>3
      <4> QED
        BY <1>b, <2>3, <3>1, <4>1, SettledStays
    <3>4. \A p \in 1..Len(state'.messages) :
            p \in 1..Len(state.messages) \/ state'.messages[p] = message
      BY <1>b, <2>3
    <3> QED
      <4>1. \A p \in 1..Len(state'.messages) : state'.messages[p].run <= runs
        <5> SUFFICES ASSUME NEW p \in 1..Len(state'.messages)
                     PROVE  state'.messages[p].run <= runs
          OBVIOUS
        <5>1. CASE p \in 1..Len(state.messages)
          BY <2>3, <3>1, <5>1
        <5>2. CASE state'.messages[p] = message
          BY <1>b, <2>2, <5>2
        <5> QED
          BY <3>4, <5>1, <5>2
      <4> QED
        BY <3>2, <3>3, <4>1
  <2>5. Len(state'.messages) > 0 /\ Len(state'.messages) - 1 = Len(state.messages)
    BY <1>b, <2>3
  <2> QED
    BY <2>1, <2>3, <2>4, <2>5 DEF HistoryInv, message
<1>15. CASE RecoverFromOverflow
  BY <1>a, <1>b, <1>15
  DEF HistoryInv, AgentStates, Turns, Compactions, Environments,
      RecoverFromOverflow, StartCompaction
<1>16. CASE RequestFails
  BY <1>a, <1>b, <1>16
  DEF HistoryInv, AgentStates, Turns, Compactions, Environments, RequestFails,
      EndTurn
<1>17. CASE RunCompactor
  BY <1>a, <1>b, <1>17
  DEF HistoryInv, AgentStates, Turns, Compactions, Environments, RunCompactor,
      FailCompaction
<1>18. CASE CompactorInterrupted
  BY <1>a, <1>b, <1>18
  DEF HistoryInv, AgentStates, Turns, Compactions, Environments,
      CompactorInterrupted, FailCompaction
<1>19. CASE RebuildContext
  BY <1>a, <1>b, <1>19
  DEF HistoryInv, AgentStates, Turns, Compactions, Environments, RebuildContext
<1>20. CASE CompactionSkipped
  BY <1>a, <1>b, <1>20
  DEF HistoryInv, AgentStates, Turns, Compactions, Environments,
      CompactionSkipped, EndTurn, BeginRequest, AwaitStream
<1>21. CASE CompactionFailed
  <2>1. /\ pc = "compFailed" /\ pc' = "turnCompleted" /\ pend' # "none"
        /\ turn'.outcome # "cancelled" /\ UNCHANGED <<runs, state, env>>
    BY <1>21 DEF CompactionFailed, EndTurn, ControlInv, SessionInv
  <2> QED
    BY <2>1 DEF HistoryInv
<1>22. CASE TextResponse
  <2> DEFINE n == Len(state.messages)
  <2>1. /\ pc = "message" /\ pc' = "turnCompleted" /\ UNCHANGED <<runs, turn, env>>
        /\ state'.messages = state.messages /\ turn.calls = <<>>
        /\ turn.outcome # "cancelled"
    BY <1>a, <1>22 DEF TextResponse, EndTurn, SessionInv, AgentStates
  <2>2. env.resets = 0 => Settled(state.messages, runs, n)
    <3> SUFFICES ASSUME env.resets = 0, NEW p \in 1..n,
                        state.messages[p].role = "assistant",
                        state.messages[p].run = runs
                 PROVE  Answered(state.messages, p)
      BY DEF Settled
    <3>1. /\ state.messages[n] = Assistant(runs, turn.step, Len(turn.calls))
          /\ Settled(state.messages, runs, n - 1)
      BY <2>1 DEF HistoryInv
    <3>2. CASE p = n
      <4>1. state.messages[p].call = 0
        BY <2>1, <3>1, <3>2, NewMessages
      <4> QED
        BY <4>1 DEF Answered
    <3>3. CASE p # n
      <4>1. p \in 1..(n - 1)
        BY <1>b, <3>3
      <4> QED
        BY <3>1, <4>1 DEF Settled
    <3> QED
      BY <3>2, <3>3
  <2> QED
    BY <2>1, <2>2 DEF HistoryInv
<1>23. CASE ResponseAborted
  <2>1. /\ pc = "message" /\ pc' = "turnCompleted" /\ pend' # "none"
        /\ turn'.outcome # "cancelled" /\ UNCHANGED <<runs, state, env>>
    BY <1>23 DEF ResponseAborted, EndTurn, SessionInv
  <2> QED
    BY <2>1 DEF HistoryInv
<1>24. CASE FirstCall
  BY <1>a, <1>b, <1>24
  DEF HistoryInv, AgentStates, Turns, Compactions, Environments, FirstCall,
      StartCall
<1>25. CASE RejectRepeatedCall
  BY <1>a, <1>b, <1>25
  DEF HistoryInv, AgentStates, Turns, Compactions, Environments,
      RejectRepeatedCall, CompleteCall
<1>26. CASE DispatchCall
  BY <1>a, <1>b, <1>26
  DEF HistoryInv, AgentStates, Turns, Compactions, Environments, DispatchCall,
      CompleteCall
<1>27. CASE HandlerInterrupted
  BY <1>a, <1>b, <1>27
  DEF HistoryInv, AgentStates, Turns, Compactions, Environments,
      HandlerInterrupted, CompleteCall
<1>28. CASE NextCall
  BY <1>a, <1>b, <1>28
  DEF HistoryInv, AgentStates, Turns, Compactions, Environments, NextCall,
      StartCall
<1>29. CASE SkipCall
  BY <1>a, <1>b, <1>29
  DEF HistoryInv, AgentStates, Turns, Compactions, Environments, SkipCall,
      StartCall
<1>30. CASE CallSkipped
  BY <1>a, <1>b, <1>30
  DEF HistoryInv, AgentStates, Turns, Compactions, Environments, CallSkipped,
      CompleteCall
<1>31. CASE EndBatch
  <2> DEFINE k == Len(turn.calls)
  <2>1. /\ pc = "toolCompleted" /\ pc' = "turnCompleted"
        /\ UNCHANGED <<runs, turn, env>> /\ turn.outcome # "repeated"
        /\ state'.messages = state.messages \o turn.results
        /\ turn.outcome \in {"continue", "cancelled"} => turn.idx = k
        /\ pend' = BatchReason(turn.outcome)
    BY <1>a, <1>31 DEF EndBatch, EndTurn, BatchOver, AgentStates
  <2>2. pend' = "none" => turn.outcome = "continue"
    <3>1. turn.outcome \in Outcomes
      BY <1>a, TurnUpdates
    <3> QED
      BY <2>1, <3>1 DEF BatchReason, Outcomes
  <2>3. /\ Len(turn.results) = turn.idx /\ turn.idx \in 1..k /\ k \in Nat
        /\ turn.step \in Nat
        /\ \A i \in 1..Len(turn.results) :
             turn.results[i] = ToolResult(runs, turn.step, i)
    <3>1. /\ Len(turn.results) = turn.idx /\ turn.idx \in 1..k
          /\ \A i \in 1..Len(turn.results) :
               turn.results[i] = ToolResult(runs, turn.step, i)
      BY <2>1 DEF ResultsInv, ControlInv
    <3>2. k \in Nat /\ turn.step \in 0..MaxSteps
      BY <1>a, TurnUpdates, CallsOf
    <3> QED
      BY <3>1, <3>2, Bounds
  <2> HIDE DEF k
  <2>4. ASSUME env.resets = 0
        PROVE  /\ Paired(state'.messages)
               /\ \A p \in 1..Len(state'.messages) : state'.messages[p].run <= runs
               /\ turn.idx = k =>
                    Settled(state'.messages, runs, Len(state'.messages))
    <3>1. /\ Paired(state.messages) /\ Len(state.messages) > 0
          /\ \A p \in 1..Len(state.messages) : state.messages[p].run <= runs
          /\ state.messages[Len(state.messages)] = Assistant(runs, turn.step, k)
          /\ Settled(state.messages, runs, Len(state.messages) - 1)
      BY <2>1, <2>4 DEF HistoryInv, k
    <3>2. Len(turn.results) <= k /\ Len(turn.results) \in Nat
      BY <2>3
    <3>3. /\ Paired(state'.messages)
          /\ turn.idx = k => Settled(state'.messages, runs, Len(state'.messages))
      <4>1. LET ms == state.messages
                rs == turn.results
            IN  /\ ms \in Histories /\ rs \in Histories /\ Len(ms) > 0
                /\ ms[Len(ms)] = Assistant(runs, turn.step, k)
                /\ Len(rs) <= k
                /\ \A i \in 1..Len(rs) : rs[i] = ToolResult(runs, turn.step, i)
                /\ Paired(ms) /\ Settled(ms, runs, Len(ms) - 1)
        BY <1>b, <2>3, <3>1, <3>2
      <4>2. runs \in Nat /\ turn.step \in Nat /\ k \in Nat
        BY <1>b, <2>3
      <4>3. /\ Paired(state.messages \o turn.results)
            /\ Len(turn.results) = k =>
                 Settled(state.messages \o turn.results, runs,
                         Len(state.messages \o turn.results))
        BY ONLY <4>1, <4>2, ResultsJoin
      <4> QED
        BY <2>1, <2>3, <4>3
    <3>4. \A p \in 1..Len(state'.messages) :
            \/ /\ p \in 1..Len(state.messages)
               /\ state'.messages[p] = state.messages[p]
            \/ /\ p - Len(state.messages) \in 1..Len(turn.results)
               /\ state'.messages[p] = turn.results[p - Len(state.messages)]
      <4>1. LET longer == state.messages \o turn.results
            IN  /\ Len(longer) = Len(state.messages) + Len(turn.results)
                /\ \A p \in 1..(Len(state.messages) + Len(turn.results)) :
                     longer[p] = IF p <= Len(state.messages)
                                 THEN state.messages[p]
                                 ELSE turn.results[p - Len(state.messages)]
        BY <1>b, ConcatProperties DEF Histories
      <4> SUFFICES ASSUME NEW p \in 1..Len(state'.messages)
                   PROVE  \/ /\ p \in 1..Len(state.messages)
                             /\ state'.messages[p] = state.messages[p]
                          \/ /\ p - Len(state.messages) \in 1..Len(turn.results)
                             /\ state'.messages[p]
                                  = turn.results[p - Len(state.messages)]
        OBVIOUS
      <4>2. p \in 1..(Len(state.messages) + Len(turn.results))
        BY <2>1, <4>1
      <4>3. \/ p \in 1..Len(state.messages)
            \/ ~(p <= Len(state.messages))
               /\ p - Len(state.messages) \in 1..Len(turn.results)
        <5>1. Len(state.messages) \in Nat /\ Len(turn.results) \in Nat
          BY <1>b, <3>2
        <5> QED
          BY ONLY <4>2, <5>1, Positions
      <4> QED
        BY <1>b, <2>1, <4>1, <4>2, <4>3
    <3>5. \A p \in 1..Len(state'.messages) :
            \/ /\ p \in 1..Len(state.messages)
               /\ state'.messages[p] = state.messages[p]
            \/ state'.messages[p].run = runs
      <4> SUFFICES ASSUME NEW p \in 1..Len(state'.messages),
                          NEW i \in 1..Len(turn.results),
                          state'.messages[p] = turn.results[i]
                   PROVE  state'.messages[p].run = runs
        BY <3>4
      <4>1. state'.messages[p] = ToolResult(runs, turn.step, i)
        BY <2>3
      <4> QED
        BY <4>1, NewMessages
    <3> QED
      BY <1>b, <3>1, <3>3, <3>5, SMTT(60)
  <2> QED
    BY <2>1, <2>2, <2>3, <2>4 DEF HistoryInv
<1>32. CASE RepeatedCallEndsTurn
  BY <1>a, <1>b, <1>32
  DEF HistoryInv, AgentStates, Turns, Compactions, Environments,
      RepeatedCallEndsTurn, EndTurn
<1>33. CASE TaskPrepared
  BY <1>a, <1>b, <1>33
  DEF HistoryInv, AgentStates, Turns, Compactions, Environments, TaskPrepared
<1>34. CASE PrepareFails
  BY <1>a, <1>b, <1>34
  DEF HistoryInv, AgentStates, Turns, Compactions, Environments, PrepareFails,
      Finish
<1>35. CASE ReceiveDelta
  BY <1>a, <1>b, <1>35
  DEF HistoryInv, AgentStates, Turns, Compactions, Environments, ReceiveDelta
<1>36. CASE ReceiveResponse
  BY <1>a, <1>b, <1>36
  DEF HistoryInv, AgentStates, Turns, Compactions, Environments, ReceiveResponse
<1>37. CASE StreamOverflows
  BY <1>a, <1>b, <1>37
  DEF HistoryInv, AgentStates, Turns, Compactions, Environments, StreamOverflows
<1>38. CASE StreamFails
  BY <1>a, <1>b, <1>38
  DEF HistoryInv, AgentStates, Turns, Compactions, Environments, StreamFails
<1>39. CASE CommitCompaction
  <2>1. /\ pc = "compacting" /\ pc' = "compDone"
        /\ UNCHANGED <<runs, turn, env, comp>>
        /\ state'.messages = Compacted(comp.base, comp.cut)
    BY <1>a, <1>39 DEF CommitCompaction, AgentStates
  <2>2. CanCompact(comp.base, comp.cut) /\ comp.cut \in Nat /\ comp.cut # NoPlan
    <3>1. CanCompact(comp.base, comp.cut) /\ comp.cut \in Nat
          /\ comp.base \in Histories
      BY <1>a, <2>1, CompactionFields DEF ControlInv
    <3>2. HistoryStart(comp.base) \in {1, 2}
      BY <3>1, CutRange DEF Histories
    <3> QED
      BY <3>1, <3>2 DEF CanCompact, NoPlan
  <2>3. ASSUME env.resets = 0
        PROVE  /\ Paired(state'.messages)
               /\ \A p \in 1..Len(state'.messages) : state'.messages[p].run <= runs
               /\ Settled(state'.messages, runs, Len(state'.messages))
    <3>1. /\ comp.base = state.messages /\ comp.cut \in CutPoints(state.messages)
          /\ Paired(state.messages)
          /\ \A p \in 1..Len(state.messages) : state.messages[p].run <= runs
          /\ Settled(state.messages, runs, Len(state.messages))
      BY <2>1, <2>2, <2>3 DEF HistoryInv
    <3> QED
      BY <1>b, <2>1, <2>2, <3>1, CutKeepsPairs
  <2> QED
    BY <2>1, <2>3 DEF HistoryInv
<1>40. CASE CompactorFails
  BY <1>a, <1>b, <1>40
  DEF HistoryInv, AgentStates, Turns, Compactions, Environments, CompactorFails,
      FailCompaction
<1>41. CASE HandlerReturns
  BY <1>a, <1>b, <1>41
  DEF HistoryInv, AgentStates, Turns, Compactions, Environments, HandlerReturns,
      CompleteCall
<1>42. CASE Abort
  BY <1>a, <1>b, <1>42
  DEF HistoryInv, AgentStates, Turns, Compactions, Environments, Abort
<1>43. CASE CancelCaller
  BY <1>a, <1>b, <1>43, SMTT(60)
  DEF HistoryInv, AgentStates, Turns, Compactions, Environments, CancelCaller,
      Finish, EndTurn, FailCompaction
<1>44. CASE Reset
  BY <1>a, <1>b, <1>44
  DEF HistoryInv, AgentStates, Turns, Compactions, Environments, Reset
<1>45. CASE UNCHANGED vars
  BY <1>a, <1>b, <1>45
  DEF HistoryInv, AgentStates, Turns, Compactions, Environments, vars
<1> QED
  BY <1>1, <1>2, <1>3, <1>4, <1>5, <1>6, <1>7, <1>8, <1>9, <1>10, <1>11,
     <1>12, <1>13, <1>14, <1>15, <1>16, <1>17, <1>18, <1>19, <1>20, <1>21,
     <1>22, <1>23, <1>24, <1>25, <1>26, <1>27, <1>28, <1>29, <1>30, <1>31,
     <1>32, <1>33, <1>34, <1>35, <1>36, <1>37, <1>38, <1>39, <1>40, <1>41,
     <1>42, <1>43, <1>44, <1>45
  DEF Next, RunStep, WorkStep

-----------------------------------------------------------------------------
(* What a step leaves alone.                                               *)

\* A step that neither adds to the history nor replaces it, and stays within
\* its turn.
Quiet ==
    /\ state'.messages = state.messages /\ runs' = runs /\ turn'.step = turn.step
    /\ env'.resets = env.resets /\ env'.forgotten = env.forgotten
    /\ pc' # "idle" => pc # "idle"
    /\ pc' \in BeforeResponse => pc \in BeforeResponse
    /\ pc' \in Answering => pc \in Answering
    /\ \/ EvaluateContext \/ ContextEvaluated
       \/ RecoverFromOverflow \/ RebuildContext
       \/ /\ comp' = comp
          /\ pc' \in {"pressure", "compStarted", "compacting"} =>
                pc' = pc \/ (pc = "compStarted" /\ pc' = "compacting")

\* Only six actions are not quiet.
LEMMA QuietStep ==
    ASSUME TypeOK, [Next]_vars, ~BeginRun, ~StartTurn, ~AcceptResponse, ~EndBatch,
           ~CommitCompaction, ~Reset
    PROVE  Quiet
<1> USE DEF Answering, BeforeResponse, BeforeRequest, InTurn, InCompaction,
        CompactionAwaits, StreamAwaits, TurnAwaits, BatchAwaits, OuterAwaits
<1>a. state \in AgentStates /\ turn \in Turns /\ env \in Environments
  BY DEF TypeOK
<1>1. CASE EndRun
  BY <1>a, <1>1
  DEF Quiet, AgentStates, Turns, Environments, EndRun
<1>2. CASE PrepareTask
  BY <1>a, <1>2
  DEF Quiet, AgentStates, Turns, Environments, PrepareTask, Finish
<1>3. CASE PrepareInterrupted
  BY <1>a, <1>3
  DEF Quiet, AgentStates, Turns, Environments, PrepareInterrupted, Finish
<1>4. CASE StepsExhausted
  BY <1>a, <1>4
  DEF Quiet, AgentStates, Turns, Environments, StepsExhausted, Finish
<1>5. CASE StopBeforeTurn
  BY <1>a, <1>5
  DEF Quiet, AgentStates, Turns, Environments, StopBeforeTurn, Finish
<1>6. CASE TurnSettled
  BY <1>a, <1>6
  DEF Quiet, AgentStates, Turns, Environments, TurnSettled, Finish
<1>7. CASE EvaluateContext
  BY <1>a, <1>7
  DEF Quiet, AgentStates, Turns, Environments, EvaluateContext, BeginRequest,
      AwaitStream
<1>8. CASE ContextEvaluated
  BY <1>a, <1>8
  DEF Quiet, AgentStates, Turns, Environments, ContextEvaluated, BeginRequest,
      AwaitStream, StartCompaction
<1>9. CASE ContextRebuilt
  BY <1>a, <1>9
  DEF Quiet, AgentStates, Turns, Environments, ContextRebuilt, BeginRequest,
      AwaitStream
<1>10. CASE DeltaDelivered
  BY <1>a, <1>10
  DEF Quiet, AgentStates, Turns, Environments, DeltaDelivered, AwaitStream
<1>11. CASE StreamInterrupted
  BY <1>a, <1>11
  DEF Quiet, AgentStates, Turns, Environments, StreamInterrupted
<1>12. CASE RecoverFromOverflow
  BY <1>a, <1>12
  DEF Quiet, AgentStates, Turns, Environments, RecoverFromOverflow,
      StartCompaction
<1>13. CASE RequestFails
  BY <1>a, <1>13
  DEF Quiet, AgentStates, Turns, Environments, RequestFails, EndTurn
<1>14. CASE RunCompactor
  BY <1>a, <1>14
  DEF Quiet, AgentStates, Turns, Environments, RunCompactor, FailCompaction
<1>15. CASE CompactorInterrupted
  BY <1>a, <1>15
  DEF Quiet, AgentStates, Turns, Environments, CompactorInterrupted,
      FailCompaction
<1>16. CASE RebuildContext
  BY <1>a, <1>16
  DEF Quiet, AgentStates, Turns, Environments, RebuildContext
<1>17. CASE CompactionSkipped
  BY <1>a, <1>17
  DEF Quiet, AgentStates, Turns, Environments, CompactionSkipped, EndTurn,
      BeginRequest, AwaitStream
<1>18. CASE CompactionFailed
  BY <1>a, <1>18
  DEF Quiet, AgentStates, Turns, Environments, CompactionFailed, EndTurn
<1>19. CASE TextResponse
  BY <1>a, <1>19
  DEF Quiet, AgentStates, Turns, Environments, TextResponse, EndTurn
<1>20. CASE ResponseAborted
  BY <1>a, <1>20
  DEF Quiet, AgentStates, Turns, Environments, ResponseAborted, EndTurn
<1>21. CASE FirstCall
  BY <1>a, <1>21
  DEF Quiet, AgentStates, Turns, Environments, FirstCall, StartCall
<1>22. CASE RejectRepeatedCall
  BY <1>a, <1>22
  DEF Quiet, AgentStates, Turns, Environments, RejectRepeatedCall, CompleteCall
<1>23. CASE DispatchCall
  BY <1>a, <1>23
  DEF Quiet, AgentStates, Turns, Environments, DispatchCall, CompleteCall
<1>24. CASE HandlerInterrupted
  BY <1>a, <1>24
  DEF Quiet, AgentStates, Turns, Environments, HandlerInterrupted, CompleteCall
<1>25. CASE NextCall
  BY <1>a, <1>25
  DEF Quiet, AgentStates, Turns, Environments, NextCall, StartCall
<1>26. CASE SkipCall
  BY <1>a, <1>26
  DEF Quiet, AgentStates, Turns, Environments, SkipCall, StartCall
<1>27. CASE CallSkipped
  BY <1>a, <1>27
  DEF Quiet, AgentStates, Turns, Environments, CallSkipped, CompleteCall
<1>28. CASE RepeatedCallEndsTurn
  BY <1>a, <1>28
  DEF Quiet, AgentStates, Turns, Environments, RepeatedCallEndsTurn, EndTurn
<1>29. CASE TaskPrepared
  BY <1>a, <1>29
  DEF Quiet, AgentStates, Turns, Environments, TaskPrepared
<1>30. CASE PrepareFails
  BY <1>a, <1>30
  DEF Quiet, AgentStates, Turns, Environments, PrepareFails, Finish
<1>31. CASE ReceiveDelta
  BY <1>a, <1>31
  DEF Quiet, AgentStates, Turns, Environments, ReceiveDelta
<1>32. CASE ReceiveResponse
  BY <1>a, <1>32
  DEF Quiet, AgentStates, Turns, Environments, ReceiveResponse
<1>33. CASE StreamOverflows
  BY <1>a, <1>33
  DEF Quiet, AgentStates, Turns, Environments, StreamOverflows
<1>34. CASE StreamFails
  BY <1>a, <1>34
  DEF Quiet, AgentStates, Turns, Environments, StreamFails
<1>35. CASE CompactorFails
  BY <1>a, <1>35
  DEF Quiet, AgentStates, Turns, Environments, CompactorFails, FailCompaction
<1>36. CASE HandlerReturns
  BY <1>a, <1>36
  DEF Quiet, AgentStates, Turns, Environments, HandlerReturns, CompleteCall
<1>37. CASE Abort
  BY <1>a, <1>37
  DEF Quiet, AgentStates, Turns, Environments, Abort
<1>38. CASE CancelCaller
  BY <1>a, <1>38
  DEF Quiet, AgentStates, Turns, Environments, CancelCaller, Finish, EndTurn,
      FailCompaction
<1>39. CASE UNCHANGED vars
  BY <1>a, <1>39 DEF Quiet, vars
<1> QED
  BY <1>1, <1>2, <1>3, <1>4, <1>5, <1>6, <1>7, <1>8, <1>9, <1>10, <1>11, <1>12,
     <1>13, <1>14, <1>15, <1>16, <1>17, <1>18, <1>19, <1>20, <1>21, <1>22,
     <1>23, <1>24, <1>25, <1>26, <1>27, <1>28, <1>29, <1>30, <1>31, <1>32,
     <1>33, <1>34, <1>35, <1>36, <1>37, <1>38, <1>39
  DEF Next, RunStep, WorkStep

-----------------------------------------------------------------------------
(* The messages of a run, behind the last user message.                    *)

\* The parts of a joined history, at their positions.
LEMMA JoinedHistory ==
    ASSUME NEW ms \in Histories, NEW rs \in Histories
    PROVE  /\ ms \o rs \in Histories /\ Len(ms \o rs) = Len(ms) + Len(rs)
           /\ Len(ms) \in Nat /\ Len(rs) \in Nat
           /\ \A i \in 1..Len(ms) : (ms \o rs)[i] = ms[i]
           /\ \A i \in 1..Len(rs) : (ms \o rs)[Len(ms) + i] = rs[i]
           /\ \A p \in 1..Len(ms \o rs) :
                p \in 1..Len(ms) \/ \E i \in 1..Len(rs) : p = Len(ms) + i
<1> DEFINE longer == ms \o rs
<1>1. Len(ms) \in Nat /\ Len(rs) \in Nat
  BY MessageFields
<1>2. /\ longer \in Histories /\ Len(longer) = Len(ms) + Len(rs)
      /\ \A i \in 1..(Len(ms) + Len(rs)) :
           longer[i] = IF i <= Len(ms) THEN ms[i] ELSE rs[i - Len(ms)]
  BY ConcatProperties DEF Histories
<1> HIDE DEF longer
<1>3. \A i \in 1..Len(ms) : longer[i] = ms[i]
  BY <1>1, <1>2
<1>4. ASSUME NEW i \in 1..Len(rs) PROVE longer[Len(ms) + i] = rs[i]
  <2>1. /\ Len(ms) + i \in 1..(Len(ms) + Len(rs)) /\ ~(Len(ms) + i <= Len(ms))
        /\ (Len(ms) + i) - Len(ms) = i
    BY <1>1
  <2> QED
    BY <1>2, <2>1
<1>5. ASSUME NEW p \in 1..Len(longer)
      PROVE  p \in 1..Len(ms) \/ \E i \in 1..Len(rs) : p = Len(ms) + i
  <2>1. p \in 1..Len(ms) \/ p - Len(ms) \in 1..Len(rs)
    BY <1>1, <1>2
  <2>2. p = Len(ms) + (p - Len(ms))
    BY <1>1, <1>2
  <2> QED
    BY <2>1, <2>2
<1> QED
  BY <1>1, <1>2, <1>3, <1>4, <1>5 DEF longer

\* A message added is a history of one joined to the first.
LEMMA AppendedHistory ==
    ASSUME NEW ms \in Histories, NEW m \in Messages
    PROVE  /\ Append(ms, m) = ms \o <<m>> /\ <<m>> \in Histories
           /\ Len(<<m>>) = 1 /\ <<m>>[1] = m
<1>1. ms \in Seq(Messages)
  BY DEF Histories
<1>2. <<m>> \in Seq(Messages) /\ Len(<<m>>) = 1 /\ <<m>>[1] = m
  OBVIOUS
<1>3. Append(ms, m) = ms \o <<m>>
  BY <1>1, AppendIsConcat
<1> QED
  BY <1>2, <1>3 DEF Histories

\* Messages of the run that are not the user's go behind its others.
LEMMA BehindJoin ==
    ASSUME NEW ms \in Histories, NEW rs \in Histories, NEW r \in Nat,
           Behind(ms, r),
           \A i \in 1..Len(rs) : rs[i].run = r /\ rs[i].role # "user"
    PROVE  Behind(ms \o rs, r)
<1> PICK longer : longer = ms \o rs
  OBVIOUS
<1>1. /\ Len(longer) = Len(ms) + Len(rs) /\ Len(ms) \in Nat /\ Len(rs) \in Nat
      /\ \A i \in 1..Len(ms) : longer[i] = ms[i]
      /\ \A i \in 1..Len(rs) : longer[Len(ms) + i] = rs[i]
      /\ \A p \in 1..Len(longer) :
           p \in 1..Len(ms) \/ \E i \in 1..Len(rs) : p = Len(ms) + i
  BY JoinedHistory
<1>2. ASSUME NEW p \in 1..Len(longer)
      PROVE  \/ p \in 1..Len(ms) /\ longer[p] = ms[p]
             \/ p > Len(ms) /\ longer[p].run = r /\ longer[p].role # "user"
  <2>1. CASE p \in 1..Len(ms)
    BY <1>1, <2>1
  <2>2. ASSUME NEW i \in 1..Len(rs), p = Len(ms) + i
        PROVE  p > Len(ms) /\ longer[p].run = r /\ longer[p].role # "user"
    <3>1. longer[p] = rs[i] /\ p > Len(ms)
      BY <1>1, <2>2
    <3> QED
      BY <3>1
  <2> QED
    BY <1>1, <2>1, <2>2
<1>3. ASSUME NEW p \in 1..Len(longer) PROVE longer[p].run <= r
  BY <1>2 DEF Behind
<1>4. ASSUME NEW p \in 1..Len(longer), longer[p].run = r, r > 0,
             NEW q \in (p + 1)..Len(longer)
      PROVE  longer[q].role # "user"
  <2>1. q \in 1..Len(longer) /\ q > p
    BY <1>1
  <2>2. CASE q \in 1..Len(ms) /\ longer[q] = ms[q]
    <3>1. p \in 1..Len(ms) /\ q \in (p + 1)..Len(ms)
      BY <1>1, <2>1, <2>2
    <3>2. longer[p] = ms[p]
      BY <1>1, <3>1
    <3> QED
      BY <1>4, <2>2, <3>1, <3>2 DEF Behind
  <2> QED
    BY <1>2, <2>1, <2>2
<1> QED
  BY <1>3, <1>4 DEF Behind

\* A new run begins behind all earlier ones.
LEMMA BehindNext ==
    ASSUME NEW ms \in Histories, NEW r \in Nat, Behind(ms, r)
    PROVE  Behind(Append(ms, User(r + 1)), r + 1)
<1> DEFINE m == User(r + 1)
<1>1. m \in Messages /\ m.run = r + 1
  <2>1. r + 1 \in Nat
    OBVIOUS
  <2> QED
    BY <2>1, MessageTypes, NewMessages
<1> HIDE DEF m
<1> PICK longer : longer = Append(ms, m)
  OBVIOUS
<1>2. /\ Len(longer) = Len(ms) + 1 /\ Len(ms) \in Nat
      /\ \A i \in 1..Len(ms) : longer[i] = ms[i]
      /\ longer[Len(ms) + 1] = m
      /\ \A i \in 1..Len(ms) : ms[i].run \in Nat
  BY <1>1, AppendProperties, MessageFields DEF Histories
<1>3. ASSUME NEW p \in 1..Len(longer)
      PROVE  /\ longer[p].run <= r + 1
             /\ longer[p].run = r + 1 => p = Len(ms) + 1
  <2>1. CASE p = Len(ms) + 1
    BY <1>1, <1>2, <2>1
  <2>2. CASE p \in 1..Len(ms)
    <3>1. longer[p].run <= r /\ longer[p].run \in Nat
      BY <1>2, <2>2 DEF Behind
    <3> QED
      BY <3>1
  <2> QED
    BY <1>2, <2>1, <2>2
<1> QED
  BY <1>2, <1>3 DEF Behind, m

\* A cut at a turn keeps the order, and drops nothing of a run that has begun.
LEMMA CutBehind ==
    ASSUME NEW ms \in Histories, NEW r \in Nat, Behind(ms, r),
           NEW cut \in CutPoints(ms), CanCompact(ms, cut)
    PROVE  /\ cut \in 1..Len(ms)
           /\ Behind(Compacted(ms, cut), r)
           /\ r > 0 => \A p \in 1..(cut - 1) : ms[p].run # r
<1>1. /\ cut \in 1..Len(ms) /\ ms[cut].role = "user" /\ Len(ms) \in Nat
  <2>1. cut # HistoryStart(ms) /\ Len(ms) \in Nat
    BY CutRange, MessageFields DEF CanCompact, Histories
  <2> QED
    BY <2>1, CutRange DEF Histories
<1> PICK shorter : shorter = Compacted(ms, cut)
  OBVIOUS
<1>2. /\ Len(shorter) = Len(ms) - cut + 2
      /\ shorter[1] = Summary
      /\ \A i \in 2..(Len(ms) - cut + 2) : shorter[i] = ms[cut + i - 2]
  <2>1. ms \in Seq(Messages) /\ cut \in Nat \ {0} /\ cut <= Len(ms)
    BY <1>1 DEF Histories
  <2> QED
    BY <2>1, CompactedShape
<1>3. ASSUME NEW p \in 1..Len(shorter)
      PROVE  \/ p = 1 /\ shorter[p].run = 0
             \/ cut + p - 2 \in 1..Len(ms) /\ shorter[p] = ms[cut + p - 2]
  BY <1>1, <1>2, NewMessages
<1>4. ASSUME NEW p \in 1..Len(shorter) PROVE shorter[p].run <= r
  BY <1>3 DEF Behind
<1>5. ASSUME NEW p \in 1..Len(shorter), shorter[p].run = r, r > 0,
             NEW q \in (p + 1)..Len(shorter)
      PROVE  shorter[q].role # "user"
  <2>1. cut + p - 2 \in 1..Len(ms) /\ shorter[p] = ms[cut + p - 2]
    BY <1>3, <1>5, SMTT(60)
  <2>2. /\ q \in 2..(Len(ms) - cut + 2)
        /\ cut + q - 2 \in ((cut + p - 2) + 1)..Len(ms)
    <3>1. /\ Len(ms) \in Nat /\ cut \in Nat /\ p \in Nat /\ q \in Nat
          /\ 1 <= p /\ p + 1 <= q /\ q <= Len(ms) - cut + 2
      BY <1>1, <1>2
    <3> QED
      BY ONLY <3>1
  <2>3. shorter[q] = ms[cut + q - 2]
    BY <1>2, <2>2
  <2> QED
    BY <1>5, <2>1, <2>2, <2>3 DEF Behind
<1>6. ASSUME r > 0, NEW p \in 1..(cut - 1) PROVE ms[p].run # r
  <2>1. p \in 1..Len(ms) /\ cut \in (p + 1)..Len(ms)
    BY <1>1
  <2> QED
    BY <1>1, <1>6, <2>1 DEF Behind
<1> QED
  BY <1>1, <1>4, <1>5, <1>6 DEF Behind

\* The snapshot and the plan stay those of this history.
LEMMA KeptStep ==
    ASSUME TypeOK, ControlInv, ResultsInv, KeptInv, [Next]_vars
    PROVE  KeptInv'
<1>a. /\ state \in AgentStates /\ turn \in Turns /\ comp \in Compactions
      /\ state.messages \in Histories /\ turn.results \in Histories
      /\ comp.base \in Histories /\ <<>> \in Histories /\ runs \in Nat
      /\ turn.step \in Nat /\ Len(turn.calls) \in Nat
  <2>1. /\ state \in AgentStates /\ turn \in Turns /\ comp \in Compactions
        /\ turn.step \in 0..MaxSteps /\ runs \in 0..MaxRuns
    BY TurnUpdates DEF TypeOK
  <2>2. runs \in Nat /\ turn.step \in Nat
    BY <2>1, Bounds
  <2>3. Len(turn.calls) \in Nat
    <3>1. turn.calls \in CallSeqs
      BY <2>1, TurnUpdates
    <3> QED
      BY <3>1, CallsOf
  <2>4. state.messages \in Histories /\ turn.results \in Histories
    BY <2>1, AgentStateUpdates, TurnUpdates
  <2>5. comp.base \in Histories /\ <<>> \in Histories
    BY <2>1, CompactionFields, EmptySeq DEF Histories
  <2> QED
    BY <2>1, <2>2, <2>3, <2>4, <2>5
<1>b. \A r \in Nat : Behind(<<>>, r)
  BY DEF Behind
<1>1. CASE BeginRun
  <2>1. /\ pc' = "started" /\ runs' = runs + 1 /\ comp' = NoCompaction
        /\ state'.messages = Append(state.messages, User(runs + 1))
    BY <1>a, <1>1 DEF BeginRun
  <2>2. comp'.base = <<>> /\ comp'.cut = NoPlan /\ runs + 1 \in Nat
    BY <1>a, <2>1 DEF NoCompaction
  <2>3. Behind(state'.messages, runs')
    BY <1>a, <2>1, BehindNext DEF KeptInv
  <2> QED
    BY <1>a, <1>b, <2>1, <2>2, <2>3 DEF KeptInv
<1>2. CASE StartTurn
  BY <1>a, <1>2 DEF StartTurn, KeptInv, AgentStates
<1>3. CASE AcceptResponse
  <2> DEFINE m == Assistant(runs, turn.step, Len(turn.calls))
  <2>1. /\ pc = "closing" /\ pc' = "message" /\ UNCHANGED <<runs, comp>>
        /\ state'.messages = Append(state.messages, m)
    BY <1>a, <1>3 DEF AcceptResponse, AgentStates
  <2>2. m \in Messages /\ m.run = runs /\ m.role # "user"
    <3>1. m \in Messages
      BY <1>a, MessageTypes
    <3> QED
      BY <3>1 DEF Assistant, NewMessage
  <2> HIDE DEF m
  <2>3. PICK one : one = <<m>>
    OBVIOUS
  <2>4. /\ state'.messages = state.messages \o one /\ one \in Histories
        /\ \A i \in 1..Len(one) : one[i].run = runs /\ one[i].role # "user"
    BY <1>a, <2>1, <2>2, <2>3, AppendedHistory, SMTT(60)
  <2>5. Behind(state'.messages, runs)
    BY <1>a, <2>4, BehindJoin DEF KeptInv
  <2> QED
    BY <2>1, <2>5 DEF KeptInv
<1>4. CASE EndBatch
  <2>1. /\ pc = "toolCompleted" /\ pc' = "turnCompleted" /\ UNCHANGED <<runs, comp>>
        /\ state'.messages = state.messages \o turn.results
    BY <1>a, <1>4 DEF EndBatch, EndTurn, AgentStates
  <2>2. \A i \in 1..Len(turn.results) :
          turn.results[i].run = runs /\ turn.results[i].role # "user"
    BY <2>1, NewMessages DEF ResultsInv, BatchAwaits
  <2>3. Behind(state'.messages, runs)
    BY <1>a, <2>1, <2>2, BehindJoin DEF KeptInv
  <2> QED
    BY <2>1, <2>3 DEF KeptInv
<1>5. CASE CommitCompaction
  <2>1. /\ pc = "compacting" /\ pc' = "compDone" /\ UNCHANGED <<runs, comp>>
        /\ state'.messages = Compacted(comp.base, comp.cut)
    BY <1>a, <1>5 DEF CommitCompaction, AgentStates
  <2>2. comp.cut \in CutPoints(comp.base) /\ CanCompact(comp.base, comp.cut)
    <3>1. CanCompact(comp.base, comp.cut)
      BY <2>1 DEF ControlInv
    <3>2. comp.cut # NoPlan
      BY <1>a, <3>1, CutRange DEF CanCompact, NoPlan, Histories
    <3> QED
      BY <3>1, <3>2 DEF KeptInv
  <2>3. Behind(state'.messages, runs)
    BY <1>a, <2>1, <2>2, CutBehind DEF KeptInv
  <2> QED
    BY <2>1, <2>3 DEF KeptInv
<1>6. CASE Reset
  <2>1. UNCHANGED <<pc, runs, comp>> /\ state'.messages = <<>>
    BY <1>6 DEF Reset
  <2> QED
    BY <1>a, <1>b, <2>1 DEF KeptInv
<1>7. CASE EvaluateContext
  <2>1. /\ pc = "turnStarted" /\ UNCHANGED <<runs, state>>
        /\ pc' \in {"pressure", "streaming", "closing"}
        /\ \/ comp' = NoCompaction
           \/ \E cut \in CutPoints(state.messages) :
                comp' = [NoCompaction EXCEPT !.base = state.messages, !.cut = cut]
           \/ pc' # "pressure" /\ comp' = comp
    BY <1>7 DEF EvaluateContext, BeginRequest, AwaitStream
  <2>2. \/ comp'.base = <<>> /\ comp'.cut = NoPlan
        \/ comp'.base = state.messages /\ comp'.cut \in CutPoints(state.messages)
        \/ pc' # "pressure" /\ comp' = comp
    <3>1. CASE comp' = NoCompaction
      BY <3>1 DEF NoCompaction
    <3>2. ASSUME NEW cut \in CutPoints(state.messages),
                 comp' = [NoCompaction EXCEPT !.base = state.messages, !.cut = cut]
          PROVE  comp'.base = state.messages /\ comp'.cut = cut
      BY <3>2 DEF NoCompaction
    <3> QED
      BY <2>1, <3>1, <3>2
  <2> QED
    BY <1>a, <1>b, <2>1, <2>2 DEF KeptInv
<1>8. CASE ContextEvaluated
  <2>1. /\ pc = "pressure" /\ UNCHANGED <<runs, state>>
        /\ pc' \in {"compStarted", "streaming", "closing"}
        /\ comp'.base = comp.base /\ comp'.cut = comp.cut
    BY <1>8 DEF ContextEvaluated, BeginRequest, AwaitStream, StartCompaction
  <2> QED
    BY <2>1 DEF KeptInv
<1>9. CASE RecoverFromOverflow
  <2>1. /\ pc = "closing" /\ pc' = "compStarted" /\ UNCHANGED <<runs, state>>
        /\ comp'.base = state.messages /\ comp'.cut \in CutPoints(state.messages)
    BY <1>9 DEF RecoverFromOverflow, StartCompaction
  <2> QED
    BY <2>1 DEF KeptInv
<1>10. CASE RebuildContext
  <2>1. /\ pc = "compDone" /\ pc' = "rebuilt" /\ UNCHANGED <<runs, state>>
        /\ comp'.base = <<>> /\ comp'.cut = NoPlan
    BY <1>10 DEF RebuildContext, NoCompaction
  <2> QED
    BY <1>a, <1>b, <2>1 DEF KeptInv
<1>11. CASE /\ Quiet /\ ~EvaluateContext /\ ~ContextEvaluated
            /\ ~RecoverFromOverflow /\ ~RebuildContext
  BY <1>11 DEF Quiet, KeptInv
<1> QED
  BY <1>1, <1>2, <1>3, <1>4, <1>5, <1>6, <1>7, <1>8, <1>9, <1>10, <1>11, QuietStep

-----------------------------------------------------------------------------
(* No message is produced twice.                                           *)

\* The messages of a joined history are those of its parts.
LEMMA JoinedRange ==
    ASSUME NEW ms \in Histories, NEW rs \in Histories
    PROVE  \A m \in Range(ms \o rs) :
             m \in Range(ms) \/ \E i \in 1..Len(rs) : m = rs[i]
<1> PICK longer : longer = ms \o rs
  OBVIOUS
<1>1. /\ longer \in Seq(Messages) /\ ms \in Seq(Messages)
      /\ \A i \in 1..Len(ms) : longer[i] = ms[i]
      /\ \A i \in 1..Len(rs) : longer[Len(ms) + i] = rs[i]
      /\ \A p \in 1..Len(longer) :
           p \in 1..Len(ms) \/ \E i \in 1..Len(rs) : p = Len(ms) + i
  BY JoinedHistory DEF Histories
<1>2. DOMAIN longer = 1..Len(longer) /\ DOMAIN ms = 1..Len(ms)
  BY <1>1, LenProperties
<1> QED
  <2> SUFFICES ASSUME NEW p \in 1..Len(longer)
               PROVE  longer[p] \in Range(ms) \/ \E i \in 1..Len(rs) : longer[p] = rs[i]
    BY <1>2 DEF Range
  <2>1. CASE p \in 1..Len(ms)
    BY <1>1, <1>2, <2>1 DEF Range
  <2>2. ASSUME NEW i \in 1..Len(rs), p = Len(ms) + i PROVE longer[p] = rs[i]
    BY <1>1, <2>2
  <2> QED
    BY <1>1, <2>1, <2>2

\* A compacted history holds the summary and messages of the old one.
LEMMA CutRangeOf ==
    ASSUME NEW ms \in Histories, NEW cut \in 1..Len(ms)
    PROVE  Range(Compacted(ms, cut)) \subseteq Range(ms) \cup {Summary}
<1> PICK shorter : shorter = Compacted(ms, cut)
  OBVIOUS
<1>1. cut \in Nat \ {0} /\ cut <= Len(ms) /\ Len(ms) \in Nat
      /\ ms \in Seq(Messages)
  BY MessageFields DEF Histories
<1>2. /\ shorter \in Seq(Messages) /\ Len(shorter) = Len(ms) - cut + 2
      /\ shorter[1] = Summary
      /\ \A i \in 2..(Len(ms) - cut + 2) : shorter[i] = ms[cut + i - 2]
  BY <1>1, CompactedShape
<1>3. DOMAIN shorter = 1..Len(shorter) /\ DOMAIN ms = 1..Len(ms)
  BY <1>1, <1>2, LenProperties
<1>4. ASSUME NEW p \in 1..Len(shorter)
      PROVE  shorter[p] = Summary \/ shorter[p] \in Range(ms)
  <2>1. CASE p = 1
    BY <1>2, <2>1
  <2>2. CASE p # 1
    <3>1. p \in 2..(Len(ms) - cut + 2) /\ cut + p - 2 \in 1..Len(ms)
      BY <1>1, <1>2, <2>2
    <3> QED
      BY <1>2, <1>3, <3>1 DEF Range
  <2> QED
    BY <2>1, <2>2
<1> QED
  BY <1>3, <1>4 DEF Range

\* The messages there are stay past, and what a step adds is new.
LEMMA FreshStep ==
    ASSUME TypeOK, ControlInv, ResultsInv, KeptInv, FreshInv, [Next]_vars
    PROVE  FreshInv'
<1> SUFFICES ASSUME ~AutoPressure PROVE FreshInv'
  BY DEF FreshInv
<1> USE DEF Answering, BeforeResponse, BeforeRequest, InTurn, InCompaction,
        CompactionAwaits, StreamAwaits, TurnAwaits, BatchAwaits
<1> DEFINE old == Range(state.messages) \cup env.forgotten
<1>a. /\ state \in AgentStates /\ turn \in Turns /\ comp \in Compactions
      /\ env \in Environments /\ env.forgotten \in SUBSET Messages
      /\ state.messages \in Histories /\ turn.results \in Histories
      /\ comp.base \in Histories /\ runs \in Nat
      /\ turn.step \in Nat /\ Len(turn.calls) \in Nat
  <2>1. /\ state \in AgentStates /\ turn \in Turns /\ comp \in Compactions
        /\ env \in Environments
        /\ turn.step \in 0..MaxSteps /\ runs \in 0..MaxRuns
    BY TurnUpdates DEF TypeOK
  <2>2. runs \in Nat /\ turn.step \in Nat
    BY <2>1, Bounds
  <2>3. Len(turn.calls) \in Nat
    <3>1. turn.calls \in CallSeqs
      BY <2>1, TurnUpdates
    <3> QED
      BY <3>1, CallsOf
  <2>4. state.messages \in Histories /\ turn.results \in Histories
    BY <2>1, AgentStateUpdates, TurnUpdates
  <2>5. comp.base \in Histories /\ env.forgotten \in SUBSET Messages
    BY <2>1, CompactionFields, EnvironmentUpdates
  <2> QED
    BY <2>1, <2>2, <2>3, <2>4, <2>5
<1>b. /\ \A m \in old : Past(m)
      /\ pc \in {"compStarted", "compacting"} => comp.before = comp.base
      /\ Range(state.messages) \cap (env.forgotten \ {Summary}) = {}
  BY DEF FreshInv, ResetForgets
<1>c. \A m \in old : m.run \in Nat /\ m.step \in Nat
  BY <1>a, HistoryUpdates DEF Messages
<1>d. pc # "idle" => runs > 0
  BY DEF KeptInv
<1> HIDE DEF old
<1>1. CASE BeginRun
  <2>0. PICK m : m = User(runs + 1)
    OBVIOUS
  <2>1. /\ pc' = "started" /\ runs' = runs + 1 /\ turn'.step = 0
        /\ state'.messages = Append(state.messages, m)
        /\ env'.forgotten = env.forgotten
    BY <1>a, <1>1, <2>0 DEF BeginRun, NewTurn, Environments
  <2>2. m \in Messages /\ m.run = runs + 1 /\ m.role = "user" /\ m.step = 0
    <3>1. runs + 1 \in Nat
      BY <1>a
    <3>2. m \in Messages
      BY <2>0, <3>1, MessageTypes
    <3> QED
      BY <2>0, <3>2 DEF User, NewMessage
  <2>3. \A x \in Range(state'.messages) : x \in Range(state.messages) \/ x = m
    <3>1. PICK one : one = <<m>>
      OBVIOUS
    <3>2. /\ state'.messages = state.messages \o one /\ one \in Histories
          /\ Len(one) = 1 /\ one[1] = m
      BY <1>a, <2>1, <2>2, <3>1, AppendedHistory
    <3> QED
      BY <1>a, <3>2, JoinedRange
  <2>4. ASSUME NEW x \in old PROVE Past(x)' /\ x # m
    <3>1. x.run <= runs /\ x.run \in Nat
      BY <1>b, <1>c DEF Past
    <3>2. x.run <= runs' /\ x.run # runs' /\ x.run # runs + 1
      BY <1>a, <2>1, <3>1
    <3> QED
      BY <2>2, <3>2 DEF Past
  <2>5. Past(m)'
    BY <1>a, <2>1, <2>2 DEF Past
  <2> QED
    BY <1>b, <2>1, <2>3, <2>4, <2>5 DEF FreshInv, ResetForgets, old
<1>2. CASE StartTurn
  <2>1. /\ pc = "loop" /\ pc' = "turnStarted" /\ turn'.step = turn.step + 1
        /\ runs' = runs /\ state'.messages = state.messages /\ env' = env
    BY <1>a, <1>2 DEF StartTurn, NewTurn, AgentStates
  <2>2. ASSUME NEW x \in old PROVE Past(x)'
    <3>1. /\ x.run <= runs /\ x.step \in Nat
          /\ x.run = runs /\ runs > 0 => x.step <= turn.step
      BY <1>b, <1>c DEF Past
    <3>2. x.run = runs /\ runs > 0 => x.step <= turn'.step /\ x.step # turn'.step
      BY <1>a, <2>1, <3>1
    <3> QED
      BY <2>1, <3>1, <3>2 DEF Past
  <2> QED
    BY <1>b, <2>1, <2>2 DEF FreshInv, ResetForgets, old
<1>3. CASE AcceptResponse
  <2>0. PICK m : m = Assistant(runs, turn.step, Len(turn.calls))
    OBVIOUS
  <2>1. /\ pc = "closing" /\ pc' = "message" /\ UNCHANGED <<runs, turn, env>>
        /\ state'.messages = Append(state.messages, m)
    BY <1>a, <1>3, <2>0 DEF AcceptResponse, AgentStates
  <2>2. /\ m \in Messages /\ m.run = runs /\ m.role = "assistant"
        /\ m.step = turn.step
    <3>1. m \in Messages
      BY <1>a, <2>0, MessageTypes
    <3> QED
      BY <2>0, <3>1 DEF Assistant, NewMessage
  <2>3. \A x \in Range(state'.messages) : x \in Range(state.messages) \/ x = m
    <3>1. PICK one : one = <<m>>
      OBVIOUS
    <3>2. /\ state'.messages = state.messages \o one /\ one \in Histories
          /\ Len(one) = 1 /\ one[1] = m
      BY <1>a, <2>1, <2>2, <3>1, AppendedHistory
    <3> QED
      BY <1>a, <3>2, JoinedRange
  <2>4. ASSUME NEW x \in old PROVE Past(x)' /\ x # m
    <3>1. Past(x)
      BY <1>b
    <3>2. x # m
      BY <1>d, <2>1, <2>2, <3>1 DEF Past
    <3> QED
      BY <2>1, <3>1, <3>2 DEF Past
  <2>5. Past(m)'
    BY <1>a, <2>1, <2>2 DEF Past
  <2> QED
    BY <1>b, <2>1, <2>3, <2>4, <2>5 DEF FreshInv, ResetForgets, old
<1>4. CASE EndBatch
  <2> DEFINE Results == {turn.results[i] : i \in 1..Len(turn.results)}
  <2>1. /\ pc = "toolCompleted" /\ pc' = "turnCompleted"
        /\ UNCHANGED <<runs, turn>> /\ env'.forgotten = env.forgotten
        /\ state'.messages = state.messages \o turn.results
    BY <1>a, <1>4 DEF EndBatch, EndTurn, AgentStates
  <2>2. \A m \in Results : /\ m.run = runs /\ m.role = "tool"
                           /\ m.step = turn.step
    BY <2>1, NewMessages DEF ResultsInv
  <2>3. \A x \in Range(state'.messages) :
          x \in Range(state.messages) \/ x \in Results
    BY <1>a, <2>1, JoinedRange
  <2> HIDE DEF Results
  <2>4. ASSUME NEW x \in old PROVE Past(x)' /\ x \notin Results
    <3>1. Past(x)
      BY <1>b
    <3>2. x \notin Results
      BY <1>d, <2>1, <2>2, <3>1 DEF Past
    <3> QED
      BY <2>1, <3>1, <3>2 DEF Past
  <2>5. ASSUME NEW m \in Results PROVE Past(m)'
    BY <1>a, <2>1, <2>2 DEF Past
  <2> QED
    BY <1>b, <2>1, <2>3, <2>4, <2>5 DEF FreshInv, ResetForgets, old
<1>5. CASE CommitCompaction
  <2>1. /\ pc = "compacting" /\ pc' = "compDone" /\ UNCHANGED <<runs, turn, env>>
        /\ state'.messages = Compacted(comp.base, comp.cut)
        /\ state.messages = comp.base
    BY <1>a, <1>b, <1>5 DEF CommitCompaction, HistoryUnchanged, AgentStates
  <2>2. comp.cut \in 1..Len(comp.base)
    <3>1. CanCompact(comp.base, comp.cut)
      BY <2>1 DEF ControlInv
    <3>2. comp.cut # NoPlan
      BY <1>a, <3>1, CutRange DEF CanCompact, NoPlan, Histories
    <3>3. comp.cut \in CutPoints(comp.base) /\ Behind(comp.base, runs)
      BY <3>2 DEF KeptInv
    <3> QED
      BY <1>a, <3>1, <3>3, CutBehind
  <2>3. Range(state'.messages) \subseteq Range(state.messages) \cup {Summary}
    BY <1>a, <2>1, <2>2, CutRangeOf
  <2>4. ASSUME NEW x \in old \cup {Summary} PROVE Past(x)'
    <3>1. CASE x = Summary
      BY <1>a, <2>1, <3>1, NewMessages DEF Past
    <3>2. CASE x \in old
      BY <1>b, <2>1, <3>2 DEF Past
    <3> QED
      BY <3>1, <3>2
  <2> QED
    BY <1>b, <2>1, <2>3, <2>4 DEF FreshInv, ResetForgets, old
<1>6. CASE Reset
  <2>1. /\ UNCHANGED <<pc, runs, turn, comp>> /\ state'.messages = <<>>
        /\ env'.forgotten = old
    BY <1>a, <1>6 DEF Reset, Environments, old
  <2>2. Range(state'.messages) = {}
    BY <2>1 DEF Range
  <2> QED
    BY <1>b, <2>1, <2>2 DEF FreshInv, ResetForgets, Past
<1>7. CASE Quiet
  <2>1. pc' \in {"compStarted", "compacting"} => comp'.before = comp'.base
    <3>1. CASE EvaluateContext
      BY <3>1 DEF EvaluateContext, BeginRequest, AwaitStream
    <3>2. CASE ContextEvaluated
      BY <3>2 DEF ContextEvaluated, BeginRequest, AwaitStream
    <3>3. CASE RecoverFromOverflow
      BY <3>3 DEF RecoverFromOverflow, StartCompaction
    <3>4. CASE RebuildContext
      BY <3>4 DEF RebuildContext
    <3> QED
      BY <1>b, <1>7, <3>1, <3>2, <3>3, <3>4 DEF Quiet
  <2>2. ASSUME NEW x \in old PROVE Past(x)'
    BY <1>b, <1>7 DEF Quiet, Past
  <2> QED
    BY <1>b, <1>7, <2>1, <2>2 DEF Quiet, FreshInv, ResetForgets, old
<1> QED
  BY <1>1, <1>2, <1>3, <1>4, <1>5, <1>6, <1>7, QuietStep

-----------------------------------------------------------------------------
(* The invariant.                                                          *)

\* The restored history holds no results and belongs to no run.
LEMMA RestoredShape ==
    /\ RestoredHistory \in Histories
    /\ \A p \in 1..Len(RestoredHistory) :
         RestoredHistory[p].role # "tool" /\ RestoredHistory[p].run = 0
<1>1. RestoredHistory \in Histories /\ 2 * OldTurns \in Nat
  BY RestoredType, ConstantsAssumption DEF Histories
<1>2. /\ DOMAIN RestoredHistory = 1..(2 * OldTurns)
      /\ Len(RestoredHistory) = 2 * OldTurns
  BY <1>1, LenProperties DEF RestoredHistory, Histories
<1>3. ASSUME NEW p \in 1..(2 * OldTurns)
      PROVE  RestoredHistory[p].role # "tool" /\ RestoredHistory[p].run = 0
  <2>1. RestoredHistory[p] = IF p % 2 = 1
                             THEN NewMessage("user", 0, (p + 1) \div 2, 0)
                             ELSE NewMessage("assistant", 0, p \div 2, 0)
    BY DEF RestoredHistory
  <2>2. CASE p % 2 = 1
    BY <2>1, <2>2 DEF NewMessage
  <2>3. CASE p % 2 # 1
    BY <2>1, <2>3 DEF NewMessage
  <2> QED
    BY <2>2, <2>3
<1> QED
  BY <1>1, <1>2, <1>3

\* The initial state has the invariant.
LEMMA InitInvariant == Init => IInv
<1> SUFFICES ASSUME Init PROVE IInv
  OBVIOUS
<1>a. /\ pc = "idle" /\ runs = 0 /\ aborted = FALSE /\ pend = "none"
      /\ usage = NewUsage /\ turn = NewTurn /\ comp = NoCompaction
      /\ state.messages = RestoredHistory /\ state.turn = 0 /\ state.noTool = 0
      /\ seen.session = RestoredHistory /\ seen.turn = 0 /\ seen.calls = {}
      /\ ~seen.compaction /\ ~seen.exposed
  BY DEF Init
<1> USE DEF InTurn, InCompaction, BeforeRequest, BeforeResponse, Answering,
        CompactionAwaits, StreamAwaits, TurnAwaits, BatchAwaits, OuterAwaits
<1>1. TypeOK
  <2>1. 0 \in 0..MaxRuns /\ 0 \in 0..MaxSteps /\ 0 \in 0..MaxNoTool
        /\ 0 \in 0..MaxCancels /\ 0 \in 0..MaxResets
    BY Bounds
  <2>2. state \in AgentStates
    BY <2>1, RestoredShape DEF Init, AgentStates, Statuses
  <2>3. usage \in Usages /\ repeat \in Repeats
    BY DEF Init, NewUsage, Usages, Repeats
  <2>4. seen \in Views
    BY <2>1, RestoredShape DEF Init, Views
  <2>5. env \in Environments
    BY <2>1 DEF Init, Environments
  <2> QED
    BY <1>a, <2>1, <2>2, <2>3, <2>4, <2>5, NewTurns, CompactionFields,
       LocationNames
    DEF TypeOK
<1>2. ControlInv
  BY <1>a, Bounds DEF ControlInv, NewTurn
<1>3. EventsInv
  BY <1>a DEF EventsInv
<1>4. BudgetInv
  BY <1>a DEF BudgetInv, BudgetOvershoot, NewUsage
<1>5. RequestsInv
  BY <1>a DEF RequestsInv
<1>6. SessionInv
  BY <1>a DEF SessionInv
<1>7. ResultsInv
  BY <1>a DEF ResultsInv
<1>8. HistoryInv
  <2>1. Paired(state.messages)
    BY <1>a, RestoredShape DEF Paired
  <2> QED
    BY <1>a, <2>1, RestoredShape DEF HistoryInv
<1>9. KeptInv
  BY <1>a, RestoredShape DEF KeptInv, Behind, NoCompaction
<1>10. FreshInv
  <2>1. env.forgotten = {}
    BY DEF Init
  <2>2. \A m \in Range(state.messages) : Past(m)
    <3>1. ASSUME NEW m \in Range(state.messages) PROVE m.run = 0
      <4>1. PICK i \in DOMAIN RestoredHistory : m = RestoredHistory[i]
        BY <1>a, <3>1 DEF Range
      <4>2. i \in 1..Len(RestoredHistory)
        BY <4>1, RestoredShape DEF Histories
      <4> QED
        BY <4>1, <4>2, RestoredShape
    <3> QED
      BY <1>a, <3>1 DEF Past
  <2> QED
    BY <1>a, <2>1, <2>2 DEF FreshInv, ResetForgets
<1> QED
  BY <1>1, <1>2, <1>3, <1>4, <1>5, <1>6, <1>7, <1>8, <1>9, <1>10 DEF IInv

\* The parts hold together in every state, for any policy of the agent.
THEOREM Invariant == Spec => []IInv
<1>1. IInv /\ [Next]_vars => IInv'
  BY TypeStep, ControlStep, EventsStep, BudgetStep, RequestsStep, SessionStep,
     ResultsStep, HistoryStep, KeptStep, FreshStep
  DEF IInv
<1> QED
  BY <1>1, InitInvariant, PTL DEF Spec

\* Every variable keeps its type.
THEOREM TypeCorrect == Spec => []TypeOK
<1>1. IInv => TypeOK
  BY DEF IInv
<1> QED
  BY <1>1, Invariant, PTL

-----------------------------------------------------------------------------
(* What the agent sends, records and spends.                               *)

\* A history whose calls are settled has none that dangles.
LEMMA NothingDangles ==
    ASSUME NEW ms, NEW r, Settled(ms, r, Len(ms))
    PROVE  Dangling(ms, {r}) = {}
BY DEF Settled, Dangling

\* A history whose results are paired has no orphans.
LEMMA NoOrphans == ASSUME NEW ms, Paired(ms) PROVE Orphans(ms) = {}
BY DEF Paired, Orphans

\* A provider is never sent a tool call of this run without its result, nor a
\* result without its call, whatever was compacted, retried or aborted before.
THEOREM WellFormedRequests == Spec => []RequestsWellFormed
<1>1. IInv => RequestsWellFormed
  BY NothingDangles, NoOrphans
  DEF IInv, HistoryInv, RequestsWellFormed, BeforeResponse, StreamAwaits
<1> QED
  BY <1>1, Invariant, PTL

\* The calls of a batch that an abort cancelled all have their results when
\* the turn completes.
THEOREM CancelledBatch == Spec => []CancelledBatchSettles
<1>1. IInv => CancelledBatchSettles
  BY NothingDangles DEF IInv, HistoryInv, CancelledBatchSettles
<1> QED
  BY <1>1, Invariant, PTL

\* A restart from the recorded session restores what the agent knew.
THEOREM SessionIsHistory == Spec => []HistoryMatchesSession
<1>1. IInv => HistoryMatchesSession
  BY DEF IInv, SessionInv, HistoryMatchesSession, BatchAwaits
<1> QED
  BY <1>1, Invariant, PTL

\* Turns, compactions and calls are closed inside what they were opened in.
THEOREM EventsNested == Spec => []EventsNest
<1>1. IInv => EventsNest
  <2> SUFFICES ASSUME IInv, env.cancels = 0
               PROVE  /\ pc \in {"turnCompleted", "finished"} => seen.turn = 0
                      /\ seen.turn = 0 => seen.calls = {} /\ ~seen.compaction
    BY DEF EventsNest
  <2> USE DEF InTurn, CompactionAwaits, StreamAwaits, TurnAwaits, BatchAwaits
  <2>1. EventsInv /\ ControlInv /\ TypeOK
    BY DEF IInv
  <2>2. pc \in InTurn => turn.step > 0 /\ turn.step \in Nat
    <3>1. turn.step \in 0..MaxSteps /\ MaxSteps \in Nat
      BY <2>1, TurnUpdates, Bounds DEF TypeOK
    <3> QED
      BY <2>1, <3>1 DEF ControlInv
  <2>3. pc \in {"turnCompleted", "finished"} => seen.turn = 0
    BY <2>1 DEF EventsInv
  <2>4. seen.turn = 0 => pc \notin InTurn
    BY <2>1, <2>2 DEF EventsInv
  <2> QED
    BY <2>1, <2>3, <2>4 DEF EventsInv
<1> QED
  BY <1>1, Invariant, PTL

\* A token limit is overshot by less than one response.
THEOREM BudgetKept == Spec => []BudgetOvershoot
<1>1. IInv => BudgetOvershoot
  BY DEF IInv, BudgetInv
<1> QED
  BY <1>1, Invariant, PTL

-----------------------------------------------------------------------------
(* What a step may not do.                                                 *)

\* No step repeats a request whose response was already seen, and a turn asks
\* no more often than its retries allow.
THEOREM RetriesAreSafe == Spec => NoRetryAfterOutput
<1>1. ASSUME IInv, IInv', [Next]_vars, usage'.requests > usage.requests
      PROVE  ~seen'.exposed /\ usage'.requests <= RequestsOf(turn'.step)
  <2> USE DEF InTurn, InCompaction, BeforeRequest, BeforeResponse,
          CompactionAwaits, StreamAwaits, TurnAwaits, BatchAwaits
  <2>1. usage \in Usages /\ turn \in Turns /\ usage.requests \in Nat
        /\ turn' \in Turns /\ usage'.requests \in Nat
    BY <1>1, UsageUpdates DEF IInv, TypeOK
  <2>2. BeginRequest /\ pc \in BeforeRequest
    <3>1. CASE BeginRun
      BY <1>1, <2>1, <3>1 DEF BeginRun, NewUsage
    <3>2. CASE AcceptResponse
      BY <1>1, <2>1, <3>2 DEF AcceptResponse, Usages
    <3>3. CASE EvaluateContext
      <4>1. pc = "turnStarted" /\ (UNCHANGED usage \/ BeginRequest)
        BY <3>3 DEF EvaluateContext
      <4> QED
        BY <1>1, <2>1, <4>1
    <3>4. CASE ContextEvaluated
      BY <1>1, <2>1, <3>4 DEF ContextEvaluated
    <3>5. CASE ContextRebuilt
      BY <3>5 DEF ContextRebuilt
    <3>6. CASE CompactionSkipped
      BY <1>1, <2>1, <3>6 DEF CompactionSkipped
    <3>7. CASE UNCHANGED usage
      BY <1>1, <2>1, <3>7, SMTT(60)
    <3>8. \/ BeginRun \/ AcceptResponse \/ EvaluateContext \/ ContextEvaluated
          \/ ContextRebuilt \/ CompactionSkipped \/ UNCHANGED usage
      BY <1>1
      DEF Next, RunStep, WorkStep, vars, EndRun, PrepareTask, PrepareInterrupted,
          StepsExhausted, StopBeforeTurn, StartTurn, TurnSettled, DeltaDelivered,
          StreamInterrupted, RecoverFromOverflow, RequestFails, RunCompactor,
          CompactorInterrupted, RebuildContext, CompactionFailed, TextResponse,
          ResponseAborted, FirstCall, RejectRepeatedCall, DispatchCall,
          HandlerInterrupted, NextCall, SkipCall, CallSkipped, EndBatch,
          RepeatedCallEndsTurn, TaskPrepared, PrepareFails, ReceiveDelta,
          ReceiveResponse, StreamOverflows, StreamFails, CommitCompaction,
          CompactorFails, HandlerReturns, Abort, CancelCaller, Reset
    <3> QED
      BY <3>1, <3>2, <3>3, <3>4, <3>5, <3>6, <3>7, <3>8
  <2>3. ~seen'.exposed
    BY <1>1, <2>2 DEF BeginRequest, IInv, RequestsInv
  <2>4. pc' \in {"streaming", "closing"}
    BY <2>2 DEF BeginRequest, AwaitStream
  <2>5. /\ turn'.step > 0 /\ turn'.step \in Nat
        /\ turn'.retries \in Nat /\ turn'.retries <= MaxOverflowRetries
        /\ MaxOverflowRetries \in Nat
    <3>1. turn'.step \in 0..MaxSteps /\ turn'.retries \in 0..MaxOverflowRetries
      BY <2>1, TurnUpdates
    <3>2. turn'.step > 0
      BY <1>1, <2>4 DEF IInv, ControlInv
    <3> QED
      BY <3>1, <3>2, Bounds
  <2>6. usage'.requests <= RequestsOf(turn'.step - 1) + 1 + turn'.retries
    <3>1. ~RequestToCome'
      BY <2>4 DEF RequestToCome
    <3>2. usage'.requests + 0 <= RequestsOf(turn'.step - 1) + 1 + turn'.retries
      BY <1>1, <2>4, <3>1 DEF IInv, RequestsInv
    <3> QED
      BY <2>1, <3>2
  <2>7. /\ RequestsOf(turn'.step) = RequestsOf(turn'.step - 1) + 1 + MaxOverflowRetries
        /\ RequestsOf(turn'.step - 1) \in Nat
    BY <2>5, RequestsOfTurns
  <2> QED
    BY <2>1, <2>3, <2>5, <2>6, <2>7
<1> QED
  BY <1>1, Invariant, PTL DEF Spec, NoRetryAfterOutput

\* After an abort no request, tool, compactor or preparation is started.
THEOREM AbortStops == Spec => AbortStopsWork
<1> DEFINE Stops == (pc' # pc /\ pc' \in {"preparing", "streaming", "dispatching",
                                         "compacting"}) => ~aborted
<1>1. [Next]_vars => Stops
  BY DEF Next, RunStep, WorkStep, vars, BeginRun, EndRun, PrepareTask,
      PrepareInterrupted, StepsExhausted, StopBeforeTurn, StartTurn, TurnSettled,
      EvaluateContext, ContextEvaluated, ContextRebuilt, DeltaDelivered,
      StreamInterrupted, AcceptResponse, RecoverFromOverflow, RequestFails,
      RunCompactor, CompactorInterrupted, RebuildContext, CompactionSkipped,
      CompactionFailed, TextResponse, ResponseAborted, FirstCall,
      RejectRepeatedCall, DispatchCall, HandlerInterrupted, NextCall, SkipCall,
      CallSkipped, EndBatch, RepeatedCallEndsTurn, TaskPrepared, PrepareFails,
      ReceiveDelta, ReceiveResponse, StreamOverflows, StreamFails,
      CommitCompaction, CompactorFails, HandlerReturns, Abort, CancelCaller,
      Reset, Finish, EndTurn, AwaitStream, BeginRequest, StartCompaction,
      FailCompaction, StartCall, CompleteCall
<1> HIDE DEF Stops
<1>2. Spec => [][Stops]_vars
  BY <1>1, PTL DEF Spec
<1> QED
  BY <1>2 DEF Stops, AbortStopsWork

-----------------------------------------------------------------------------
(* What reset and compaction take from the history.                        *)

\* What reset forgot does not come back, if compaction runs on overflow only.
THEOREM ResetStays == ASSUME ~AutoPressure PROVE Spec => []ResetForgets
<1>1. IInv => ResetForgets
  BY DEF IInv, FreshInv
<1> QED
  BY <1>1, Invariant, PTL

\* What is added to a history is added behind what is selected of it.
LEMMA SelectedGrows ==
    ASSUME NEW ms \in Histories, NEW rs \in Histories, NEW r
    PROVE  IsPrefix(OfRun(ms, r), OfRun(ms \o rs, r))
<1> DEFINE S == {m \in Messages : m.run = r}
<1>1. PICK v : v = Selected(ms, S)
  OBVIOUS
<1>2. PICK w : w = Selected(rs, S)
  OBVIOUS
<1>3. /\ v \in Seq(S \cap Messages) /\ w \in Seq(S \cap Messages)
      /\ Selected(ms \o rs, S) = v \o w
  BY <1>1, <1>2, SelectedConcat DEF Histories
<1>4. /\ Len(v) \in Nat /\ Len(w) \in Nat /\ Len(v \o w) = Len(v) + Len(w)
  BY <1>3, ConcatProperties, LenProperties
<1>5. SubSeq(v \o w, 1, Len(v)) = SubSeq(v, 1, Len(v))
  <2>1. CASE Len(v) = 0
    BY <2>1, SubSeqEmpty
  <2>2. CASE Len(v) # 0
    <3>1. 1 \in 1..Len(v) /\ Len(v) \in 1..Len(v)
      BY <1>4, <2>2
    <3> QED
      BY <1>3, <3>1, SubSeqOfConcat1
  <2> QED
    BY <2>1, <2>2
<1>6. Len(v) <= Len(v \o w)
  BY <1>4
<1> QED
  BY <1>1, <1>3, <1>5, <1>6 DEF OfRun, IsPrefix

\* Cutting a history drops nothing of a run that has begun.
LEMMA CutKeepsRun ==
    ASSUME NEW ms \in Histories, NEW r \in Nat, r > 0, Behind(ms, r),
           NEW cut \in CutPoints(ms), CanCompact(ms, cut)
    PROVE  OfRun(Compacted(ms, cut), r) = OfRun(ms, r)
<1> DEFINE S == {m \in Messages : m.run = r}
<1>1. /\ cut \in 1..Len(ms) /\ Len(ms) \in Nat
      /\ \A p \in 1..(cut - 1) : ms[p].run # r
      /\ \A p \in 1..Len(ms) : ms[p] \in Messages
      /\ ms \in Seq(Messages)
  BY CutBehind, MessageFields DEF Histories
<1>2. PICK early : early = SubSeq(ms, 1, cut - 1)
  OBVIOUS
<1>3. PICK late : late = SubSeq(ms, cut, Len(ms))
  OBVIOUS
<1>4. PICK first : first = <<Summary>>
  OBVIOUS
<1>5. /\ early \in Seq(Messages) /\ Len(early) = cut - 1
      /\ \A i \in 1..(cut - 1) : early[i] = ms[i]
  <2>1. 1 \in Int /\ cut - 1 \in Int /\ \A i \in 1..(cut - 1) : ms[i] \in Messages
    BY <1>1
  <2>2. /\ early \in Seq(Messages)
        /\ Len(early) = IF 1 <= cut - 1 THEN (cut - 1) - 1 + 1 ELSE 0
        /\ \A i \in 1..((cut - 1) - 1 + 1) : early[i] = ms[1 + i - 1]
    BY <1>2, <2>1, SubSeqProperties
  <2>3. cut \in Nat /\ cut >= 1 /\ (cut - 1) - 1 + 1 = cut - 1
    BY <1>1
  <2>4. Len(early) = cut - 1
    BY <2>2, <2>3
  <2>5. \A i \in 1..(cut - 1) : early[i] = ms[i]
    BY <2>2, <2>3
  <2> QED
    BY <2>2, <2>4, <2>5
<1>6. late \in Seq(Messages)
  <2>1. cut \in Int /\ Len(ms) \in Int /\ \A i \in cut..Len(ms) : ms[i] \in Messages
    BY <1>1
  <2> QED
    BY <1>3, <2>1, SubSeqProperties
<1>7. first \in Seq(Messages) /\ \A i \in 1..Len(first) : first[i] = Summary
  BY <1>4, MessageTypes
<1>8. ms = early \o late
  <2>1. /\ 1 \in 1..(Len(ms) + 1) /\ cut - 1 \in (1 - 1)..Len(ms)
        /\ Len(ms) \in (cut - 1)..Len(ms) /\ (cut - 1) + 1 = cut
    BY <1>1
  <2>2. SubSeq(ms, 1, cut - 1) \o SubSeq(ms, (cut - 1) + 1, Len(ms))
          = SubSeq(ms, 1, Len(ms))
    BY <1>1, <2>1, ConcatAdjacentSubSeq
  <2> QED
    BY <1>1, <1>2, <1>3, <2>1, <2>2, SubSeqFull
<1>9. Selected(early, S) = <<>>
  <2>1. \A i \in 1..Len(early) : early[i] \notin S
    BY <1>1, <1>5
  <2> QED
    BY <1>5, <2>1, SelectedAll
<1>10. Selected(first, S) = <<>>
  <2>1. \A i \in 1..Len(first) : first[i] \notin S
    BY <1>7, NewMessages
  <2> QED
    BY <1>7, <2>1, SelectedAll
<1>11. Selected(ms, S) = Selected(early, S) \o Selected(late, S)
  BY <1>5, <1>6, <1>8, SelectedConcat
<1>12. Selected(first \o late, S) = Selected(first, S) \o Selected(late, S)
  BY <1>6, <1>7, SelectedConcat, ZenonT(60)
<1> QED
  BY <1>3, <1>4, <1>9, <1>10, <1>11, <1>12 DEF OfRun, Compacted

\* No step but reset takes a message of the current run from the history:
\* a compaction drops turns of earlier runs only, whenever it was planned.
THEOREM RunStaysWhole == Spec => RunHistoryKept
<1>1. ASSUME IInv, [Next]_vars, runs' = runs, env'.resets = env.resets
      PROVE  IsPrefix(OfRun(state.messages, runs), OfRun(state'.messages, runs))
  <2>1. TypeOK /\ ControlInv /\ KeptInv
    BY <1>1 DEF IInv
  <2>2. /\ state \in AgentStates /\ turn \in Turns /\ comp \in Compactions
        /\ state.messages \in Histories /\ turn.results \in Histories
        /\ comp.base \in Histories /\ <<>> \in Histories
        /\ runs \in Nat /\ env.resets \in Nat
        /\ turn.step \in Nat /\ Len(turn.calls) \in Nat
    <3>1. /\ state \in AgentStates /\ turn \in Turns /\ comp \in Compactions
          /\ env \in Environments /\ env.resets \in 0..MaxResets
          /\ turn.step \in 0..MaxSteps /\ runs \in 0..MaxRuns
      BY <2>1, TurnUpdates, EnvironmentUpdates DEF TypeOK
    <3>2. runs \in Nat /\ turn.step \in Nat /\ env.resets \in Nat
      BY <3>1, Bounds
    <3>3. Len(turn.calls) \in Nat
      <4>1. turn.calls \in CallSeqs
        BY <3>1, TurnUpdates
      <4> QED
        BY <4>1, CallsOf
    <3>4. state.messages \in Histories /\ turn.results \in Histories
      BY <3>1, AgentStateUpdates, TurnUpdates
    <3>5. comp.base \in Histories /\ <<>> \in Histories
      BY <3>1, CompactionFields, EmptySeq DEF Histories
    <3> QED
      BY <3>1, <3>2, <3>3, <3>4, <3>5, SMTT(60)
  <2>3. \A ms \in Histories : IsPrefix(OfRun(ms, runs), OfRun(ms, runs))
    <3> SUFFICES ASSUME NEW ms \in Histories
                 PROVE  IsPrefix(OfRun(ms, runs), OfRun(ms, runs))
      OBVIOUS
    <3>1. ms \o <<>> = ms
      BY ConcatEmptySeq DEF Histories
    <3> QED
      BY <2>2, <3>1, SelectedGrows
  <2>4. CASE BeginRun
    BY <1>1, <2>2, <2>4 DEF BeginRun
  <2>5. CASE AcceptResponse
    <3> DEFINE m == Assistant(runs, turn.step, Len(turn.calls))
    <3>1. state'.messages = Append(state.messages, m) /\ m \in Messages
      BY <2>2, <2>5, MessageTypes DEF AcceptResponse, AgentStates
    <3> HIDE DEF m
    <3>2. state'.messages = state.messages \o <<m>> /\ <<m>> \in Histories
      BY <2>2, <3>1, AppendedHistory
    <3> QED
      BY <2>2, <3>2, SelectedGrows
  <2>6. CASE EndBatch
    <3>1. state'.messages = state.messages \o turn.results
      BY <2>2, <2>6 DEF EndBatch, AgentStates
    <3> QED
      BY <2>2, <3>1, SelectedGrows
  <2>7. CASE CommitCompaction
    <3>1. pc = "compacting" /\ state'.messages = Compacted(comp.base, comp.cut)
      BY <2>2, <2>7 DEF CommitCompaction, AgentStates
    <3>2. /\ CanCompact(comp.base, comp.cut) /\ comp.cut \in CutPoints(comp.base)
          /\ state.messages \in {comp.base, <<>>}
          /\ runs > 0 /\ Behind(comp.base, runs)
      <4>1. CanCompact(comp.base, comp.cut)
        BY <2>1, <3>1 DEF ControlInv
      <4>2. comp.cut # NoPlan
        BY <2>2, <4>1, CutRange DEF CanCompact, NoPlan, Histories
      <4> QED
        BY <2>1, <3>1, <4>1, <4>2 DEF KeptInv
    <3>3. OfRun(state'.messages, runs) = OfRun(comp.base, runs)
      BY <2>2, <3>1, <3>2, CutKeepsRun
    <3>4. CASE state.messages = comp.base
      BY <2>2, <2>3, <3>3, <3>4
    <3>5. CASE state.messages = <<>>
      <4>1. <<>> \o comp.base = comp.base
        BY <2>2, ConcatEmptySeq DEF Histories
      <4>2. IsPrefix(OfRun(<<>>, runs), OfRun(<<>> \o comp.base, runs))
        BY <2>2, SelectedGrows
      <4> QED
        BY <3>3, <3>5, <4>1, <4>2
    <3> QED
      BY <3>2, <3>4, <3>5
  <2>8. CASE Reset
    <3>1. env'.resets = env.resets + 1
      BY <2>1, <2>8 DEF Reset, TypeOK, Environments
    <3> QED
      BY <1>1, <2>2, <3>1
  <2>9. CASE StartTurn \/ Quiet
    <3>1. state'.messages = state.messages
      BY <2>2, <2>9 DEF StartTurn, Quiet, AgentStates
    <3> QED
      BY <2>2, <2>3, <3>1
  <2> QED
    BY <1>1, <2>1, <2>4, <2>5, <2>6, <2>7, <2>8, <2>9, QuietStep
<1> QED
  BY <1>1, Invariant, PTL DEF Spec, RunHistoryKept

================================================================================
