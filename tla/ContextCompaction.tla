--------------------------- MODULE ContextCompaction ---------------------------
(***************************************************************************)
(* What compaction does to a conversation: the estimate that signals       *)
(* pressure, the full-turn cut of prepare_compaction, the summary entry    *)
(* and the two histories built from them, the one of the agent and the one *)
(* of its session, over tasks, responses, tool calls and restores.         *)
(*                                                                         *)
(* A run is reduced to the messages it appends to the two histories, with  *)
(* every way in which it may leave a response or a batch of calls;         *)
(* AgentRun has its control flow and takes the cut as nondeterministic.    *)
(* Token estimates are the sizes of messages, the estimator being          *)
(* pluggable.  A sink that fails on a message of a run whose beginning it  *)
(* recorded is left out: that leaves a gap in the session.                 *)
(***************************************************************************)
EXTENDS Naturals, FiniteSets, SequencesExt, Aggregates

CONSTANTS
    Prompts,      \* number of system prompts an agent begins with
    Threshold,    \* ContextBudget.threshold_tokens
    KeepRecent,   \* ContextBudget.keep_recent_tokens
    Sizes,        \* estimates of a task's message
    ReplySize,    \* bound: estimate of a response, tool result or summary
    MaxCalls,     \* bound: tool calls of one response
    MaxHandMade,  \* bound: messages of a history passed to reset
    MaxMessages   \* bound: messages that tasks give the agent

ASSUME BudgetAssumption ==
    /\ Prompts \in Nat \ {0}
    /\ KeepRecent \in Nat \ {0}
    /\ Threshold \in Nat /\ KeepRecent <= Threshold
    /\ Sizes \subseteq Nat \ {0}
    /\ ReplySize \in Nat \ {0}
    /\ {MaxCalls, MaxHandMade, MaxMessages} \subseteq Nat

VARIABLES
    messages,   \* AgentState.messages
    tail,       \* the entries that the latest compaction does not cover
    compacted,  \* the messages of the latest SessionCompaction, or none
    event,      \* those of a CompactionCompleted that is being emitted, or none
    phase,      \* where the current run is
    heard,      \* whether the session recorded the beginning of that run
    produced,   \* number of messages that tasks gave the agent
    reports,    \* whether the provider reports usage
    made,       \* for each history, how many messages of it may be summarized
    settled,    \* for each history, whether it has not grown since a compaction
    apart       \* something reached one of the histories and not the other

vars == <<messages, tail, compacted, event, phase, heard, produced, reports,
          made, settled, apart>>

NoUsage == 0   \* an assistant message without a usage report

\* calls counts what an assistant message requests, usage what it reports;
\* count is that of a SummaryEntry, 0 for any other message.
Message(role, size, calls, usage, count) ==
    [role |-> role, size |-> size, calls |-> calls, usage |-> usage,
     count |-> count]

Plain(role, size) == Message(role, size, 0, NoUsage, 0)
IsSummary(m) == m.count > 0

\* The roles that prepare_compaction may summarize.
CompactableRoles == {"user", "assistant", "tool"}
Roles == CompactableRoles \cup {"system", "custom"}
MessageSet == [role : Roles, size : Nat, calls : Nat, usage : Nat, count : Nat]

PromptMessages == [i \in 1..Prompts |-> Plain("system", 1)]

\* A history passed to reset; it may hold roles that are not summarized.
HandMade ==
    UNION {[1..n -> {Plain(r, 1) : r \in {"system", "custom", "user",
                                          "assistant"}}] : n \in 0..MaxHandMade}

Sum(ms) == Total([i \in 1..Len(ms) |-> ms[i].size])
Compactable(ms) ==
    Total([i \in 1..Len(ms) |-> IF ms[i].role \in CompactableRoles THEN 1 ELSE 0])

\* Length of the longest prefix of system messages.
LeadingSystem(ms) ==
    CHOOSE n \in 0..Len(ms) :
        /\ \A i \in 1..n : ms[i].role = "system"
        /\ n < Len(ms) => ms[n + 1].role # "system"

Init ==
    /\ \E history \in HandMade :
        /\ messages = PromptMessages \o history
        /\ made = [agent |-> Compactable(history), session |-> 0]
        /\ apart = (history # <<>>)
    /\ tail = <<>>
    /\ compacted = <<>>
    /\ event = <<>>
    /\ phase = "idle"
    /\ heard = FALSE
    /\ produced = 0
    /\ reports \in BOOLEAN
    /\ settled = [agent |-> FALSE, session |-> FALSE]

-----------------------------------------------------------------------------
(* Estimating and preparing.                                               *)

\* estimate_context_usage: the last usage report and what follows it, and at
\* least the sum over the whole context.
Reports(ms) == {i \in 1..Len(ms) : ms[i].usage # NoUsage}

Estimate(ms) ==
    LET heuristic == Sum(ms) IN
    IF Reports(ms) = {} THEN heuristic
    ELSE LET i == Max(Reports(ms))
             based == ms[i].usage + Sum(SubSeq(ms, i + 1, Len(ms)))
         IN  IF based > heuristic THEN based ELSE heuristic

UnderPressure(ms) == Estimate(ms) >= Threshold

\* _compactable_history_start: behind the leading system messages and behind
\* the last message of a role that is not summarized.
HistoryStart(ms) ==
    LET others == {i \in 1..Len(ms) : ms[i].role \notin CompactableRoles} IN
    IF others = {} THEN 1 ELSE Max(others) + 1

\* _turn_ranges: the turns of the history.  The first may begin with any
\* message, the others begin with a user message.
\* Mutant: a turn may begin with any message.
MutantBeginsTurn(ms, i) == TRUE
BeginsTurn(ms, i) == i = HistoryStart(ms) \/ ms[i].role = "user"

\* Mutant: the search stops before the first turn, with too little kept.
MutantKeepsEnough(ms, i) ==
    \/ Sum(SubSeq(ms, i, Len(ms))) >= KeepRecent
    \/ \A j \in HistoryStart(ms) + 1 .. i - 1 : ms[j].role # "user"
KeepsEnough(ms, i) == Sum(SubSeq(ms, i, Len(ms))) >= KeepRecent

\* Mutant: only the oldest turn is given up.
MutantFirstKept(ms) ==
    LET start == HistoryStart(ms)
        later == {i \in start + 1 .. Len(ms) : ms[i].role = "user"}
    IN  IF later = {} THEN start ELSE Min(later)

\* prepare_compaction: turns are kept from the last one backwards until they
\* reach the tokens to keep.
FirstKept(ms) ==
    LET start == HistoryStart(ms)
        from[i \in start..Len(ms)] ==
            IF i = start \/ (BeginsTurn(ms, i) /\ KeepsEnough(ms, i))
            THEN i ELSE from[i - 1]
    IN  IF start > Len(ms) THEN start ELSE from[Len(ms)]

CanCompact(ms) == FirstKept(ms) > HistoryStart(ms)

-----------------------------------------------------------------------------
(* Building the compacted histories.                                       *)

\* find_previous_summary: the latest one among the protected messages.
PreviousCount(protected) ==
    LET found == {i \in 1..Len(protected) : IsSummary(protected[i])} IN
    IF found = {} THEN 0 ELSE protected[Max(found)].count

\* Mutant: the count begins anew with every summary.
MutantSummary(ms) ==
    Message("system", ReplySize, 0, NoUsage, FirstKept(ms) - HistoryStart(ms))

Summary(ms) ==
    LET protected == SubSeq(ms, 1, HistoryStart(ms) - 1) IN
    Message("system", ReplySize, 0, NoUsage,
            PreviousCount(protected) + FirstKept(ms) - HistoryStart(ms))

WithoutSummaries(ms) == Selected(ms, {m \in MessageSet : ~IsSummary(m)})

\* build_compacted_state_messages: the old summary is not kept.
CompactedState(ms) ==
    WithoutSummaries(SubSeq(ms, 1, HistoryStart(ms) - 1))
        \o <<Summary(ms)>> \o SubSeq(ms, FirstKept(ms), Len(ms))

\* Mutant: nothing of the protected messages is preserved.
MutantCompactedSession(ms) ==
    <<Summary(ms)>> \o SubSeq(ms, FirstKept(ms), Len(ms))

\* build_compacted_session_messages: nor are the agent's own prompts.
CompactedSession(ms) ==
    WithoutSummaries(SubSeq(ms, LeadingSystem(ms) + 1, HistoryStart(ms) - 1))
        \o <<Summary(ms)>> \o SubSeq(ms, FirstKept(ms), Len(ms))

\* AgentSession.messages.
SessionMessages == compacted \o tail

-----------------------------------------------------------------------------
(* The steps of runs.                                                      *)

\* A compaction is being emitted in no phase of a run but its own.
At(p) == phase = p /\ event = <<>>

\* The agent's history grows by new and the session's by told.
Produce(new, told) ==
    /\ produced + Len(new) <= MaxMessages
    /\ produced' = produced + Len(new)
    /\ messages' = messages \o new
    /\ tail' = tail \o told
    /\ made' = [agent |-> made.agent + Len(new),
                session |-> made.session + Len(told)]
    /\ settled' = [agent |-> settled.agent /\ Len(new) = 0,
                   session |-> settled.session /\ Len(told) = 0]
    /\ apart' = (apart \/ new # told)
    /\ UNCHANGED <<compacted, event, reports>>

\* The recorder takes the messages of a run whose beginning it recorded.
Recorded(known, new) == IF known THEN new ELSE <<>>

\* The task's message is the agent's before AgentStarted is emitted, and the
\* recorder may fail, refuse a second unfinished run or be cancelled.
BeginTask ==
    /\ At("idle")
    /\ phase' = "model"
    /\ heard' \in BOOLEAN
    /\ \E size \in Sizes :
        Produce(<<Plain("user", size)>>, Recorded(heard', <<Plain("user", size)>>))

\* A response; a report counts the tokens of its request and its own.
Response(calls) ==
    <<Message("assistant", ReplySize, calls,
              IF reports THEN Sum(messages) + ReplySize ELSE NoUsage, 0)>>

\* Without calls the run is over, or goes on until it finishes explicitly.
Respond ==
    /\ At("model")
    /\ \E calls \in 0..MaxCalls :
        /\ phase' \in IF calls = 0 THEN {"model", "idle"} ELSE {"tools"}
        /\ Produce(Response(calls), Recorded(heard, Response(calls)))
    /\ UNCHANGED heard

\* The caller is cancelled while MessageCompleted is emitted.
LoseResponse ==
    /\ At("model")
    /\ phase' = "idle"
    /\ \E calls \in 0..MaxCalls : Produce(Response(calls), <<>>)
    /\ UNCHANGED heard

\* The calls of the batch, and the results of the first n of them.
Calls == Last(messages).calls
Results(n) == [i \in 1..n |-> Plain("tool", ReplySize)]

\* Every call of the batch is executed or settled as cancelled.
AnswerCalls ==
    /\ At("tools")
    /\ phase' = "model"
    /\ Produce(Results(Calls), Recorded(heard, Results(Calls)))
    /\ UNCHANGED heard

\* A handler ends the run; the calls behind its own are left unanswered.
EndInBatch ==
    /\ At("tools")
    /\ phase' = "idle"
    /\ \E n \in 1..Calls : Produce(Results(n), Recorded(heard, Results(n)))
    /\ UNCHANGED heard

\* A repeated call or the cancellation of the caller raises out of the batch:
\* the results so far were recorded and are not the agent's.  An abort behind
\* the response leaves the whole batch unanswered.
LoseResults ==
    /\ At("tools")
    /\ phase' = "idle"
    /\ \E n \in 0..Calls : Produce(<<>>, Recorded(heard, Results(n)))
    /\ UNCHANGED heard

\* A run may end between its turns, its last message of any role.
StopRun ==
    /\ At("model")
    /\ phase' = "idle"
    /\ UNCHANGED <<messages, tail, compacted, event, heard, produced, reports,
                   made, settled, apart>>

\* The state is replaced, and only then is CompactionCompleted emitted.
Compact ==
    /\ CanCompact(messages)
    /\ messages' = CompactedState(messages)
    /\ event' = CompactedSession(messages)
    /\ settled' = [settled EXCEPT !.agent = TRUE]
    /\ UNCHANGED <<tail, compacted, phase, heard, produced, reports, made, apart>>

\* Before a request the context is evaluated; an overflow is answered with a
\* compaction whatever the estimate says.
CompactUnderPressure ==
    /\ At("model")
    /\ UnderPressure(messages)
    /\ Compact

CompactOnOverflow == At("model") /\ Compact

\* BaseAgent.compact, between runs.
CompactExplicitly == At("idle") /\ Compact

\* The session applies the compaction, whichever run it has heard of.  The
\* caller may be cancelled behind the recorder.
RecordCompaction ==
    /\ event # <<>>
    /\ phase' \in {phase, "idle"}
    /\ compacted' = event
    /\ tail' = <<>>
    /\ event' = <<>>
    /\ made' = [made EXCEPT !.session = made.agent]
    /\ settled' = [settled EXCEPT !.session = TRUE]
    /\ apart' = FALSE
    /\ UNCHANGED <<messages, heard, produced, reports>>

\* The recorder fails, which the run survives, or the caller is cancelled.
LoseCompaction ==
    /\ event # <<>>
    /\ phase' \in {phase, "idle"}
    /\ event' = <<>>
    /\ apart' = TRUE
    /\ UNCHANGED <<messages, tail, compacted, heard, produced, reports, made,
                   settled>>

\* restore_session: reset(session.messages).
Restore ==
    /\ At("idle")
    /\ messages' = PromptMessages \o SessionMessages
    /\ made' = [made EXCEPT !.agent = made.session]
    /\ settled' = [settled EXCEPT !.agent = settled.session]
    /\ apart' = FALSE
    /\ UNCHANGED <<tail, compacted, event, phase, heard, produced, reports>>

Next ==
    \/ BeginTask \/ Respond \/ LoseResponse
    \/ AnswerCalls \/ EndInBatch \/ LoseResults \/ StopRun
    \/ CompactUnderPressure \/ CompactOnOverflow \/ CompactExplicitly
    \/ RecordCompaction \/ LoseCompaction \/ Restore

Spec == Init /\ [][Next]_vars

-----------------------------------------------------------------------------
(* Properties.                                                             *)

TypeOK ==
    /\ messages \in Seq(MessageSet) /\ Prompts <= Len(messages)
    /\ SubSeq(messages, 1, Prompts) = PromptMessages
    /\ {tail, compacted, event} \subseteq Seq(MessageSet)
    /\ phase \in {"idle", "model", "tools"}
    /\ produced \in Nat
    /\ made \in [agent : Nat, session : Nat]
    /\ settled \in [agent : BOOLEAN, session : BOOLEAN]
    /\ {heard, reports, apart} \subseteq BOOLEAN

\* The kept suffix is the shortest one that begins with a turn and has the
\* tokens to keep: whatever is summarized, they are there, and no later turn
\* has them.  Where nothing can be summarized, no turn but the first has them.
CutIsMinimal ==
    LET cut == FirstKept(messages)
        Kept(i) == Sum(SubSeq(messages, i, Len(messages)))
    IN  /\ CanCompact(messages) =>
             messages[cut].role = "user" /\ Kept(cut) >= KeepRecent
        /\ \A i \in cut + 1 .. Len(messages) :
             messages[i].role = "user" => Kept(i) < KeepRecent

\* Message i has n calls, and as many results follow it.  Fewer do when the
\* run ended there: the next message is a task's, or there is none yet.
Answered(ms, i, n, over) ==
    \E k \in 0..n :
        /\ i + k <= Len(ms)
        /\ \A j \in i + 1 .. i + k : ms[j].role = "tool"
        /\ i + k < Len(ms) => ms[i + k + 1].role # "tool"
        /\ k < n => IF i + k = Len(ms) THEN over ELSE ms[i + k + 1].role = "user"

\* Each assistant message is followed by results of its calls, and each result
\* belongs to one.
Paired(ms, over) ==
    /\ \A i \in 1..Len(ms) :
         ms[i].role = "assistant" => Answered(ms, i, ms[i].calls, over)
    /\ \A j \in 1..Len(ms) :
         ms[j].role = "tool" => j > 1 /\ ms[j - 1].role \in {"assistant", "tool"}

\* However often the histories were cut, and wherever runs were left, neither
\* the agent's nor its session's has a result without its call, nor a call
\* without its result but the last ones of a run that ended in its batch.
PairsIntact ==
    /\ Paired(messages, phase # "model")
    /\ Paired(SessionMessages, phase # "model" \/ ~heard)

\* At most one summary, which with the messages that are left accounts for n.
Accounts(ms, n) ==
    LET found == {i \in 1..Len(ms) : IsSummary(ms[i])} IN
    /\ Cardinality(found) <= 1
    /\ n = Compactable(ms) +
           (IF found = {} THEN 0 ELSE ms[Max(found)].count)

\* One summary stands for everything that was summarized: it counts each
\* message that tasks or a hand-made history contributed and that is gone,
\* in the agent's history and in its session's.
SummaryIsExact ==
    /\ Accounts(messages, made.agent)
    /\ Accounts(SessionMessages, made.session)

\* A compacted history cannot be compacted again before it has grown, nor can
\* the one that an agent is restored to, so that a usage report of before the
\* compaction, which still signals pressure, costs no second summary until
\* then.
CompactionSettles ==
    /\ settled.agent => ~CanCompact(messages)
    /\ settled.session => ~CanCompact(SessionMessages)

\* The two histories say the same, leading system messages aside: those are
\* the agent's own and left to it.
SameConversation(ms, of) ==
    SubSeq(ms, LeadingSystem(ms) + 1, Len(ms))
      = SubSeq(of, LeadingSystem(of) + 1, Len(of))

\* The session gives a restored agent the history that the agent itself has,
\* messages of roles that are not summarized included, unless something
\* reached only one of them: a hand-made history, a run, response, results or
\* a compaction that was not recorded, results that the agent lost.  A
\* compaction that is recorded and a restore bring them together again.
SessionFollowsState ==
    ~apart /\ event = <<>> => SameConversation(messages, SessionMessages)

-----------------------------------------------------------------------------
(* The inductive invariant.                                                *)

\* What is behind the start of the history, and what is not.
Before(ms) == SubSeq(ms, 1, HistoryStart(ms) - 1)
Turns(ms) == SubSeq(ms, HistoryStart(ms), Len(ms))

\* No compaction takes apart what belongs together: there are no calls or
\* results among the messages it keeps, and no summaries in the turns.
Protected ==
    {m \in MessageSet : /\ m.role # "tool" /\ m.calls = 0
                        /\ IsSummary(m) => m.role = "system"}
OfTurns == {m \in MessageSet : m.role \in CompactableRoles /\ ~IsSummary(m)}

OneSummary(ms) ==
    \A i, j \in 1..Len(ms) : IsSummary(ms[i]) /\ IsSummary(ms[j]) => i = j

\* What holds of the messages of the agent and of those of its session alike,
\* the prompts aside: a restore makes the one the other.  n messages may have
\* been summarized, calm ones cannot be compacted.
HistoryOf(ms, n, calm, over) ==
    /\ Before(ms) \in Seq(Protected) /\ Turns(ms) \in Seq(OfTurns)
    /\ OneSummary(Before(ms))
    /\ n = Compactable(ms) + PreviousCount(Before(ms))
    /\ calm => ~CanCompact(ms)
    /\ Paired(ms, over)

\* A compaction on its way is a history of what the agent has.
EventFollows ==
    event # <<>> =>
        /\ HistoryOf(event, made.agent, TRUE, phase # "model")
        /\ SameConversation(messages, event)

\* The batch is the one of the last message, which a recorder that follows
\* the run has as well.
InBatch ==
    phase = "tools" =>
        /\ event = <<>>
        /\ messages # <<>> /\ Last(messages).role = "assistant"
        /\ heard => /\ SessionMessages # <<>>
                    /\ Last(SessionMessages) = Last(messages)

IInv ==
    /\ TypeOK
    /\ HistoryOf(messages, made.agent, settled.agent, phase # "model")
    /\ HistoryOf(SessionMessages, made.session, settled.session,
                 phase # "model" \/ ~heard)
    /\ EventFollows
    /\ SessionFollowsState
    /\ InBatch

================================================================================
