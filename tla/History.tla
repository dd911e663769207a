------------------------------- MODULE History -------------------------------
(***************************************************************************)
(* Conversation history as the agent core handles it: the shapes of        *)
(* messages that the control flow tells apart, and the full-turn cut that  *)
(* compaction makes (context_management.py, compaction.py).                *)
(*                                                                         *)
(* The leading system prompts of an agent never change during a run and    *)
(* are left out: a history here is state.messages without them.  A message *)
(* is identified by its role and by where it was produced: the run, the    *)
(* turn of that run and, for a tool result, the position of the call.      *)
(***************************************************************************)
EXTENDS Naturals, Sequences

NewMessage(role, r, s, n) ==
    [role |-> role, run |-> r, step |-> s, call |-> n]

User(r) == NewMessage("user", r, 0, 0)

\* An assistant message that requests n tool calls.
Assistant(r, s, n) == NewMessage("assistant", r, s, n)

\* The result message of the i-th call of that assistant message.
ToolResult(r, s, i) == NewMessage("tool", r, s, i)

\* The trusted summary entry, the only system message a history holds.
Summary == NewMessage("summary", 0, 0, 0)

Messages == [role : {"user", "assistant", "tool", "summary"},
             run : Nat, step : Nat, call : Nat]

\* Index of the first message that compaction may summarize: everything
\* before it, a previous summary included, is protected.
HistoryStart(ms) == IF Len(ms) > 0 /\ ms[1] = Summary THEN 2 ELSE 1

\* Mutant: the kept suffix may begin at any message.
MutantCutPoints(ms) == HistoryStart(ms)..Len(ms)

\* Indices at which the kept suffix may begin.  Which one is chosen depends
\* on token estimates; any turn of the history can be the first one kept.
CutPoints(ms) ==
    {HistoryStart(ms)} \cup
    {i \in HistoryStart(ms) + 1 .. Len(ms) : ms[i].role = "user"}

CanCompact(ms, cut) == cut > HistoryStart(ms)

Compacted(ms, cut) == <<Summary>> \o SubSeq(ms, cut, Len(ms))

\* The assistant message at p is followed by one result for each of its
\* calls, in order, which is what a provider requires of a request.
Answered(ms, p) ==
    \A i \in 1..ms[p].call :
        /\ p + i <= Len(ms)
        /\ ms[p + i] = ToolResult(ms[p].run, ms[p].step, i)

\* Positions of assistant messages of the runs in R with unanswered calls.
Dangling(ms, R) ==
    {p \in 1..Len(ms) : /\ ms[p].role = "assistant"
                        /\ ms[p].run \in R
                        /\ ~Answered(ms, p)}

\* Positions of tool results that no assistant message asks for.
Orphans(ms) ==
    {p \in 1..Len(ms) :
        /\ ms[p].role = "tool"
        /\ ~ \E q \in 1..(p - 1) :
                /\ ms[q].role = "assistant"
                /\ ms[q].run = ms[p].run
                /\ ms[q].step = ms[p].step
                /\ p = q + ms[p].call
                /\ ms[p].call <= ms[q].call}
==============================================================================
