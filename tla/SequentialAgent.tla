---------------------------- MODULE SequentialAgent ----------------------------
(***************************************************************************)
(* What an agent promises the tasks that share it: their operations are    *)
(* carried out one at a time, in the order in which they were asked for;   *)
(* a task may give its place up; and the conversation is only replaced     *)
(* while no operation is carried out.  AgentOperations implements this.    *)
(***************************************************************************)
EXTENDS Naturals, Sequences

CONSTANT Callers   \* tasks that use the agent

VARIABLES
    phase,    \* what each caller is doing
    line,     \* those who wait, in order
    epoch     \* which conversation the agent holds

vars == <<phase, line, epoch>>

Init ==
    /\ phase = [c \in Callers |-> "out"]
    /\ line = <<>>
    /\ epoch = 0

Nobody == \A c \in Callers : phase[c] # "working"

\* Nobody is working or waiting: the operation begins at once.
BeginAtOnce(c) ==
    /\ phase[c] = "out"
    /\ Nobody
    /\ line = <<>>
    /\ phase' = [phase EXCEPT ![c] = "working"]
    /\ UNCHANGED <<line, epoch>>

LineUp(c) ==
    /\ phase[c] = "out"
    /\ phase' = [phase EXCEPT ![c] = "waiting"]
    /\ line' = Append(line, c)
    /\ UNCHANGED epoch

\* The first in line is served, when nobody is working.
Serve(c) ==
    /\ phase[c] = "waiting"
    /\ Nobody
    /\ line # <<>>
    /\ c = Head(line)
    /\ line' = Tail(line)
    /\ phase' = [phase EXCEPT ![c] = "working"]
    /\ UNCHANGED epoch

Finish(c) ==
    /\ phase[c] = "working"
    /\ phase' = [phase EXCEPT ![c] = "out"]
    /\ UNCHANGED <<line, epoch>>

\* The order of the others stays.
GiveUp(c) ==
    /\ phase[c] = "waiting"
    /\ \E i \in 1..Len(line) :
        /\ line[i] = c
        /\ line' = SubSeq(line, 1, i - 1) \o SubSeq(line, i + 1, Len(line))
    /\ phase' = [phase EXCEPT ![c] = "out"]
    /\ UNCHANGED epoch

ReplaceConversation ==
    /\ Nobody
    /\ epoch' = 1 - epoch
    /\ UNCHANGED <<phase, line>>

Next ==
    \/ \E c \in Callers :
        BeginAtOnce(c) \/ LineUp(c) \/ Serve(c) \/ Finish(c) \/ GiveUp(c)
    \/ ReplaceConversation

Spec == Init /\ [][Next]_vars
=================================================================================
