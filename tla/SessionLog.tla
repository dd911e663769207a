------------------------------- MODULE SessionLog -------------------------------
(***************************************************************************)
(* What a session's storage promises those who append to it: one log of    *)
(* immutable records that grows by a record at a time, of which only an    *)
(* unreported suffix may be lost.  SessionJournal implements it with a     *)
(* file, as long as one thread writes.                                     *)
(***************************************************************************)
EXTENDS Naturals, SequencesExt

VARIABLES
    log,     \* the records, in the order in which they were written
    acked    \* those whose append was reported to its caller

vars == <<log, acked>>

Init == log = <<>> /\ acked = {}

\* A record is written behind the others, reported yet or not.
Write ==
    /\ Len(log') = Len(log) + 1
    /\ IsPrefix(log, log')
    /\ UNCHANGED acked

\* The append of a record that is in the log is reported.
Acknowledge ==
    /\ \E line \in Range(log) : acked' = acked \cup {line}
    /\ UNCHANGED log

\* A crash loses a suffix in which nothing was reported.
Lose ==
    /\ IsPrefix(log', log)
    /\ acked \subseteq Range(log')
    /\ UNCHANGED acked

Next == Write \/ Acknowledge \/ Lose

Spec == Init /\ [][Next]_vars
=================================================================================
