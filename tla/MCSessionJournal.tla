--------------------------- MODULE MCSessionJournal ---------------------------
(* SessionJournal for TLC: recorders and threads are interchangeable.        *)
EXTENDS SessionJournal, TLC

Symmetry == Permutations(Recorders) \cup Permutations(Threads)

\* One agent on one branch.
Alone == [branches |-> {Main}, recorders |-> 1, shared |-> FALSE,
          save |-> FALSE, messages |-> 1, records |-> 4]
\* One agent and branches made beside it.
Tree == [Alone EXCEPT !.branches = Branches]
\* Two agents on one branch that is also saved.
Together == [branches |-> {Main}, recorders |-> 2, shared |-> TRUE,
             save |-> TRUE, messages |-> 0, records |-> 3]

AloneOnly == {Alone}
TreeAndTogether == {Tree, Together}
\* Three records of one agent are enough for two threads to meet.
Brief == {[Alone EXCEPT !.records = 3]}
===============================================================================
