------------------------------ MODULE Aggregates ------------------------------
(***************************************************************************)
(* What loops over a list compute: the sum of its numbers and the list of  *)
(* those of its elements that are in a set.  Recursive functions, so that  *)
(* proofs can be made about them.                                          *)
(***************************************************************************)
EXTENDS Naturals, Sequences

\* The sum of a sequence of numbers.
Total(numbers) ==
    LET total[i \in 0..Len(numbers)] ==
            IF i = 0 THEN 0 ELSE total[i - 1] + numbers[i]
    IN  total[Len(numbers)]

\* The elements of s that are in S, in order.
Selected(s, S) ==
    LET selected[i \in 0..Len(s)] ==
            IF i = 0 THEN <<>>
            ELSE IF s[i] \in S THEN Append(selected[i - 1], s[i])
            ELSE selected[i - 1]
    IN  selected[Len(s)]
================================================================================
