---------------------------- MODULE MCProviderStream ----------------------------
(* A usage report without the count of cached tokens and one with it.       *)
EXTENDS ProviderStream

MCReports == {[input |-> 1, cached |-> NoCount], [input |-> 2, cached |-> 1]}
=================================================================================
