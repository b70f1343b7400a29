--------------------------- MODULE MCQueueCustody ---------------------------
(* Small instances of QueueCustody for TLC: the daemons are interchangeable. *)
EXTENDS QueueCustody, TLC

Daemons == Permutations(Procs)
=============================================================================
