---------------------------- MODULE MCQueueStore ----------------------------
(* A small instance of QueueStore for TLC. *)
EXTENDS QueueStore

MCTTL == [s \in Terminal |-> IF s = "sent" THEN 0 ELSE 1]
MCCap == [s \in Terminal |-> 1]
=============================================================================
