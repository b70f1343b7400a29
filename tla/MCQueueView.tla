---------------------------- MODULE MCQueueView ----------------------------
(* Small instances of QueueView for TLC. *)
EXTENDS QueueView, TLC
=============================================================================
