--------------------------- MODULE MCQueueDispatch --------------------------
(* Small instances of QueueDispatch for TLC. *)
EXTENDS QueueDispatch
=============================================================================
