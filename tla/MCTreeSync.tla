----------------------------- MODULE MCTreeSync -----------------------------
(* A page and a daemon, for TLC. *)
EXTENDS TreeSync
=============================================================================
