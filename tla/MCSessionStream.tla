--------------------------- MODULE MCSessionStream --------------------------
(* A page, one session and a daemon, for TLC. *)
EXTENDS SessionStream
=============================================================================
