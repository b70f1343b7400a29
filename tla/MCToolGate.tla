----------------------------- MODULE MCToolGate -----------------------------
(* Small instances of ToolGate for TLC. *)
EXTENDS ToolGate

\* Partial configuration files: a mode alone, a mode with its stub or its
\* fallback, an invalid value, a switch.
MCBodies == {[mode |-> "live-tiered"],
             [mode |-> "live", onUncertain |-> "passthrough"],
             [mode |-> "enforce", stub |-> "allow"],
             [mode |-> "other", enabled |-> "no"]}
=============================================================================
