------------------------- MODULE MCSessionProgress -------------------------
(* Small instances of SessionProgress for TLC. *)
EXTENDS SessionProgress, TLC

\* One agent is enforced by name, another switched off, the rest observed.
First == CHOOSE s \in Sessions : TRUE
MCAgentOf == [s \in Sessions |-> IF s = First THEN "build" ELSE "plan"]
MCEntries == [build |-> "enforce", plan |-> "off"] @@ ("*" :> "audit")

MCLeaseTime == [mechanical |-> 1, semantic |-> 2]
MCMaxDenials == [mechanical |-> 1, semantic |-> 2]
=============================================================================
