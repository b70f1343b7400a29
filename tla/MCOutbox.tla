------------------------------ MODULE MCOutbox ------------------------------
(* Small instances of Outbox for TLC. *)
EXTENDS Outbox, TLC

\* Tabs, and passes, are interchangeable.
Symmetry == {p @@ q : p \in Permutations(Tabs), q \in Permutations(Slots)}
=============================================================================
