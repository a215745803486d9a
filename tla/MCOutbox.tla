------------------------------ MODULE MCOutbox ------------------------------
(* Outbox on small sets of events and workers. *)
EXTENDS Outbox, TLC

Symmetry == Permutations(Events) \cup Permutations(Workers)
==============================================================================
