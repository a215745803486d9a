--------------------------- MODULE MCSubscriptions ---------------------------
(* Subscriptions on small sets of events and processes. *)
EXTENDS Subscriptions, TLC

Symmetry == Permutations(Events) \cup Permutations(Handlers) \cup Permutations(Plans)
==============================================================================
