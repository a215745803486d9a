---------------------------- MODULE MCUsageLedger ----------------------------
(* UsageLedger on small sets of keys and processes. *)
EXTENDS UsageLedger, TLC

Refunds == {-1}

Symmetry == Permutations(ResKeys) \cup Permutations(EventKeys) \cup Permutations(Clients)
==============================================================================
