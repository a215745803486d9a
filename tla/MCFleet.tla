------------------------------- MODULE MCFleet -------------------------------
EXTENDS Fleet, TLC

(* Every installation is in the middle of the rollout. *)
Middle == [x \in Campaigns \X Installations |-> 5000]

Symmetry == Permutations(Operators) \cup Permutations(Contents)
==============================================================================
