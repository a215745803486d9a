----------------------------- MODULE MCLicensing -----------------------------
(* Licensing on small sets of clients, installations and licenses. *)
EXTENDS Licensing, TLC

Symmetry == Permutations(Clients) \cup Permutations(Installations)
==============================================================================
