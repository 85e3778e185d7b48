-------------------------- MODULE MCArgoApplication --------------------------
(* Small instances of ArgoApplication for TLC. *)
EXTENDS ArgoApplication, TLC

Symmetry == Permutations(Apps) \cup Permutations(Generated) \cup Permutations(Specs)
=============================================================================
