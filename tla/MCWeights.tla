----------------------------- MODULE MCWeights -----------------------------
(* Instances of Weights for TLC. *)
EXTENDS Weights, TLC

Symmetry == Permutations(Pods)
=============================================================================
