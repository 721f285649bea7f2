----------------------------- MODULE MCDossier -----------------------------
\* Instances of Dossier for TLC.
EXTENDS Dossier, TLC

Symmetry == Permutations(Tasks) \cup Permutations(Repos)
=============================================================================
