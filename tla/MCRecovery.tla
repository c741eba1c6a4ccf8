----------------------------- MODULE MCRecovery -----------------------------
(* Symmetry for Recovery.                                                  *)
EXTENDS Recovery

EpisodeSymmetry == Permutations(Episodes)
=============================================================================
