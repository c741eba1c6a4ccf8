--------------------------- MODULE MCCoordinator ---------------------------
(* Symmetry for Coordinator, for the runs without liveness.                *)
EXTENDS Coordinator, TLC

PeerSymmetry == Permutations(Connections) \cup Permutations(Workers)
=============================================================================
