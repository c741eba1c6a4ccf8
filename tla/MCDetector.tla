----------------------------- MODULE MCDetector -----------------------------
(* Small detection policies for Detector.                                  *)
EXTENDS Detector, TLC

Strict == [onsetSustain |-> 1, slopeWindow |-> 1, releaseSustain |-> 1, cooldown |-> 2,
           maxEpisode |-> 4, grace |-> 1, staleLimit |-> 1, reorderTolerance |-> 0,
           allowDegraded |-> FALSE]

Lenient == [Strict EXCEPT !.cooldown = 3, !.reorderTolerance = 1, !.allowDegraded = TRUE]

GenerationSymmetry == Permutations(Generations)

BothPolicies == {Strict, Lenient}

(* The policies checked are among those the theorem on cooldowns is about. *)
ASSUME MCCooldownsFit == CooldownsFit

(* No sample of the run is taken for a rollover it is not.                 *)
ASSUME MCNoFalseRollover == NoFalseRollover
=============================================================================
