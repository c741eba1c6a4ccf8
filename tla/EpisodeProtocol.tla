-------------------------- MODULE EpisodeProtocol --------------------------
(* One detector as Episodes describes it, as a specification.              *)
EXTENDS Episodes

VARIABLES det, decision

vars == << det, decision >>

(* decision is the last one evaluated; a fence and a rearm leave it alone. *)
Init == det = NewDetector /\ decision = Silent(0, Never)

Yields(outcomes) ==
    \E out \in outcomes : det' = out.det /\ decision' = out.decision

Evaluate ==
    \E tick \in Tick, g \in Generation :
        /\ ~(Regenerated(det, g) /\ det.open # Never)
        /\ Yields(Samples(det, decision, tick, g))

Fence == /\ det.open # Never
         /\ \E g \in Generations \cup {det.gen} : det' = [Ended(det) EXCEPT !.gen = g]
         /\ UNCHANGED decision

Rearm == det' = Rearmed(det) /\ UNCHANGED decision

Next == Evaluate \/ Fence \/ Rearm

Spec == Init /\ [][Next]_vars
=============================================================================
