----------------------------- MODULE PolicyBook -----------------------------
(***************************************************************************)
(* What a governor promises of its policies: a fallback and a map from     *)
(* resources to policies in force, with a generation that counts the       *)
(* changes, and what of it is saved.  Installing a fallback saves it with  *)
(* its generation; the map is saved with a checkpoint only.                *)
(***************************************************************************)
EXTENDS Integers

CONSTANTS Resources, Policies, Configured

VARIABLES current, saved

(* A generation of 2: the constructor installs the configured policy.      *)
Initial == [fallback |-> Configured, map |-> << >>, generation |-> 2]

Init == current = Initial /\ saved = Initial

(* One change of the policies in force, counted once.                      *)
Change ==
    /\ current'.generation = current.generation + 1
    /\ \/ /\ current'.map = current.map
          /\ current'.fallback \in Policies
       \/ /\ current'.fallback = current.fallback
          /\ \E r \in Resources :
                \/ \E policy \in Policies :
                      current'.map = [s \in DOMAIN current.map \cup {r} |->
                                         IF s = r THEN policy ELSE current.map[s]]
                \/ /\ r \in DOMAIN current.map
                   /\ current'.map = [s \in DOMAIN current.map \ {r} |-> current.map[s]]
    /\ UNCHANGED saved

SaveFallback ==
    /\ saved' = [fallback |-> current.fallback, map |-> saved.map,
                  generation |-> current.generation]
    /\ UNCHANGED current

SaveAll == saved' = current /\ UNCHANGED current

Restart == current' = saved /\ UNCHANGED saved

Next == Change \/ SaveFallback \/ SaveAll \/ Restart
Spec == Init /\ [][Next]_<< current, saved >>
=============================================================================
