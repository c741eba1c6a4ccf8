------------------------------ MODULE PolicySet ------------------------------
(***************************************************************************)
(* PolicySet: one fallback policy and a bounded list of overrides, one for *)
(* each resource, found through an index of positions in the list.  Every  *)
(* accepted mutation advances the generation; an exhausted generation      *)
(* refuses all of them.  The policies are valid ones.                      *)
(***************************************************************************)
EXTENDS Integers, Sequences, SequencesExt

CONSTANTS
    Resources,
    Policies,
    MaxOverrides,       \* limits::kMaxPolicyOverrides
    MaxGeneration       \* the last value of the generation's type

ASSUME PolicySetAssumption == MaxOverrides \in Nat /\ MaxGeneration \in Nat \ {0, 1}

Override == [resource : Resources, policy : Policies]

With(map, key, value) ==
    [k \in DOMAIN map \cup {key} |-> IF k = key THEN value ELSE map[k]]

(* Positions of the resources in a list of overrides.                      *)
IndexOf(overrides) ==
    [r \in {overrides[i].resource : i \in DOMAIN overrides} |->
        CHOOSE i \in DOMAIN overrides : overrides[i].resource = r]

(* A set as recovery builds it; a new one has generation 1.                *)
PolicySetOf(fallback, overrides, generation) ==
    [fallback |-> fallback, overrides |-> overrides, index |-> IndexOf(overrides),
     generation |-> generation]

Exhausted(set) == set.generation = MaxGeneration
HasOverride(set, r) == r \in DOMAIN set.index

(* The set after an accepted mutation.                                     *)
Bumped(set, fallback, overrides, index) ==
    [fallback |-> fallback, overrides |-> overrides, index |-> index,
     generation |-> set.generation + 1]

SetFallback(set, policy) == Bumped(set, policy, set.overrides, set.index)

(* The conditions under which set_override() and remove_override() succeed.*)
AcceptsOverride(set, r) ==
    /\ HasOverride(set, r) \/ Len(set.overrides) < MaxOverrides
    /\ ~Exhausted(set)
AcceptsRemoval(set, r) == HasOverride(set, r) /\ ~Exhausted(set)

SetOverride(set, r, policy) ==
    LET entry == [resource |-> r, policy |-> policy]
    IN  IF HasOverride(set, r)
        THEN Bumped(set, set.fallback, [set.overrides EXCEPT ![set.index[r]] = entry], set.index)
        ELSE Bumped(set, set.fallback, Append(set.overrides, entry),
                    With(set.index, r, Len(set.overrides) + 1))

(* Mutant: the positions behind the removed one are not renumbered.        *)
RemoveOverrideKeepsIndex(set, r) ==
    Bumped(set, set.fallback, RemoveAt(set.overrides, set.index[r]),
           [s \in DOMAIN set.index \ {r} |-> set.index[s]])

RemoveOverride(set, r) ==
    PolicySetOf(set.fallback, RemoveAt(set.overrides, set.index[r]), set.generation + 1)

Resolve(set, r) ==
    IF HasOverride(set, r) THEN set.overrides[set.index[r]].policy ELSE set.fallback
=============================================================================
