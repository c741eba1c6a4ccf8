----------------------------- MODULE MCGovernor -----------------------------
(* Small intervention policies and stream layouts for Governor.            *)
EXTENDS Governor, TLC

Limit(severity, ttl) == [enabled |-> TRUE, severity |-> severity, ttl |-> ttl]

(* Up to two intents a stream and three in all; kind 1 only when severe.   *)
Wide == [kinds |-> [k \in Kinds |-> Limit(IF k = 1 THEN 2 ELSE 1, 2)],
         authoritative |-> FALSE, perStream |-> 2, total |-> 3]

(* One intent, on authoritative evidence only, for one tick.               *)
Narrow == [kinds |-> [k \in Kinds |-> Limit(1, 1)],
           authoritative |-> TRUE, perStream |-> 1, total |-> 1]

WideOnly == {Wide}
WideAndNarrow == {Wide, Narrow}

OnOneResource   == [s \in Streams |-> CHOOSE r \in Resources : TRUE]
IdentitySymmetry == Permutations(Generations) \cup Permutations(Incarnations)
=============================================================================
