----------------------------- MODULE BoundedLog -----------------------------
(***************************************************************************)
(* What a bounded evidence buffer promises: the most recent Capacity       *)
(* accepted entries, oldest first, and nothing else.                       *)
(***************************************************************************)
EXTENDS Naturals, Sequences

CONSTANTS Capacity, Entries

VARIABLE log

Init == log = << >>

Accept(e) == log' = IF Len(log) = Capacity THEN Append(Tail(log), e)
                                           ELSE Append(log, e)

Clear == log' = << >>

Next == Clear \/ \E e \in Entries : Accept(e)

Spec == Init /\ [][Next]_log
=============================================================================
