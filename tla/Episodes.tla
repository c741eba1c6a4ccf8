------------------------------ MODULE Episodes ------------------------------
(***************************************************************************)
(* What one detector promises to the code that drives it: at most one open *)
(* episode, named by its onset tick; one decision per tick, the repeated   *)
(* call returning the last one; an opening that rests on an onset run; a   *)
(* close of exactly the open episode; a fence when the resource changes.   *)
(*                                                                         *)
(* Why a decision comes out as it does is Detector's business, which       *)
(* implements EpisodeProtocol; Governor is built on these operators.       *)
(***************************************************************************)
EXTENDS Ticks

CONSTANTS
    Generations,        \* resource generations
    Unset,              \* the invalid generation
    Never               \* no tick

ASSUME ProtocolAssumption == Unset \notin Generations /\ Never \notin Tick

Generation == Generations \cup {Unset}
When       == Tick \cup {Never}

(* gen: resource generation last seen; eval: last evaluated tick; run:     *)
(* start of the onset run of an idle detector; open: the onset of the open *)
(* episode.                                                                *)
DetectorState == [gen : Generation, eval : When, run : When, open : When]

(* event is the onset of the episode the decision is about.                *)
Decision == [tick : Tick, event : When, opened : BOOLEAN, updated : BOOLEAN,
             closed : BOOLEAN, fenced : BOOLEAN, positive : BOOLEAN]

NewDetector == [gen |-> Unset, eval |-> Never, run |-> Never, open |-> Never]

Silent(now, event) ==
    [tick |-> now, event |-> event, opened |-> FALSE, updated |-> FALSE,
     closed |-> FALSE, fenced |-> FALSE, positive |-> FALSE]

Outcome(d, dec) == [det |-> d, decision |-> dec]

Ended(d) == [d EXCEPT !.run = Never, !.open = Never]

-----------------------------------------------------------------------------
(* One evaluation.                                                         *)

Repeats(d, now) == d.eval # Never /\ ~TickAfter(d.eval, now)

(* An idle detector starts, keeps or drops its onset run.                  *)
Quiet(d, now) ==
    {Outcome([d EXCEPT !.run = r], Silent(now, Never)) :
        r \in {Never, IF d.run = Never THEN now ELSE d.run}}

(* It opens an episode only on a run that began before; an episode already *)
(* at its ceiling is closed by the same evaluation.                        *)
Openings(d, now) ==
    LET dec == [Silent(now, d.run) EXCEPT !.opened = TRUE, !.updated = TRUE]
    IN  IF d.run = Never \/ ~TickAfter(d.run, now) THEN {}
        ELSE {Outcome([d EXCEPT !.run = Never, !.open = d.run],
                      [dec EXCEPT !.positive = TRUE]),
              Outcome(Ended(d), [dec EXCEPT !.closed = TRUE])}

(* An open episode is suspended, updated, closed or fenced.                *)
Continuations(d, now) ==
    LET none == Silent(now, d.open)
    IN  {Outcome(d, none),
         Outcome(d, [none EXCEPT !.updated = TRUE]),
         Outcome(d, [none EXCEPT !.updated = TRUE, !.positive = TRUE]),
         Outcome(Ended(d), [none EXCEPT !.updated = TRUE, !.closed = TRUE]),
         Outcome(Ended(d), [none EXCEPT !.closed = TRUE, !.fenced = TRUE])}

Afresh(d, now) ==
    LET e == [d EXCEPT !.eval = now]
    IN  IF d.open = Never THEN Quiet(e, now) \cup Openings(e, now)
                          ELSE Continuations(e, now)

(* A repeated evaluation changes nothing and returns the last decision.    *)
Evaluations(d, last, now) ==
    IF Repeats(d, now) THEN {Outcome(d, last)} ELSE Afresh(d, now)

(* A sample of a resource that was reconfigured fences the open episode    *)
(* and is not evaluated.                                                   *)
Regenerated(d, g) == g # Unset /\ d.gen # Unset /\ g # d.gen

Samples(d, last, tick, g) ==
    LET e == [d EXCEPT !.gen = IF g = Unset THEN @ ELSE g]
    IN  IF Regenerated(d, g) /\ d.open # Never
        THEN {Outcome(Ended(e), [Silent(tick, d.open) EXCEPT !.closed = TRUE,
                                                             !.fenced = TRUE])}
        ELSE Evaluations(e, last, tick)

(* A policy change ends the episode and forgets the run and the evaluation.*)
Rearmed(d) == [Ended(d) EXCEPT !.eval = Never]
=============================================================================
