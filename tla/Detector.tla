------------------------------ MODULE Detector ------------------------------
(***************************************************************************)
(* The microburst detector of one stream: onset run, episode, release run, *)
(* cooldown and grace, evaluated at most once per tick.                    *)
(*                                                                         *)
(* All timers and every branch of the evaluation are kept.  The evidence   *)
(* window is abstracted to what the rules read of it: the newest tick, on  *)
(* which side of the two depth thresholds the newest depth lies, whether   *)
(* the slope thresholds are met, and how far its samples are admissible    *)
(* apart from freshness, which the detector judges against the clock.      *)
(***************************************************************************)
EXTENDS Ticks, FiniteSets, FiniteSetsExt

CONSTANTS
    Policies,           \* detection policies, records of the type Policy
    Generations,        \* resource generations a sample may carry
    NoGeneration,       \* the invalid resource generation
    StartTick,          \* first tick of the environment's clock
    Horizon,            \* how many ticks the environment's clock runs
    MaxStep,            \* how far one input may move the clock forward
    MaxLate             \* how far an input may lie behind the clock

Policy == [onsetSustain : Nat \ {0}, slopeWindow : Nat, releaseSustain : Nat \ {0},
           cooldown : Nat, maxEpisode : Nat \ {0}, grace : Nat \ {0},
           staleLimit : Nat, reorderTolerance : Nat, allowDegraded : BOOLEAN]

ASSUME DetectorAssumption ==
    /\ Policies \subseteq Policy /\ Policies # {}
    /\ \A p \in Policies : p.slopeWindow >= p.onsetSustain
    /\ NoGeneration \notin Generations
    /\ StartTick \in Tick /\ Horizon \in Nat /\ 2 * Horizon < TickModulus
    /\ MaxStep \in Nat /\ MaxLate \in Nat

(* low: at or below release_depth; high: at or above onset_min_depth.      *)
Depths == {"low", "mid", "high"}

(* What samples, completeness, gaps and capacity allow: full authority, a  *)
(* degraded one if the policy permits it, or none; "unstable" is none      *)
(* because the buffer capacity changed.                                    *)
Grades == {"full", "degraded", "refused", "unstable"}

Window == [has : BOOLEAN, newest : Tick, depth : Depths,
           rise : BOOLEAN, fall : BOOLEAN, grade : Grades]

EmptyWindow == [has |-> FALSE, newest |-> 0, depth |-> "low",
                rise |-> FALSE, fall |-> FALSE, grade |-> "refused"]

States  == {"idle", "active", "recovering"}
Reasons == {"none", "release", "timeout", "stale", "policy", "capacity", "authority"}
Classes == {"unknown", "quiescent", "candidate", "microburst", "degraded",
            "recovering", "fenced"}
Positive == {"microburst", "degraded"}

(* The identity of an episode is its onset tick (and its stream).          *)
Episode == [onset : Tick, lifecycle : {"none", "open", "closed", "fenced"},
            reason : Reasons, closedTick : Tick, policy : Policies]

(* event is the onset of the episode a decision is about.                  *)
Never == TickModulus
Decision == [tick : Tick, class : Classes, event : Tick \cup {Never},
             opened : BOOLEAN, updated : BOOLEAN, closed : BOOLEAN,
             fenced : BOOLEAN, suppressed : BOOLEAN]

VARIABLES
    policy,     \* policy_
    gen,        \* resource_generation_
    state,      \* state_
    ep,         \* episode_
    onset,      \* onset_run_active_, onset_start_tick_, onset_run_ticks_, onset_rise_observed_
    release,    \* release_sustaining_, release_progress_ticks_
    recovery,   \* recovery_start_tick_
    cooldown,   \* cooldown_until_
    doubt,      \* inadmissible_since_set_, inadmissible_since_
    eval,       \* has_evaluated_, last_evaluated_
    last,       \* last_decision_
    window,     \* window_, abstracted
    clock       \* environment: the most advanced tick presented so far

vars == << policy, gen, state, ep, onset, release, recovery, cooldown,
           doubt, eval, last, window, clock >>

NoOnset   == [active |-> FALSE, start |-> 0, ticks |-> 0, rise |-> FALSE]
NoRelease == [on |-> FALSE, ticks |-> 0]
NoDoubt   == [on |-> FALSE, since |-> 0]
NotEvaluated == [has |-> FALSE, tick |-> 0]
NoDecision == [tick |-> 0, class |-> "unknown", event |-> Never,
               opened |-> FALSE, updated |-> FALSE, closed |-> FALSE,
               fenced |-> FALSE, suppressed |-> FALSE]
NoEpisode(p) == [onset |-> 0, lifecycle |-> "none", reason |-> "none",
                 closedTick |-> 0, policy |-> p]

HasOpenEpisode == state \in {"active", "recovering"}

(* configure().                                                            *)
Init ==
    /\ policy \in Policies
    /\ gen = NoGeneration
    /\ state = "idle"
    /\ ep = NoEpisode(policy)
    /\ onset = NoOnset
    /\ release = NoRelease
    /\ recovery = 0
    /\ cooldown = 0
    /\ doubt = NoDoubt
    /\ eval = NotEvaluated
    /\ last = NoDecision
    /\ window = EmptyWindow
    /\ clock = StartTick

-----------------------------------------------------------------------------
(* What one evaluation reads.                                              *)

SaturatingAdd(a, b) == Min({a + b, LastTick})

Gap(now) == IF eval.has THEN ForwardGap(eval.tick, now) ELSE 0

Staleness(w, now) == IF w.has THEN ForwardGap(w.newest, now) ELSE 0

Fresh(w, now) == w.has /\ Staleness(w, now) <= policy.staleLimit

(* The authority of the evidence; staleness is never relaxed.  Mutant: it  *)
(* is.                                                                     *)
AuthorityIgnoringAge(w, now) ==
    CASE w.has /\ w.grade = "full" -> "authoritative"
      [] w.has /\ w.grade = "degraded" /\ policy.allowDegraded -> "degraded"
      [] OTHER -> "none"

Authority(w, now) ==
    CASE Fresh(w, now) /\ w.grade = "full" -> "authoritative"
      [] Fresh(w, now) /\ w.grade = "degraded" /\ policy.allowDegraded -> "degraded"
      [] OTHER -> "none"

(* R1 to R3: the run begins at the first crossing of the onset depth and   *)
(* ends when an admissible evaluation finds the depth below it.  Mutant:   *)
(* the gap before the first crossing counts.                               *)
OnsetAfterCountsGap(w, now) ==
    LET run == IF onset.active
               THEN [onset EXCEPT !.ticks = SaturatingAdd(@, Gap(now))]
               ELSE [active |-> TRUE, start |-> now, ticks |-> Gap(now), rise |-> FALSE]
    IN  IF w.depth # "high" THEN NoOnset
        ELSE [run EXCEPT !.rise = @ \/ (w.rise /\ run.ticks <= policy.slopeWindow)]

OnsetAfter(w, now) ==
    LET run == IF onset.active
               THEN [onset EXCEPT !.ticks = SaturatingAdd(@, Gap(now))]
               ELSE [active |-> TRUE, start |-> now, ticks |-> 0, rise |-> FALSE]
    IN  IF w.depth # "high" THEN NoOnset
        ELSE [run EXCEPT !.rise = @ \/ (w.rise /\ run.ticks <= policy.slopeWindow)]

OnsetConfirmed(run) == run.active /\ run.rise /\ run.ticks >= policy.onsetSustain

(* R5 to R7.                                                               *)
ReleaseNow(w) == w.depth = "low" /\ w.fall

ReleaseAfter(w, now) ==
    IF ~(ReleaseNow(w) /\ HasOpenEpisode) THEN NoRelease
    ELSE [on |-> TRUE,
          ticks |-> IF release.on THEN SaturatingAdd(release.ticks, Gap(now)) ELSE 0]

ReleaseConfirmed(rel) == rel.on /\ rel.ticks >= policy.releaseSustain

InCooldown(now) == TickAfter(now, cooldown)

(* R8, judged on the duration update_episode() has just recorded.  Mutant: *)
(* a tick late.                                                            *)
CeilingLate(e, now) == ForwardGap(e.onset, now) > policy.maxEpisode

Ceiling(e, now) == ForwardGap(e.onset, now) >= policy.maxEpisode

PositiveClass(w, now) ==
    IF Authority(w, now) = "degraded" THEN "degraded" ELSE "microburst"

-----------------------------------------------------------------------------
(* Closing: shared by every way an episode ends.                           *)
(* Mutants: the state machine is not left; no cooldown is started.         *)
CloseEpisodeKeepsState(e, reason, now, fenced) ==
    /\ state' = state
    /\ ep' = [e EXCEPT !.lifecycle = IF fenced THEN "fenced" ELSE "closed",
                       !.reason = reason, !.closedTick = now]
    /\ cooldown' = AddTicksSaturating(now, policy.cooldown)
    /\ onset' = NoOnset /\ release' = NoRelease /\ doubt' = NoDoubt

CloseEpisodeNoCooldown(e, reason, now, fenced) ==
    /\ state' = "idle"
    /\ ep' = [e EXCEPT !.lifecycle = IF fenced THEN "fenced" ELSE "closed",
                       !.reason = reason, !.closedTick = now]
    /\ onset' = NoOnset /\ release' = NoRelease /\ doubt' = NoDoubt
    /\ UNCHANGED cooldown

CloseEpisode(e, reason, now, fenced) ==
    /\ state' = "idle"
    /\ ep' = [e EXCEPT !.lifecycle = IF fenced THEN "fenced" ELSE "closed",
                       !.reason = reason, !.closedTick = now]
    /\ cooldown' = AddTicksSaturating(now, policy.cooldown)
    /\ onset' = NoOnset
    /\ release' = NoRelease
    /\ doubt' = NoDoubt

Conclude(dec) == last' = dec

(* The evaluation of admissible evidence, one action per transition of the *)
(* state machine.  Each ends with the episode ceiling.                     *)
Settle(e, st, on, rel, dec, now) ==
    IF Ceiling(e, now)
    THEN /\ CloseEpisode(e, "timeout", now, FALSE)
         /\ Conclude([dec EXCEPT !.class = "quiescent", !.closed = TRUE])
    ELSE /\ state' = st
         /\ ep' = e
         /\ onset' = on
         /\ release' = rel
         /\ doubt' = NoDoubt
         /\ Conclude(dec)
         /\ UNCHANGED cooldown

DecisionAt(now, class) ==
    [NoDecision EXCEPT !.tick = now, !.class = class, !.suppressed = InCooldown(now)]

UpdateAt(e, now, class) ==
    [DecisionAt(now, class) EXCEPT !.updated = TRUE, !.event = e.onset]

StayIdle(w, now) ==
    LET run == OnsetAfter(w, now)
    IN  /\ state = "idle"
        /\ ~(OnsetConfirmed(run) /\ ~InCooldown(now))
        /\ onset' = run
        /\ release' = NoRelease
        /\ doubt' = NoDoubt
        /\ Conclude(DecisionAt(now, IF run.active THEN "candidate" ELSE "quiescent"))
        /\ UNCHANGED << state, ep, cooldown, recovery >>

OpenEpisode(w, now) ==
    LET run == OnsetAfter(w, now)
        e   == [onset |-> run.start, lifecycle |-> "open", reason |-> "none",
                closedTick |-> 0, policy |-> policy]
        dec == [UpdateAt(e, now, PositiveClass(w, now)) EXCEPT !.opened = TRUE]
    IN  /\ state = "idle"
        /\ OnsetConfirmed(run)
        /\ ~InCooldown(now)
        /\ Settle(e, "active", run, NoRelease, dec, now)
        /\ UNCHANGED recovery

UpdateActive(w, now) ==
    LET rel == ReleaseAfter(w, now)
    IN  /\ state = "active"
        /\ ~ReleaseConfirmed(rel)
        /\ Settle(ep, "active", OnsetAfter(w, now), rel,
                  UpdateAt(ep, now, PositiveClass(w, now)), now)
        /\ UNCHANGED recovery

BeginRecovery(w, now) ==
    LET rel == ReleaseAfter(w, now)
    IN  /\ state = "active"
        /\ ReleaseConfirmed(rel)
        /\ recovery' = now
        /\ Settle(ep, "recovering", OnsetAfter(w, now), rel,
                  UpdateAt(ep, now, "recovering"), now)

(* A re-trigger inside the recovery window merges into the same episode.   *)
MergeOnset(w, now) ==
    LET run == OnsetAfter(w, now)
    IN  /\ state = "recovering"
        /\ run.active
        /\ Settle(ep, "active", run, NoRelease, UpdateAt(ep, now, PositiveClass(w, now)), now)
        /\ UNCHANGED recovery

(* The recovery window is as long as the cooldown.                         *)
RecoveryOver(now) == ForwardGap(recovery, now) >= policy.cooldown

FinishRecovery(w, now) ==
    /\ state = "recovering"
    /\ ~OnsetAfter(w, now).active
    /\ RecoveryOver(now)
    /\ CloseEpisode(ep, "release", now, FALSE)
    /\ Conclude([UpdateAt(ep, now, "quiescent") EXCEPT !.closed = TRUE])
    /\ UNCHANGED recovery

LingerInRecovery(w, now) ==
    /\ state = "recovering"
    /\ ~OnsetAfter(w, now).active
    /\ ~RecoveryOver(now)
    /\ Settle(ep, "recovering", OnsetAfter(w, now), ReleaseAfter(w, now),
              UpdateAt(ep, now, "recovering"), now)
    /\ UNCHANGED recovery

EvaluateAdmissible(w, now) ==
    /\ Authority(w, now) # "none"
    /\ \/ StayIdle(w, now)
       \/ OpenEpisode(w, now)
       \/ UpdateActive(w, now)
       \/ BeginRecovery(w, now)
       \/ MergeOnset(w, now)
       \/ FinishRecovery(w, now)
       \/ LingerInRecovery(w, now)

-----------------------------------------------------------------------------
(* The evaluation of inadmissible evidence: never positive.  An open       *)
(* episode is suspended for the grace, then fenced.  The grace counts from *)
(* the moment evidence stopped being usable and from how far the newest    *)
(* sample has aged past the staleness limit, whichever is more.            *)
DoubtAt(now) == IF doubt.on THEN doubt ELSE [on |-> TRUE, since |-> now]

Held(w, now) ==
    Max({ForwardGap(DoubtAt(now).since, now),
         Max({Staleness(w, now) - policy.staleLimit, 0})})

FenceReason(w, now) ==
    IF Fresh(w, now) /\ w.grade = "unstable" THEN "capacity" ELSE "stale"

UnknownAt(now, class) ==
    [NoDecision EXCEPT !.tick = now, !.class = class,
                       !.event = IF HasOpenEpisode THEN ep.onset ELSE Never]

StayUnknown(now) ==
    /\ ~HasOpenEpisode
    /\ Conclude(UnknownAt(now, "unknown"))
    /\ UNCHANGED << state, ep, cooldown, onset, release, doubt >>

Suspend(w, now) ==
    /\ HasOpenEpisode
    /\ Held(w, now) <= policy.grace
    /\ doubt' = DoubtAt(now)
    /\ Conclude(UnknownAt(now, "recovering"))
    /\ UNCHANGED << state, ep, cooldown, onset, release >>

FenceStale(w, now) ==
    /\ HasOpenEpisode
    /\ Held(w, now) > policy.grace
    /\ CloseEpisode(ep, FenceReason(w, now), now, TRUE)
    /\ Conclude([UnknownAt(now, "fenced") EXCEPT !.closed = TRUE, !.fenced = TRUE])

EvaluateInadmissible(w, now) ==
    /\ Authority(w, now) = "none"
    /\ StayUnknown(now) \/ Suspend(w, now) \/ FenceStale(w, now)
    /\ UNCHANGED recovery

(* Time never runs backwards: an evaluation at a tick that is not after    *)
(* the last one returns the decision of the last one.  Mutant: the same    *)
(* tick is evaluated again.                                                *)
AlreadyEvaluatedPast(now) == eval.has /\ TickAfter(now, eval.tick)

AlreadyEvaluated(now) == eval.has /\ ~TickAfter(eval.tick, now)

EvaluateCached(w, now) ==
    /\ AlreadyEvaluated(now)
    /\ UNCHANGED << state, ep, onset, release, recovery, cooldown, doubt, eval, last >>

EvaluateAfresh(w, now) ==
    /\ ~AlreadyEvaluated(now)
    /\ eval' = [has |-> TRUE, tick |-> now]
    /\ EvaluateAdmissible(w, now) \/ EvaluateInadmissible(w, now)

Evaluate(w, now) == EvaluateCached(w, now) \/ EvaluateAfresh(w, now)

-----------------------------------------------------------------------------
(* Offering a sample to the window.  A sample after the newest is retained *)
(* and so is one before it that is taken for a rollover of the counter: it *)
(* moves the newest tick back.  A refused sample can still declare a       *)
(* capacity change.  A single sample is never enough to classify on.       *)
Retains(w, tick) ==
    \/ ~w.has
    \/ TickAfter(w.newest, tick)
    \/ TakenForRollover(w.newest, tick, policy.reorderTolerance)

Unread(w) ==
    /\ w.rise => w.depth = "high" /\ w.grade \in {"full", "degraded"}
    /\ w.fall => w.depth = "low" /\ w.grade \in {"full", "degraded"}

OfferOutcomes(w, tick) ==
    IF Retains(w, tick)
    THEN {w2 \in [has : {TRUE}, newest : {tick}, depth : Depths, rise : BOOLEAN,
                  fall : BOOLEAN, grade : Grades] :
            Unread(w2) /\ (~w.has => w2.grade = "refused")}
    ELSE {w, [w EXCEPT !.grade = "unstable", !.rise = FALSE, !.fall = FALSE]}

Regenerates(g) == g # NoGeneration /\ gen # NoGeneration /\ g # gen

(* ingest(), the branch that fences: the episode ends, the window is       *)
(* cleared and the sample itself is neither retained nor evaluated.        *)
IngestFences(tick, g) ==
    /\ Regenerates(g)
    /\ HasOpenEpisode
    /\ CloseEpisode(ep, "capacity", tick, TRUE)
    /\ gen' = g
    /\ window' = EmptyWindow
    /\ UNCHANGED << policy, recovery, eval, last >>

(* ingest(), every other sample: retained or not, then evaluated.          *)
IngestEvaluates(tick, g) ==
    /\ ~(Regenerates(g) /\ HasOpenEpisode)
    /\ gen' = IF g = NoGeneration THEN gen ELSE g
    /\ window' \in OfferOutcomes(IF Regenerates(g) THEN EmptyWindow ELSE window, tick)
    /\ Evaluate(window', tick)
    /\ UNCHANGED policy

(* The environment's clock: from StartTick on for Horizon ticks, in bounded *)
(* steps forward and with bounded lateness.                                *)
Life == {tick \in Tick : (tick - StartTick) % TickModulus <= Horizon}

Presents(tick) ==
    /\ tick \in Life
    /\ TickDelta(clock, tick) <= MaxStep
    /\ TickDelta(tick, clock) <= MaxLate
    /\ clock' = IF TickAfter(clock, tick) THEN tick ELSE clock

Ingest(tick, g) ==
    /\ Presents(tick)
    /\ IngestFences(tick, g) \/ IngestEvaluates(tick, g)

Advance(now) ==
    /\ Presents(now)
    /\ UNCHANGED << policy, gen, window >>
    /\ Evaluate(window, now)

(* fence(): an operator, an authority loss or a restart ends the episode.  *)
Fence ==
    /\ HasOpenEpisode
    /\ CloseEpisode(ep, "authority", clock, TRUE)
    /\ UNCHANGED << policy, gen, recovery, eval, last, window, clock >>

(* rearm(): a policy change fences the open episode under the old policy,  *)
(* then clears everything but the cooldown and the resource generation.    *)
Rearm(p) ==
    /\ IF HasOpenEpisode
       THEN CloseEpisode(ep, "policy", clock, TRUE)
       ELSE /\ onset' = NoOnset
            /\ release' = NoRelease
            /\ doubt' = NoDoubt
            /\ UNCHANGED << state, ep, cooldown >>
    /\ policy' = p
    /\ window' = EmptyWindow
    /\ eval' = NotEvaluated
    /\ UNCHANGED << gen, recovery, last, clock >>

Next ==
    \/ \E tick \in Tick, g \in Generations \cup {NoGeneration} : Ingest(tick, g)
    \/ \E now \in Tick : Advance(now)
    \/ Fence
    \/ \E p \in Policies : Rearm(p)

Spec == Init /\ [][Next]_vars

-----------------------------------------------------------------------------
(* Properties.                                                             *)

(* The timers, the episode and the decision stay in their ranges, and the  *)
(* episode is open exactly when the state machine says so.                 *)
TypeOK ==
    /\ policy \in Policies
    /\ gen \in Generations \cup {NoGeneration}
    /\ state \in States
    /\ ep \in Episode
    /\ (ep.lifecycle = "open") = HasOpenEpisode
    /\ onset \in [active : BOOLEAN, start : Tick, ticks : Tick, rise : BOOLEAN]
    /\ release \in [on : BOOLEAN, ticks : Tick]
    /\ recovery \in Tick /\ cooldown \in Tick
    /\ doubt \in [on : BOOLEAN, since : Tick]
    /\ eval \in [has : BOOLEAN, tick : Tick]
    /\ last \in Decision
    /\ window \in Window
    /\ clock \in Tick

(* A step that evaluates afresh, whose decision is `last'.                 *)
EvaluatesNow == eval'.has /\ eval' # eval

(* Cooldowns are shorter than half the tick range, as validation demands   *)
(* of them, and none reaches the last tick, where the sum would saturate.  *)
CooldownsFit ==
    \A p \in Policies : /\ 2 * p.cooldown < TickModulus
                        /\ StartTick + Horizon + p.cooldown <= LastTick

(* No sample as late as samples get is taken for a rollover: the policies  *)
(* tolerate no reordering, nothing is late, or the ticks presented are not *)
(* near the end of the range.                                              *)
NoFalseRollover ==
    \A p \in Policies, newest \in Life, tick \in Life :
        Backwards(newest, tick) <= MaxLate
            => ~TakenForRollover(newest, tick, p.reorderTolerance)

(* A closed episode enters a cooldown during which a new episode cannot    *)
(* open: an opening is at least the closing policy's cooldown after the    *)
(* last close, whatever closed it and whatever policy is in force now.     *)
CooldownHonoured ==
    [][(state = "idle" /\ EvaluatesNow /\ last'.opened /\ ep.lifecycle # "none")
        => (eval'.tick - ep.closedTick) % TickModulus >= ep.policy.cooldown]_vars

(* The sustain an opening rests on is elapsed time: the run began at least *)
(* onset_sustain_ticks before, and its ticks never exceed what has passed. *)
SustainIsElapsed ==
    /\ onset.active => onset.ticks <= ForwardGap(onset.start, eval.tick)
    /\ HasOpenEpisode => ForwardGap(ep.onset, eval.tick) >= ep.policy.onsetSustain

(* An open episode is bounded: with admissible evidence by the ceiling,    *)
(* without it by the grace, from the first doubt and from staleness (which *)
(* a sample taken for a rollover can set back, see NoFalseRollover).       *)
OpenEpisodeBounded ==
    HasOpenEpisode =>
        IF doubt.on
        THEN /\ ForwardGap(doubt.since, eval.tick) <= policy.grace
             /\ ForwardGap(window.newest, eval.tick) <= policy.staleLimit + policy.grace
        ELSE ForwardGap(ep.onset, eval.tick) < policy.maxEpisode

(* UNKNOWN cannot become a detection: a positive evaluation is made on     *)
(* evidence that is fresh at that tick, and leaves an episode open.        *)
PositiveIsJustified ==
    [][(EvaluatesNow /\ last'.class \in Positive)
        => /\ state' = "active"
           /\ window'.has /\ Staleness(window', eval'.tick) <= policy'.staleLimit]_vars

(* What the code that drives a detector relies on: at most one open        *)
(* episode, opened on an onset run that began before, one decision per     *)
(* tick, closed exactly once by the evaluation or the fence that ends it.  *)
Protocol == INSTANCE EpisodeProtocol WITH
    Unset <- NoGeneration,
    det <- [gen  |-> gen,
            eval |-> IF eval.has THEN eval.tick ELSE Never,
            run  |-> IF onset.active /\ ~HasOpenEpisode THEN onset.start ELSE Never,
            open |-> IF HasOpenEpisode THEN ep.onset ELSE Never],
    decision <- [tick |-> last.tick,
                 event |-> last.event,
                 opened |-> last.opened, updated |-> last.updated,
                 closed |-> last.closed, fenced |-> last.fenced,
                 positive |-> last.class \in Positive]
KeepsProtocol == Protocol!Spec
=============================================================================
