--------------------------- MODULE DetectorProofs ---------------------------
(***************************************************************************)
(* What Detector guarantees for every policy and tick range, wherever in   *)
(* the range it starts, as long as its life is shorter than half of it.    *)
(* Ticks are compared modulo TickModulus; the proofs replace a tick by its *)
(* age, the distance from the first tick, which is compared as a number.   *)
(* Only the bound on an open episode needs NoFalseRollover: near the end   *)
(* of the range a late sample may be taken for a rollover.                 *)
(***************************************************************************)
EXTENDS Detector, NumberProofs

Age(t) == (t - StartTick) % TickModulus

(* The ticks the environment presents.                                     *)
Past == {t \in Tick : Age(t) <= Horizon}

(* They are the life of its clock.                                         *)
LEMMA PastIsLife ==
    Past = Life
BY DEF Past, Life, Age

(* What is remembered of time was presented, and an onset run counts no    *)
(* more than what has passed.                                              *)
Remembered ==
    /\ clock \in Past
    /\ eval.has => eval.tick \in Past
    /\ window.has => window.newest \in Past
    /\ doubt.on => doubt.since \in Past
    /\ onset.active => /\ eval.has /\ onset.start \in Past
                       /\ Age(onset.start) + onset.ticks <= Age(eval.tick)

(* An open episode rests on evidence and on a sustained run, and is judged *)
(* by the policy it was opened under.                                      *)
OpenIsSupported ==
    HasOpenEpisode =>
        /\ eval.has /\ window.has /\ ep.onset \in Past /\ ep.policy = policy
        /\ Age(ep.onset) + policy.onsetSustain <= Age(eval.tick)

(* The cooldown is that of the last close.                                 *)
CooldownOfClose ==
    ep.lifecycle \in {"closed", "fenced"} =>
        /\ ep.closedTick \in Past
        /\ cooldown = AddTicksSaturating(ep.closedTick, ep.policy.cooldown)

IInv == TypeOK /\ Remembered /\ OpenIsSupported /\ CooldownOfClose

(* The newest sample never lies ahead of the clock.  With it an open       *)
(* episode stays bounded, as long as no late sample moves the newest back. *)
Behind == window.has => Age(window.newest) <= Age(clock)

BInv == IInv /\ OpenEpisodeBounded /\ Behind

-----------------------------------------------------------------------------
(* Distances of ticks.                                                      *)

(* Half of an even modulus.                                                *)
LEMMA HalfIs ==
    TickModulus \div 2 \in Nat /\ 2 * (TickModulus \div 2) = TickModulus
BY TickModulusAssumption

(* The remainder of a number less than a modulus away from zero.           *)
LEMMA RemainderIs ==
    ASSUME NEW x \in Int, -TickModulus < x, x < TickModulus
    PROVE  x % TickModulus = IF x >= 0 THEN x ELSE x + TickModulus
BY RemainderOf, TickModulusAssumption

(* The signed and the unsigned distance of two ticks (tick_delta()).       *)
LEMMA DeltaIs ==
    ASSUME NEW a \in Tick, NEW b \in Tick
    PROVE  /\ (b - a) % TickModulus = IF b >= a THEN b - a ELSE b - a + TickModulus
           /\ (b - a) % TickModulus \in 0 .. TickModulus - 1
           /\ TickDelta(a, b) \in Int
           /\ TickDelta(a, b) = IF 2 * ((b - a) % TickModulus) < TickModulus
                                THEN (b - a) % TickModulus
                                ELSE ((b - a) % TickModulus) - TickModulus
<1> DEFINE d == (b - a) % TickModulus
           h == TickModulus \div 2
<1>1. h \in Nat /\ 2 * h = TickModulus
  BY HalfIs
<1>2. d = (IF b >= a THEN b - a ELSE b - a + TickModulus) /\ d \in 0 .. TickModulus - 1
  BY DifferenceOf, TickModulusAssumption DEF Tick
<1>3. TickDelta(a, b) = IF d < h THEN d ELSE d - TickModulus
  BY DEF TickDelta
<1> HIDE DEF d, h
<1>4. /\ TickDelta(a, b) \in Int
      /\ TickDelta(a, b) = IF 2 * d < TickModulus THEN d ELSE d - TickModulus
  BY <1>1, <1>2, <1>3, TickModulusAssumption
<1> QED
  BY <1>2, <1>4 DEF d

-----------------------------------------------------------------------------
(* Arithmetic.                                                             *)

(* An age is a small number, and differs from the tick by a constant or    *)
(* by a turn.                                                              *)
LEMMA AgeIs ==
    ASSUME NEW t \in Tick
    PROVE  Age(t) = IF t >= StartTick THEN t - StartTick ELSE t - StartTick + TickModulus
BY RemainderIs, TickModulusAssumption, DetectorAssumption DEF Age, Tick

(* Two ticks are as far apart as their ages.                               *)
LEMMA DistanceIs ==
    ASSUME NEW a \in Past, NEW b \in Past
    PROVE  /\ Age(a) \in Nat /\ Age(b) \in Nat /\ a \in Tick /\ b \in Tick
           /\ TickAfter(a, b) <=> Age(a) < Age(b)
           /\ TickDelta(a, b) = Age(b) - Age(a)
           /\ ForwardGap(a, b) \in Nat
           /\ ForwardGap(a, b) = IF Age(a) < Age(b) THEN Age(b) - Age(a) ELSE 0
           /\ (b - a) % TickModulus = IF Age(a) <= Age(b) THEN Age(b) - Age(a)
                                      ELSE Age(b) - Age(a) + TickModulus
<1> DEFINE h == TickModulus \div 2
<1>1. a \in Tick /\ b \in Tick /\ Age(a) <= Horizon /\ Age(b) <= Horizon
  BY DEF Past
<1>2. /\ a \in Nat /\ b \in Nat /\ a < TickModulus /\ b < TickModulus
      /\ StartTick \in Nat /\ StartTick < TickModulus /\ Horizon \in Nat
      /\ 2 * Horizon < TickModulus /\ TickModulus \in Nat
  BY <1>1, TickModulusAssumption, DetectorAssumption DEF Tick
<1>3. h \in Nat /\ 2 * h = TickModulus
  BY HalfIs
<1>4. (b - a) % TickModulus = IF b >= a THEN b - a ELSE b - a + TickModulus
  BY <1>2, RemainderIs
<1>5. /\ Age(a) = IF a >= StartTick THEN a - StartTick ELSE a - StartTick + TickModulus
      /\ Age(b) = IF b >= StartTick THEN b - StartTick ELSE b - StartTick + TickModulus
  BY <1>1, AgeIs
<1>6. TickDelta(a, b) = LET d == (b - a) % TickModulus IN IF d < h THEN d ELSE d - TickModulus
  BY DEF TickDelta
<1> HIDE DEF h
<1>7. (b - a) % TickModulus = IF Age(a) <= Age(b) THEN Age(b) - Age(a)
                              ELSE Age(b) - Age(a) + TickModulus
  BY <1>1, <1>2, <1>4, <1>5
<1>8. TickDelta(a, b) = Age(b) - Age(a)
  BY <1>1, <1>2, <1>3, <1>5, <1>6, <1>7
<1> QED
  BY <1>1, <1>2, <1>5, <1>7, <1>8 DEF TickAfter, ForwardGap

(* Ticks and policies are numbers.                                         *)
LEMMA Numbers ==
    /\ 0 \in Tick /\ LastTick \in Tick /\ Tick \subseteq Nat /\ TickModulus \in Nat
    /\ Horizon \in Nat /\ Past \subseteq Tick /\ Horizon <= LastTick
    /\ \A p \in Policies :
           /\ p \in Policy /\ p.onsetSustain \in Nat \ {0} /\ p.cooldown \in Nat
           /\ p.maxEpisode \in Nat \ {0} /\ p.grace \in Nat \ {0} /\ p.staleLimit \in Nat
BY TickModulusAssumption, DetectorAssumption DEF Tick, LastTick, Past, Policy

(* Saturating sums are ticks.                                              *)
LEMMA SaturatingIs ==
    ASSUME NEW a \in Nat, NEW b \in Nat
    PROVE  /\ SaturatingAdd(a, b) \in Tick /\ SaturatingAdd(a, b) <= a + b
           /\ AddTicksSaturating(a, b) \in Tick
           /\ a + b <= LastTick => AddTicksSaturating(a, b) = a + b
<1>1. SaturatingAdd(a, b) = IF a + b <= LastTick THEN a + b ELSE LastTick
  BY MinIs, Numbers DEF SaturatingAdd
<1> QED
  BY <1>1, TickModulusAssumption DEF AddTicksSaturating, LastTick, Tick

-----------------------------------------------------------------------------
(* The shape of the steps.                                                 *)

OnsetRun == [active : BOOLEAN, start : Tick, ticks : Tick, rise : BOOLEAN]
ReleaseRun == [on : BOOLEAN, ticks : Tick]

(* The time since the last evaluation.                                     *)
LEMMA GapIs ==
    ASSUME IInv, NEW now \in Past, ~AlreadyEvaluated(now)
    PROVE  /\ Gap(now) \in Nat
           /\ eval.has => Age(eval.tick) < Age(now) /\ Gap(now) = Age(now) - Age(eval.tick)
<1>1. CASE ~eval.has
  BY <1>1 DEF Gap
<1>2. CASE eval.has
  <2>1. eval.tick \in Past /\ TickAfter(eval.tick, now)
    BY <1>2 DEF IInv, Remembered, AlreadyEvaluated
  <2> QED
    BY <1>2, <2>1, DistanceIs DEF Gap
<1> QED
  BY <1>1, <1>2

(* Counting the ticks of a run and what it rose keep it a run.             *)
LEMMA RunEdits ==
    ASSUME NEW r \in OnsetRun
    PROVE  /\ \A n \in Tick : LET z == [r EXCEPT !.ticks = n]
                             IN  /\ z \in OnsetRun /\ z.active = r.active
                                 /\ z.start = r.start /\ z.ticks = n
           /\ \A b \in BOOLEAN : LET z == [r EXCEPT !.rise = b]
                                IN  /\ z \in OnsetRun /\ z.active = r.active
                                    /\ z.start = r.start /\ z.ticks = r.ticks
<1>1. ASSUME NEW n \in Tick
      PROVE  LET z == [r EXCEPT !.ticks = n]
             IN  /\ z \in OnsetRun /\ z.active = r.active /\ z.start = r.start /\ z.ticks = n
  BY DEF OnsetRun
<1>2. ASSUME NEW b \in BOOLEAN
      PROVE  LET z == [r EXCEPT !.rise = b]
             IN  /\ z \in OnsetRun /\ z.active = r.active
                 /\ z.start = r.start /\ z.ticks = r.ticks
  BY DEF OnsetRun
<1> QED
  BY <1>1, <1>2

(* The onset run of an evaluation: it started at a tick presented and      *)
(* counts no more than what has passed, and only an older run has ticks.   *)
LEMMA OnsetIs ==
    ASSUME IInv, NEW now \in Past, ~AlreadyEvaluated(now), NEW w \in Window
    PROVE  LET run == OnsetAfter(w, now)
           IN  /\ run \in OnsetRun
               /\ run.active => run.start \in Past /\ Age(run.start) + run.ticks <= Age(now)
               /\ run.active /\ onset.active => run.start = onset.start
               /\ run.active /\ ~onset.active => run.start = now /\ run.ticks = 0
<1> DEFINE ticks == SaturatingAdd(onset.ticks, Gap(now))
           old   == [onset EXCEPT !.ticks = ticks]
           new   == [active |-> TRUE, start |-> now, ticks |-> 0, rise |-> FALSE]
           run   == IF onset.active THEN old ELSE new
           risen == [run EXCEPT !.rise = @ \/ (w.rise /\ run.ticks <= policy.slopeWindow)]
<1>1. onset \in OnsetRun
  BY DEF IInv, TypeOK, OnsetRun
<1>2. /\ onset.ticks \in Nat /\ Gap(now) \in Nat
      /\ ticks \in Tick /\ ticks <= onset.ticks + Gap(now)
  BY <1>1, Numbers, GapIs, SaturatingIs DEF OnsetRun
<1>3. old \in OnsetRun /\ old.active = onset.active /\ old.start = onset.start /\ old.ticks = ticks
  BY <1>1, <1>2, RunEdits
<1>4. new \in OnsetRun /\ new.start = now /\ new.ticks = 0
  BY Numbers DEF OnsetRun
<1>5. onset.active =>
          /\ eval.has /\ onset.start \in Past /\ eval.tick \in Past
          /\ Age(onset.start) + onset.ticks <= Age(eval.tick)
          /\ Gap(now) = Age(now) - Age(eval.tick)
  BY GapIs DEF IInv, Remembered
<1> HIDE DEF ticks, old, new
<1>6. run \in OnsetRun
  BY <1>3, <1>4
<1>7. risen \in OnsetRun /\ risen.start = run.start /\ risen.ticks = run.ticks
  <2> DEFINE b == run.rise \/ (w.rise /\ run.ticks <= policy.slopeWindow)
  <2>1. b \in BOOLEAN
    BY <1>6 DEF OnsetRun, Window
  <2>2. risen = [run EXCEPT !.rise = b]
    OBVIOUS
  <2> HIDE DEF run, b
  <2> QED
    BY <1>6, <2>1, <2>2, RunEdits
<1>8. run.start \in Past /\ Age(run.start) + run.ticks <= Age(now)
  <2>1. CASE onset.active
    <3>1. /\ Age(onset.start) \in Nat /\ Age(eval.tick) \in Nat /\ Age(now) \in Nat
          /\ ticks \in Nat
      BY <1>2, <1>5, <2>1, DistanceIs, Numbers
    <3> QED
      BY <1>2, <1>3, <1>5, <2>1, <3>1
  <2>2. CASE ~onset.active
    BY <1>4, <2>2, DistanceIs
  <2> QED
    BY <2>1, <2>2
<1>9. NoOnset \in OnsetRun /\ ~NoOnset.active
  BY Numbers DEF NoOnset, OnsetRun
<1>10. OnsetAfter(w, now) = IF w.depth # "high" THEN NoOnset ELSE risen
  BY DEF OnsetAfter, ticks, old, new
<1>11. /\ onset.active => run.start = onset.start
       /\ ~onset.active => run.start = now /\ run.ticks = 0
  BY <1>3, <1>4
<1> HIDE DEF run, risen
<1> QED
  BY <1>7, <1>8, <1>9, <1>10, <1>11

(* What every evaluation at `now' leaves behind, of all but the window and *)
(* the tick itself.                                                        *)
Evaluated(w, now) ==
    /\ state' \in States /\ ep' \in Episode /\ (ep'.lifecycle = "open") = HasOpenEpisode'
    /\ onset' \in OnsetRun /\ release' \in ReleaseRun
    /\ recovery' \in Tick /\ cooldown' \in Tick
    /\ doubt' \in [on : BOOLEAN, since : Tick] /\ last' \in Decision
    /\ CooldownOfClose'
    /\ doubt'.on => doubt'.since \in Past
    /\ onset'.active => /\ onset'.start \in Past
                        /\ Age(onset'.start) + onset'.ticks <= Age(now)
    /\ HasOpenEpisode' =>
           /\ w.has /\ ep'.onset \in Past /\ ep'.policy = policy
           /\ Age(ep'.onset) + policy.onsetSustain <= Age(now)
           /\ IF doubt'.on
              THEN /\ ForwardGap(doubt'.since, now) <= policy.grace
                   /\ ForwardGap(w.newest, now) <= policy.staleLimit + policy.grace
              ELSE ForwardGap(ep'.onset, now) < policy.maxEpisode

(* Nothing is remembered by what starts again.                             *)
LEMMA Resets ==
    /\ NoOnset \in OnsetRun /\ ~NoOnset.active /\ NoRelease \in ReleaseRun
    /\ NoDoubt \in [on : BOOLEAN, since : Tick] /\ ~NoDoubt.on
    /\ NotEvaluated \in [has : BOOLEAN, tick : Tick] /\ ~NotEvaluated.has
    /\ EmptyWindow \in Window /\ ~EmptyWindow.has
BY Numbers DEF NoOnset, OnsetRun, NoRelease, ReleaseRun, NoDoubt, NotEvaluated, EmptyWindow,
    Window, Depths, Grades

(* A close ends the episode it is given, and starts its cooldown.          *)
LEMMA CloseIs ==
    ASSUME TypeOK, NEW e \in Episode, e.policy = policy, NEW reason \in Reasons,
           NEW now \in Past, NEW fenced \in BOOLEAN, CloseEpisode(e, reason, now, fenced)
    PROVE  /\ state' = "idle" /\ ~HasOpenEpisode' /\ ep' \in Episode
           /\ ep'.lifecycle \in {"closed", "fenced"} /\ cooldown' \in Tick
           /\ (ep'.lifecycle = "open") = HasOpenEpisode' /\ CooldownOfClose'
           /\ onset' = NoOnset /\ release' = NoRelease /\ doubt' = NoDoubt
<1> DEFINE z == [e EXCEPT !.lifecycle = IF fenced THEN "fenced" ELSE "closed",
                          !.reason = reason, !.closedTick = now]
<1>1. ep' = z /\ state' = "idle" /\ cooldown' = AddTicksSaturating(now, policy.cooldown)
      /\ onset' = NoOnset /\ release' = NoRelease /\ doubt' = NoDoubt
  BY DEF CloseEpisode
<1>2. now \in Tick /\ policy \in Policies /\ policy.cooldown \in Nat
  BY Numbers DEF TypeOK
<1>3. /\ z \in Episode /\ z.lifecycle \in {"closed", "fenced"} /\ z.closedTick = now
      /\ z.policy = policy
  BY <1>2 DEF Episode
<1>4. AddTicksSaturating(now, policy.cooldown) \in Tick
  BY <1>2, SaturatingIs, Numbers
<1> HIDE DEF z
<1> QED
  BY <1>1, <1>3, <1>4 DEF HasOpenEpisode, CooldownOfClose

(* An evaluation of admissible evidence settles the episode it leaves      *)
(* open, or closes it at the ceiling.                                      *)
LEMMA SettleIs ==
    ASSUME TypeOK, NEW e \in Episode, e.lifecycle = "open", e.policy = policy, e.onset \in Past,
           NEW now \in Past, Age(e.onset) + policy.onsetSustain <= Age(now),
           NEW w \in Window, w.has,
           NEW st \in {"active", "recovering"}, NEW run \in OnsetRun, NEW rel \in ReleaseRun,
           run.active => run.start \in Past /\ Age(run.start) + run.ticks <= Age(now),
           NEW dec \in Decision, recovery' \in Tick, Settle(e, st, run, rel, dec, now)
    PROVE  Evaluated(w, now)
<1>1. CASE Ceiling(e, now)
  <2> DEFINE closing == [dec EXCEPT !.class = "quiescent", !.closed = TRUE]
  <2>1. CloseEpisode(e, "timeout", now, FALSE) /\ last' = closing
    BY <1>1 DEF Settle, Conclude
  <2>2. closing \in Decision
    BY DEF Decision, Classes
  <2> HIDE DEF closing
  <2>3. "timeout" \in Reasons
    BY DEF Reasons
  <2>4. /\ state' = "idle" /\ ~HasOpenEpisode' /\ ep' \in Episode
        /\ ep'.lifecycle \in {"closed", "fenced"} /\ cooldown' \in Tick
        /\ (ep'.lifecycle = "open") = HasOpenEpisode' /\ CooldownOfClose'
        /\ onset' = NoOnset /\ release' = NoRelease /\ doubt' = NoDoubt
    BY <2>1, <2>3, CloseIs
  <2> QED
    BY <2>1, <2>2, <2>4, Resets DEF Evaluated, States
<1>2. CASE ~Ceiling(e, now)
  <2>1. /\ state' = st /\ ep' = e /\ onset' = run /\ release' = rel /\ doubt' = NoDoubt
        /\ last' = dec /\ cooldown' = cooldown
    BY <1>2 DEF Settle, Conclude
  <2>2. HasOpenEpisode'
    BY <2>1 DEF HasOpenEpisode
  <2>3. ForwardGap(e.onset, now) < policy.maxEpisode
    <3>1. ForwardGap(e.onset, now) \in Nat
      BY DistanceIs
    <3>2. policy.maxEpisode \in Nat
      BY Numbers DEF TypeOK
    <3> QED
      BY <1>2, <3>1, <3>2 DEF Ceiling
  <2>4. CooldownOfClose'
    BY <2>1 DEF CooldownOfClose
  <2> QED
    BY <2>1, <2>2, <2>3, <2>4, Resets DEF Evaluated, States, TypeOK
<1> QED
  BY <1>1, <1>2

(* The decisions an evaluation starts from.                                *)
LEMMA DecisionsAre ==
    ASSUME NEW now \in Tick, NEW class \in Classes
    PROVE  /\ LET z == DecisionAt(now, class)
              IN  /\ z \in Decision /\ z.tick = now /\ z.class = class /\ z.event = Never
                  /\ ~z.opened /\ ~z.updated /\ ~z.closed /\ ~z.fenced
           /\ \A e \in Episode :
                  LET z == UpdateAt(e, now, class)
                  IN  /\ z \in Decision /\ z.tick = now /\ z.class = class
                      /\ z.event = e.onset
                      /\ ~z.opened /\ z.updated /\ ~z.closed /\ ~z.fenced
           /\ ep \in Episode =>
                  LET z == UnknownAt(now, class)
                  IN  /\ z \in Decision /\ z.tick = now /\ z.class = class
                      /\ z.event = IF HasOpenEpisode THEN ep.onset ELSE Never
                      /\ ~z.opened /\ ~z.updated /\ ~z.closed /\ ~z.fenced
<1>1. InCooldown(now) \in BOOLEAN
  BY DEF InCooldown, TickAfter
<1>2. \A e \in Episode : e.onset \in Tick
  BY DEF Episode
<1>3. /\ NoDecision \in Decision /\ NoDecision.event = Never
      /\ ~NoDecision.opened /\ ~NoDecision.updated /\ ~NoDecision.closed /\ ~NoDecision.fenced
  BY Numbers DEF NoDecision, Decision, Classes
<1>4. /\ DecisionAt(now, class) \in Decision /\ DecisionAt(now, class).tick = now
      /\ DecisionAt(now, class).class = class /\ DecisionAt(now, class).event = Never
      /\ ~DecisionAt(now, class).opened /\ ~DecisionAt(now, class).updated
      /\ ~DecisionAt(now, class).closed /\ ~DecisionAt(now, class).fenced
  BY <1>1, <1>3 DEF DecisionAt, Decision
<1>5. ASSUME NEW e \in Episode
      PROVE  LET z == UpdateAt(e, now, class)
             IN  /\ z \in Decision /\ z.tick = now /\ z.class = class /\ z.event = e.onset
                 /\ ~z.opened /\ z.updated /\ ~z.closed /\ ~z.fenced
  BY <1>2, <1>4 DEF UpdateAt, Decision
<1>6. ASSUME ep \in Episode
      PROVE  LET z == UnknownAt(now, class)
             IN  /\ z \in Decision /\ z.tick = now /\ z.class = class
                 /\ z.event = IF HasOpenEpisode THEN ep.onset ELSE Never
                 /\ ~z.opened /\ ~z.updated /\ ~z.closed /\ ~z.fenced
  <2> DEFINE t == IF HasOpenEpisode THEN ep.onset ELSE Never
  <2>1. t \in Tick \cup {Never}
    BY <1>2, <1>6
  <2>2. UnknownAt(now, class) = [NoDecision EXCEPT !.tick = now, !.class = class, !.event = t]
    BY DEF UnknownAt
  <2> HIDE DEF t
  <2>3. LET z == UnknownAt(now, class)
        IN  /\ z \in Decision /\ z.tick = now /\ z.class = class /\ z.event = t
            /\ ~z.opened /\ ~z.updated /\ ~z.closed /\ ~z.fenced
    BY <1>3, <2>1, <2>2 DEF Decision
  <2> QED
    BY <2>3 DEF t
<1> QED
  BY <1>4, <1>5, <1>6

(* Opening, closing or fencing says so in a decision, and no more.         *)
LEMMA EndingEdits ==
    ASSUME NEW d \in Decision, NEW z
    PROVE  /\ z = [d EXCEPT !.opened = TRUE] =>
                  /\ z \in Decision /\ z.tick = d.tick /\ z.class = d.class
                  /\ z.event = d.event /\ z.opened /\ z.updated = d.updated
                  /\ z.closed = d.closed /\ z.fenced = d.fenced
           /\ z = [d EXCEPT !.closed = TRUE] =>
                  /\ z \in Decision /\ z.tick = d.tick /\ z.class = d.class
                  /\ z.event = d.event /\ z.opened = d.opened /\ z.updated = d.updated
                  /\ z.closed /\ z.fenced = d.fenced
           /\ z = [d EXCEPT !.class = "quiescent", !.closed = TRUE] =>
                  /\ z \in Decision /\ z.tick = d.tick /\ z.class = "quiescent"
                  /\ z.event = d.event /\ z.opened = d.opened /\ z.updated = d.updated
                  /\ z.closed /\ z.fenced = d.fenced
           /\ z = [d EXCEPT !.closed = TRUE, !.fenced = TRUE] =>
                  /\ z \in Decision /\ z.tick = d.tick /\ z.class = d.class
                  /\ z.event = d.event /\ z.opened = d.opened /\ z.updated = d.updated
                  /\ z.closed /\ z.fenced
BY DEF Decision, Classes

(* The classes an evaluation concludes with.                               *)
LEMMA ClassesAre ==
    /\ {"quiescent", "candidate", "recovering", "unknown", "fenced"} \subseteq Classes
    /\ \A w, now : PositiveClass(w, now) \in Classes \cap Positive
BY DEF Classes, Positive, PositiveClass

(* An evaluation of admissible evidence.                                   *)
LEMMA AdmissibleIs ==
    ASSUME IInv, NEW now \in Past, ~AlreadyEvaluated(now), NEW w \in Window,
           EvaluateAdmissible(w, now)
    PROVE  Evaluated(w, now)
<1> DEFINE run == OnsetAfter(w, now)
           rel == ReleaseAfter(w, now)
<1>1. TypeOK /\ policy \in Policies /\ ep \in Episode /\ policy.onsetSustain \in Nat \ {0}
      /\ now \in Tick
  BY Numbers DEF IInv, TypeOK
<1>2. /\ run \in OnsetRun
      /\ run.active => run.start \in Past /\ Age(run.start) + run.ticks <= Age(now)
      /\ run.active /\ onset.active => run.start = onset.start
      /\ run.active /\ ~onset.active => run.start = now /\ run.ticks = 0
  BY OnsetIs
<1>3. rel \in ReleaseRun
  <2>1. release.ticks \in Nat /\ Gap(now) \in Nat
    BY GapIs, Numbers DEF IInv, TypeOK
  <2>2. SaturatingAdd(release.ticks, Gap(now)) \in Tick
    BY <2>1, SaturatingIs
  <2> QED
    BY <2>2, Resets, Numbers DEF ReleaseAfter, ReleaseRun
<1>4. w.has
  BY DEF EvaluateAdmissible, Authority, Fresh
<1>5. HasOpenEpisode =>
          /\ ep.lifecycle = "open" /\ ep.policy = policy /\ ep.onset \in Past
          /\ Age(ep.onset) + policy.onsetSustain <= Age(now)
  <2> SUFFICES ASSUME HasOpenEpisode
               PROVE  /\ ep.lifecycle = "open" /\ ep.policy = policy /\ ep.onset \in Past
                      /\ Age(ep.onset) + policy.onsetSustain <= Age(now)
    OBVIOUS
  <2>1. /\ ep.lifecycle = "open" /\ ep.policy = policy /\ ep.onset \in Past /\ eval.has
        /\ Age(ep.onset) + policy.onsetSustain <= Age(eval.tick) /\ eval.tick \in Past
    BY DEF IInv, TypeOK, OpenIsSupported, Remembered
  <2>2. Age(eval.tick) < Age(now)
    BY <2>1, GapIs
  <2>3. Age(eval.tick) \in Nat /\ Age(now) \in Nat /\ Age(ep.onset) \in Nat
    BY <2>1, DistanceIs
  <2> QED
    BY <1>1, <2>1, <2>2, <2>3
<1>6. recovery \in Tick /\ NoRelease \in ReleaseRun
  BY Resets DEF IInv, TypeOK
<1> HIDE DEF run, rel
<1>7. CASE StayIdle(w, now)
  <2> DEFINE class == IF run.active THEN "candidate" ELSE "quiescent"
  <2>1. /\ onset' = run /\ release' = NoRelease /\ doubt' = NoDoubt
        /\ last' = DecisionAt(now, class) /\ state = "idle"
        /\ UNCHANGED << state, ep, cooldown, recovery >>
    BY <1>7 DEF StayIdle, Conclude, run
  <2>2. class \in Classes
    BY ClassesAre
  <2>3. last' \in Decision
    BY <1>1, <2>1, <2>2, DecisionsAre
  <2>4. ~HasOpenEpisode' /\ (ep'.lifecycle = "open") = HasOpenEpisode' /\ CooldownOfClose'
    BY <2>1 DEF HasOpenEpisode, IInv, TypeOK, CooldownOfClose
  <2> HIDE DEF class
  <2> QED
    BY <1>1, <1>2, <1>6, <2>1, <2>3, <2>4, Resets DEF Evaluated, TypeOK
<1>8. CASE OpenEpisode(w, now)
  <2> DEFINE e   == [onset |-> run.start, lifecycle |-> "open", reason |-> "none",
                     closedTick |-> 0, policy |-> policy]
             upd == UpdateAt(e, now, PositiveClass(w, now))
             dec == [upd EXCEPT !.opened = TRUE]
  <2>1. /\ Settle(e, "active", run, NoRelease, dec, now) /\ recovery' = recovery
        /\ OnsetConfirmed(run)
    BY <1>8 DEF OpenEpisode, run
  <2>2. run.active /\ run.ticks >= policy.onsetSustain /\ run.start \in Past
    BY <1>2, <2>1 DEF OnsetConfirmed
  <2>3. e \in Episode /\ e.lifecycle = "open" /\ e.policy = policy /\ e.onset = run.start
    BY <1>1, <2>2, Numbers DEF Episode, Reasons
  <2> HIDE DEF e
  <2>4. dec \in Decision
    BY <1>1, <2>3, ClassesAre, DecisionsAre, EndingEdits
  <2> HIDE DEF dec
  <2>5. Age(e.onset) + policy.onsetSustain <= Age(now)
    <3>1. Age(run.start) \in Nat /\ Age(now) \in Nat /\ run.ticks \in Nat
      BY <1>2, <2>2, DistanceIs, Numbers DEF OnsetRun
    <3> QED
      BY <1>1, <1>2, <2>2, <2>3, <3>1
  <2> QED
    BY <1>1, <1>2, <1>4, <1>6, <2>1, <2>2, <2>3, <2>4, <2>5, SettleIs
<1>9. ASSUME NEW st \in {"active", "recovering"}, NEW any \in ReleaseRun, HasOpenEpisode,
             NEW class \in Classes, recovery' \in Tick,
             Settle(ep, st, run, any, UpdateAt(ep, now, class), now)
      PROVE  Evaluated(w, now)
  <2>1. UpdateAt(ep, now, class) \in Decision
    BY <1>1, DecisionsAre
  <2> QED
    BY <1>1, <1>2, <1>4, <1>5, <1>9, <2>1, SettleIs
<1>10. CASE UpdateActive(w, now) \/ BeginRecovery(w, now) \/ MergeOnset(w, now)
            \/ LingerInRecovery(w, now)
  <2>1. HasOpenEpisode /\ recovery' \in {recovery, now}
    BY <1>10 DEF UpdateActive, BeginRecovery, MergeOnset, LingerInRecovery, HasOpenEpisode
  <2>2. \E st \in {"active", "recovering"}, any \in ReleaseRun, class \in Classes :
            Settle(ep, st, run, any, UpdateAt(ep, now, class), now)
    <3>1. CASE UpdateActive(w, now)
      BY <1>3, <3>1, ClassesAre DEF UpdateActive, run, rel
    <3>2. CASE BeginRecovery(w, now)
      BY <1>3, <3>2, ClassesAre DEF BeginRecovery, run, rel
    <3>3. CASE MergeOnset(w, now)
      BY <1>6, <3>3, ClassesAre DEF MergeOnset, run
    <3>4. CASE LingerInRecovery(w, now)
      BY <1>3, <3>4, ClassesAre DEF LingerInRecovery, run, rel
    <3> QED
      BY <1>10, <3>1, <3>2, <3>3, <3>4
  <2> QED
    BY <1>1, <1>6, <1>9, <2>1, <2>2
<1>11. CASE FinishRecovery(w, now)
  <2> DEFINE upd == UpdateAt(ep, now, "quiescent")
  <2>1. /\ CloseEpisode(ep, "release", now, FALSE) /\ HasOpenEpisode /\ recovery' = recovery
        /\ last' = [upd EXCEPT !.closed = TRUE]
    BY <1>11 DEF FinishRecovery, HasOpenEpisode, Conclude
  <2>2. last' \in Decision
    BY <1>1, <2>1, ClassesAre, DecisionsAre, EndingEdits
  <2>3. "release" \in Reasons
    BY DEF Reasons
  <2>4. /\ state' = "idle" /\ ~HasOpenEpisode' /\ ep' \in Episode /\ cooldown' \in Tick
        /\ (ep'.lifecycle = "open") = HasOpenEpisode' /\ CooldownOfClose'
        /\ onset' = NoOnset /\ release' = NoRelease /\ doubt' = NoDoubt
    BY <1>1, <1>5, <2>1, <2>3, CloseIs
  <2> QED
    BY <1>6, <2>1, <2>2, <2>4, Resets DEF Evaluated, States
<1> QED
  BY <1>7, <1>8, <1>10, <1>11 DEF EvaluateAdmissible

(* An evaluation of inadmissible evidence suspends an open episode within  *)
(* the grace, or fences it.                                                *)
LEMMA InadmissibleIs ==
    ASSUME IInv, NEW now \in Past, ~AlreadyEvaluated(now), NEW w \in Window,
           w.has => w.newest \in Past, HasOpenEpisode => w.has,
           EvaluateInadmissible(w, now)
    PROVE  Evaluated(w, now)
<1>1. /\ TypeOK /\ policy \in Policies /\ ep \in Episode /\ now \in Tick
      /\ policy.onsetSustain \in Nat /\ policy.staleLimit \in Nat /\ policy.grace \in Nat
      /\ recovery' = recovery /\ recovery \in Tick
  BY Numbers DEF IInv, TypeOK, EvaluateInadmissible
<1>2. /\ onset \in OnsetRun /\ release \in ReleaseRun
      /\ onset.active => onset.start \in Past /\ Age(onset.start) + onset.ticks <= Age(now)
  <2>1. onset \in OnsetRun /\ release \in ReleaseRun
    BY DEF IInv, TypeOK, OnsetRun, ReleaseRun
  <2> SUFFICES ASSUME onset.active
               PROVE  onset.start \in Past /\ Age(onset.start) + onset.ticks <= Age(now)
    BY <2>1
  <2>2. /\ eval.has /\ onset.start \in Past /\ eval.tick \in Past
        /\ Age(onset.start) + onset.ticks <= Age(eval.tick)
    BY DEF IInv, Remembered
  <2>3. Age(eval.tick) < Age(now)
    BY <2>2, GapIs
  <2>4. /\ Age(eval.tick) \in Nat /\ Age(now) \in Nat /\ Age(onset.start) \in Nat
        /\ onset.ticks \in Nat
    BY <2>1, <2>2, DistanceIs, Numbers DEF OnsetRun
  <2> QED
    BY <2>2, <2>3, <2>4
<1>3. HasOpenEpisode =>
          /\ ep.policy = policy /\ ep.onset \in Past
          /\ Age(ep.onset) + policy.onsetSustain <= Age(now)
  <2> SUFFICES ASSUME HasOpenEpisode
               PROVE  /\ ep.policy = policy /\ ep.onset \in Past
                      /\ Age(ep.onset) + policy.onsetSustain <= Age(now)
    OBVIOUS
  <2>1. /\ ep.policy = policy /\ ep.onset \in Past /\ eval.has
        /\ Age(ep.onset) + policy.onsetSustain <= Age(eval.tick) /\ eval.tick \in Past
    BY DEF IInv, OpenIsSupported, Remembered
  <2>2. Age(eval.tick) < Age(now)
    BY <2>1, GapIs
  <2>3. Age(eval.tick) \in Nat /\ Age(now) \in Nat /\ Age(ep.onset) \in Nat
    BY <2>1, DistanceIs
  <2> QED
    BY <1>1, <2>1, <2>2, <2>3
<1>4. DoubtAt(now) \in [on : BOOLEAN, since : Tick] /\ DoubtAt(now).since \in Past
  BY <1>1 DEF DoubtAt, IInv, TypeOK, Remembered
<1>5. CASE StayUnknown(now)
  <2>1. /\ last' = UnknownAt(now, "unknown") /\ ~HasOpenEpisode
        /\ UNCHANGED << state, ep, cooldown, onset, release, doubt >>
    BY <1>5 DEF StayUnknown, Conclude
  <2>2. last' \in Decision
    BY <1>1, <2>1, ClassesAre, DecisionsAre
  <2>3. ~HasOpenEpisode' /\ (ep'.lifecycle = "open") = HasOpenEpisode' /\ CooldownOfClose'
    BY <2>1 DEF HasOpenEpisode, IInv, TypeOK, CooldownOfClose
  <2>4. doubt'.on => doubt'.since \in Past
    BY <2>1 DEF IInv, Remembered
  <2> QED
    BY <1>1, <1>2, <2>1, <2>2, <2>3, <2>4 DEF Evaluated, TypeOK
<1>6. CASE Suspend(w, now)
  <2>1. /\ last' = UnknownAt(now, "recovering") /\ HasOpenEpisode /\ doubt' = DoubtAt(now)
        /\ UNCHANGED << state, ep, cooldown, onset, release >> /\ Held(w, now) <= policy.grace
    BY <1>6 DEF Suspend, Conclude
  <2>2. last' \in Decision
    BY <1>1, <2>1, ClassesAre, DecisionsAre
  <2>3. HasOpenEpisode' /\ (ep'.lifecycle = "open") = HasOpenEpisode' /\ CooldownOfClose'
    BY <2>1 DEF HasOpenEpisode, IInv, TypeOK, CooldownOfClose
  <2>4. /\ ForwardGap(DoubtAt(now).since, now) <= policy.grace
        /\ ForwardGap(w.newest, now) <= policy.staleLimit + policy.grace
    <3> DEFINE held == ForwardGap(DoubtAt(now).since, now)
               aged == ForwardGap(w.newest, now)
    <3>1. held \in Nat /\ aged \in Nat
      BY <1>4, <2>1, DistanceIs
    <3>2. Held(w, now) = Max({held, Max({aged - policy.staleLimit, 0})})
      BY <2>1 DEF Held, Staleness
    <3> HIDE DEF held, aged
    <3>3. /\ Max({aged - policy.staleLimit, 0}) \in Int
          /\ Max({aged - policy.staleLimit, 0}) >= aged - policy.staleLimit
      BY <1>1, <3>1, MaxIs
    <3>4. held <= Held(w, now) /\ aged - policy.staleLimit <= Held(w, now) /\ Held(w, now) \in Int
      BY <1>1, <3>1, <3>2, <3>3, MaxIs
    <3>5. held <= policy.grace /\ aged <= policy.staleLimit + policy.grace
      BY <1>1, <2>1, <3>1, <3>4
    <3> QED
      BY <3>5 DEF held, aged
  <2>5. w.has /\ ep' = ep
    BY <2>1
  <2>6. doubt'.on
    BY <2>1 DEF DoubtAt
  <2>7. /\ state' \in States /\ ep' \in Episode /\ onset' \in OnsetRun /\ release' \in ReleaseRun
        /\ recovery' \in Tick /\ cooldown' \in Tick /\ doubt' \in [on : BOOLEAN, since : Tick]
        /\ doubt'.since \in Past
    BY <1>1, <1>2, <1>4, <2>1 DEF TypeOK
  <2>8. onset'.active => /\ onset'.start \in Past
                         /\ Age(onset'.start) + onset'.ticks <= Age(now)
    BY <1>2, <2>1
  <2> QED
    BY <1>3, <2>1, <2>2, <2>3, <2>4, <2>5, <2>6, <2>7, <2>8 DEF Evaluated
<1>7. CASE FenceStale(w, now)
  <2> DEFINE before == UnknownAt(now, "fenced")
  <2>1. /\ CloseEpisode(ep, FenceReason(w, now), now, TRUE) /\ HasOpenEpisode
        /\ last' = [before EXCEPT !.closed = TRUE, !.fenced = TRUE]
    BY <1>7 DEF FenceStale, Conclude
  <2>2. before \in Decision
    BY <1>1, ClassesAre, DecisionsAre
  <2> HIDE DEF before
  <2>3. last' \in Decision
    BY <2>1, <2>2, EndingEdits
  <2>4. FenceReason(w, now) \in Reasons
    BY DEF FenceReason, Reasons
  <2>5. /\ state' = "idle" /\ ~HasOpenEpisode' /\ ep' \in Episode /\ cooldown' \in Tick
        /\ (ep'.lifecycle = "open") = HasOpenEpisode' /\ CooldownOfClose'
        /\ onset' = NoOnset /\ release' = NoRelease /\ doubt' = NoDoubt
    BY <1>1, <1>3, <2>1, <2>4, CloseIs
  <2> QED
    BY <1>1, <2>3, <2>5, Resets DEF Evaluated, States
<1> QED
  BY <1>5, <1>6, <1>7 DEF EvaluateInadmissible

-----------------------------------------------------------------------------
(* The steps.                                                              *)

(* What is presented is within the life of the clock.                      *)
LEMMA PresentsIs ==
    ASSUME IInv, NEW tick \in Tick, Presents(tick)
    PROVE  tick \in Past /\ clock' \in Past
BY DEF Presents, Past, Life, Age, IInv, Remembered

(* A window keeps what it has, or has the sample it retains.               *)
LEMMA OfferIs ==
    ASSUME NEW w0 \in Window, w0.has => w0.newest \in Past, NEW tick \in Past,
           NEW w \in OfferOutcomes(w0, tick)
    PROVE  /\ w \in Window /\ (w.has => w.newest \in Past) /\ (w0.has => w.has)
           /\ \/ w.has /\ w.newest = tick /\ Retains(w0, tick)
              \/ w.has = w0.has /\ w.newest = w0.newest
<1>1. tick \in Tick
  BY Numbers
<1>2. CASE Retains(w0, tick)
  BY <1>1, <1>2 DEF OfferOutcomes, Window
<1>3. CASE ~Retains(w0, tick)
  <2> DEFINE seen == [w0 EXCEPT !.grade = "unstable", !.rise = FALSE, !.fall = FALSE]
  <2>1. w = w0 \/ w = seen
    BY <1>3 DEF OfferOutcomes
  <2>2. seen \in Window /\ seen.has = w0.has /\ seen.newest = w0.newest
    BY DEF Window, Grades
  <2> HIDE DEF seen
  <2> QED
    BY <2>1, <2>2
<1> QED
  BY <1>2, <1>3

(* An evaluation keeps the invariant, and bounds the episode it leaves.    *)
LEMMA AfreshStep ==
    ASSUME IInv, NEW now \in Past, EvaluateAfresh(window', now),
           window' \in Window, window'.has => window'.newest \in Past,
           HasOpenEpisode => window'.has,
           policy' = policy, gen' \in Generations \cup {NoGeneration}, clock' \in Past
    PROVE  IInv' /\ OpenEpisodeBounded'
<1>1. ~AlreadyEvaluated(now) /\ eval' = [has |-> TRUE, tick |-> now] /\ now \in Tick
  BY Numbers DEF EvaluateAfresh
<1>2. Evaluated(window', now)
  BY <1>1, AdmissibleIs, InadmissibleIs DEF EvaluateAfresh
<1>3. eval' \in [has : BOOLEAN, tick : Tick] /\ eval'.has /\ eval'.tick = now
  BY <1>1
<1>4. policy \in Policies /\ clock' \in Tick
  BY Numbers DEF IInv, TypeOK
<1>5. TypeOK'
  BY <1>2, <1>3, <1>4 DEF TypeOK, Evaluated, OnsetRun, ReleaseRun
<1>6. Remembered'
  BY <1>2, <1>3 DEF Remembered, Evaluated
<1>7. OpenIsSupported' /\ OpenEpisodeBounded' /\ CooldownOfClose'
  BY <1>2, <1>3 DEF OpenIsSupported, OpenEpisodeBounded, Evaluated
<1> QED
  BY <1>5, <1>6, <1>7 DEF IInv

(* An evaluation that is not made keeps the invariant, and the bound on    *)
(* the episode if the window it was asked about is at most fresher.        *)
LEMMA CachedStep ==
    ASSUME IInv, NEW now \in Past, EvaluateCached(window', now),
           window' \in Window, window'.has => window'.newest \in Past,
           HasOpenEpisode => window'.has,
           policy' = policy, gen' \in Generations \cup {NoGeneration}, clock' \in Past
    PROVE  /\ IInv'
           /\ (/\ OpenEpisodeBounded
               /\ HasOpenEpisode => \/ window'.newest = window.newest
                                    \/ window'.newest = now /\ TickAfter(window.newest, now))
              => OpenEpisodeBounded'
<1>1. /\ state' = state /\ ep' = ep /\ onset' = onset /\ release' = release
      /\ recovery' = recovery /\ cooldown' = cooldown /\ doubt' = doubt /\ eval' = eval
      /\ last' = last /\ eval.has /\ ~TickAfter(eval.tick, now)
  BY DEF EvaluateCached, AlreadyEvaluated
<1>2. HasOpenEpisode' = HasOpenEpisode
  BY <1>1 DEF HasOpenEpisode
<1>3. TypeOK'
  <2>1. (ep'.lifecycle = "open") = HasOpenEpisode'
    BY <1>1 DEF IInv, TypeOK, HasOpenEpisode
  <2>2. TypeOK /\ clock' \in Tick
    BY Numbers DEF IInv
  <2> QED
    BY <1>1, <2>1, <2>2 DEF TypeOK
<1>4. Remembered'
  <2>1. Remembered
    BY DEF IInv
  <2> QED
    BY <1>1, <2>1 DEF Remembered
<1>5. OpenIsSupported' /\ CooldownOfClose'
  BY <1>1, <1>2 DEF OpenIsSupported, CooldownOfClose, IInv
<1>6. ASSUME OpenEpisodeBounded,
             HasOpenEpisode => \/ window'.newest = window.newest
                               \/ window'.newest = now /\ TickAfter(window.newest, now)
      PROVE  OpenEpisodeBounded'
  <2> SUFFICES ASSUME HasOpenEpisode'
               PROVE  OpenEpisodeBounded'
    BY DEF OpenEpisodeBounded
  <2>1. HasOpenEpisode /\ OpenEpisodeBounded
    BY <1>2, <1>6
  <2>2. window.has /\ window.newest \in Past /\ eval.tick \in Past /\ policy \in Policies
    BY <1>1, <2>1 DEF IInv, OpenIsSupported, Remembered, TypeOK
  <2>3. ForwardGap(window'.newest, eval.tick) <= ForwardGap(window.newest, eval.tick)
    <3>1. CASE window'.newest = window.newest
      BY <2>2, <3>1, DistanceIs
    <3>2. CASE window'.newest = now /\ TickAfter(window.newest, now)
      <4>1. Age(window.newest) < Age(now) /\ Age(now) \in Nat /\ Age(window.newest) \in Nat
        BY <2>2, <3>2, DistanceIs
      <4>2. /\ ForwardGap(window.newest, eval.tick) =
                   IF Age(window.newest) < Age(eval.tick)
                   THEN Age(eval.tick) - Age(window.newest) ELSE 0
            /\ Age(eval.tick) \in Nat
        BY <2>2, DistanceIs
      <4>3. ForwardGap(now, eval.tick) = IF Age(now) < Age(eval.tick)
                                         THEN Age(eval.tick) - Age(now) ELSE 0
        BY <2>2, DistanceIs
      <4> QED
        BY <3>2, <4>1, <4>2, <4>3
    <3> QED
      BY <1>6, <2>1, <3>1, <3>2
  <2>4. /\ ForwardGap(window'.newest, eval.tick) \in Nat
        /\ ForwardGap(window.newest, eval.tick) \in Nat
        /\ policy.staleLimit \in Nat /\ policy.grace \in Nat
    BY <2>1, <2>2, DistanceIs, Numbers
  <2>5. CASE doubt.on
    <3>1. /\ ForwardGap(doubt.since, eval.tick) <= policy.grace
          /\ ForwardGap(window.newest, eval.tick) <= policy.staleLimit + policy.grace
      BY <2>1, <2>5 DEF OpenEpisodeBounded
    <3>2. ForwardGap(window'.newest, eval.tick) <= policy.staleLimit + policy.grace
      BY <2>3, <2>4, <3>1
    <3> QED
      BY <1>1, <2>5, <3>1, <3>2 DEF OpenEpisodeBounded
  <2>6. CASE ~doubt.on
    BY <1>1, <2>1, <2>6 DEF OpenEpisodeBounded
  <2> QED
    BY <2>5, <2>6
<1> QED
  BY <1>3, <1>4, <1>5, <1>6 DEF IInv

(* A close outside an evaluation keeps the invariant: nothing is open.     *)
LEMMA CloseStep ==
    ASSUME IInv, HasOpenEpisode, NEW reason \in Reasons, NEW now \in Past,
           CloseEpisode(ep, reason, now, TRUE), recovery' = recovery, last' = last,
           policy' \in Policies, gen' \in Generations \cup {NoGeneration},
           eval' \in {eval, NotEvaluated}, window' \in {window, EmptyWindow}, clock' \in Past
    PROVE  IInv' /\ OpenEpisodeBounded'
<1>1. TypeOK /\ ep \in Episode /\ ep.policy = policy
  BY DEF IInv, TypeOK, OpenIsSupported
<1>2. /\ state' = "idle" /\ ~HasOpenEpisode' /\ ep' \in Episode /\ cooldown' \in Tick
      /\ (ep'.lifecycle = "open") = HasOpenEpisode' /\ CooldownOfClose'
      /\ onset' = NoOnset /\ release' = NoRelease /\ doubt' = NoDoubt
  BY <1>1, CloseIs
<1>3. /\ eval' \in [has : BOOLEAN, tick : Tick] /\ (eval'.has => eval'.tick \in Past)
      /\ window' \in Window /\ (window'.has => window'.newest \in Past)
      /\ recovery' \in Tick /\ last' \in Decision
  BY <1>1, Resets DEF TypeOK, IInv, Remembered
<1>4. /\ onset' \in OnsetRun /\ ~onset'.active /\ release' \in ReleaseRun
      /\ doubt' \in [on : BOOLEAN, since : Tick] /\ ~doubt'.on
      /\ clock' \in Tick /\ state' \in States
  BY <1>2, Resets, Numbers DEF States
<1>5. TypeOK'
  BY <1>2, <1>3, <1>4 DEF TypeOK, OnsetRun, ReleaseRun
<1>6. Remembered'
  BY <1>3, <1>4 DEF Remembered
<1>7. OpenIsSupported' /\ OpenEpisodeBounded'
  BY <1>2 DEF OpenIsSupported, OpenEpisodeBounded
<1> QED
  BY <1>2, <1>5, <1>6, <1>7 DEF IInv

(* What is retained keeps the newest sample from moving back.              *)
Forwards(now) == Retains(window, now) => ~window.has \/ TickAfter(window.newest, now)

(* The three steps of a sample and of a clock that evaluate.               *)
LEMMA EvaluateStep ==
    ASSUME IInv, NEW w0 \in {window, EmptyWindow}, HasOpenEpisode => w0 = window,
           NEW now \in Past, window' \in OfferOutcomes(w0, now) \/ window' = window,
           Evaluate(window', now),
           policy' = policy, gen' \in Generations \cup {NoGeneration}, clock' \in Past
    PROVE  /\ IInv'
           /\ OpenEpisodeBounded /\ Forwards(now) => OpenEpisodeBounded'
           /\ window'.has => \/ window'.newest = now
                             \/ window.has /\ window'.newest = window.newest
<1>1. w0 \in Window /\ (w0.has => w0.newest \in Past) /\ (HasOpenEpisode => w0.has)
  BY Resets DEF IInv, TypeOK, Remembered, OpenIsSupported
<1>2. /\ window \in Window /\ (window.has => window.newest \in Past)
      /\ (HasOpenEpisode => window.has)
  BY DEF IInv, TypeOK, Remembered, OpenIsSupported
<1>3. /\ window' \in Window /\ (window'.has => window'.newest \in Past)
      /\ HasOpenEpisode => window'.has
      /\ window'.has => \/ window'.newest = now
                        \/ window.has /\ window'.newest = window.newest
      /\ HasOpenEpisode => \/ window'.newest = window.newest
                           \/ window'.newest = now /\ Retains(window, now)
  <2>1. CASE window' = window
    BY <1>2, <2>1
  <2>2. CASE window' \in OfferOutcomes(w0, now)
    <3>1. /\ window' \in Window /\ (window'.has => window'.newest \in Past)
          /\ (w0.has => window'.has)
          /\ \/ window'.has /\ window'.newest = now /\ Retains(w0, now)
             \/ window'.has = w0.has /\ window'.newest = w0.newest
      BY <1>1, <2>2, OfferIs
    <3>2. w0.has => w0 = window
      BY Resets
    <3>3. window'.has => \/ window'.newest = now
                         \/ window.has /\ window'.newest = window.newest
      BY <3>1, <3>2
    <3>4. HasOpenEpisode => window'.has
      BY <1>1, <3>1
    <3>5. HasOpenEpisode => \/ window'.newest = window.newest
                            \/ window'.newest = now /\ Retains(window, now)
      BY <3>1
    <3>6. window' \in Window /\ (window'.has => window'.newest \in Past)
      BY <3>1
    <3> QED
      BY <3>3, <3>4, <3>5, <3>6
  <2> QED
    BY <2>1, <2>2
<1>4. CASE EvaluateCached(window', now)
  <2>1. Forwards(now) /\ HasOpenEpisode =>
            \/ window'.newest = window.newest
            \/ window'.newest = now /\ TickAfter(window.newest, now)
    BY <1>2, <1>3 DEF Forwards
  <2> QED
    BY <1>3, <1>4, <2>1, CachedStep
<1>5. CASE EvaluateAfresh(window', now)
  BY <1>3, <1>5, AfreshStep
<1> QED
  BY <1>4, <1>5 DEF Evaluate

(* A rearm without an open episode forgets all but the episode.            *)
LEMMA RearmStep ==
    ASSUME IInv, NEW p \in Policies, Rearm(p)
    PROVE  IInv' /\ OpenEpisodeBounded' /\ ~window'.has
<1>1. /\ clock' = clock /\ clock \in Past /\ policy' = p /\ gen' = gen /\ recovery' = recovery
      /\ last' = last /\ window' = EmptyWindow /\ eval' = NotEvaluated
  BY DEF Rearm, IInv, Remembered
<1>2. gen' \in Generations \cup {NoGeneration}
  BY <1>1 DEF IInv, TypeOK
<1>3. CASE HasOpenEpisode
  <2>1. CloseEpisode(ep, "policy", clock, TRUE) /\ "policy" \in Reasons
    BY <1>3 DEF Rearm, Reasons
  <2> QED
    BY <1>1, <1>2, <1>3, <2>1, CloseStep, Resets
<1>4. CASE ~HasOpenEpisode
  <2>1. /\ onset' = NoOnset /\ release' = NoRelease /\ doubt' = NoDoubt
        /\ state' = state /\ ep' = ep /\ cooldown' = cooldown
    BY <1>4 DEF Rearm
  <2>2. /\ onset' \in OnsetRun /\ ~onset'.active /\ release' \in ReleaseRun
        /\ doubt' \in [on : BOOLEAN, since : Tick] /\ ~doubt'.on
        /\ eval' \in [has : BOOLEAN, tick : Tick] /\ ~eval'.has
        /\ window' \in Window /\ ~window'.has
    BY <1>1, <2>1, Resets
  <2>3. ~HasOpenEpisode' /\ (ep'.lifecycle = "open") = HasOpenEpisode'
    BY <1>4, <2>1 DEF HasOpenEpisode, IInv, TypeOK
  <2>4. TypeOK
    BY DEF IInv
  <2>5. TypeOK'
    BY <1>1, <1>2, <2>1, <2>2, <2>3, <2>4 DEF TypeOK, OnsetRun, ReleaseRun
  <2>6. Remembered'
    BY <1>1, <2>2 DEF Remembered
  <2>7. OpenIsSupported' /\ OpenEpisodeBounded'
    BY <2>3 DEF OpenIsSupported, OpenEpisodeBounded
  <2>8. CooldownOfClose'
    BY <2>1 DEF CooldownOfClose, IInv
  <2> QED
    BY <2>2, <2>5, <2>6, <2>7, <2>8 DEF IInv
<1> QED
  BY <1>3, <1>4

(* The first state satisfies the invariant.                                *)
LEMMA InitIsIInv ==
    Init => IInv
<1> SUFFICES ASSUME Init PROVE IInv
  OBVIOUS
<1>1. /\ policy \in Policies /\ gen = NoGeneration /\ state = "idle" /\ ep = NoEpisode(policy)
      /\ onset = NoOnset /\ release = NoRelease /\ recovery = 0 /\ cooldown = 0
      /\ doubt = NoDoubt /\ eval = NotEvaluated /\ last = NoDecision
      /\ window = EmptyWindow /\ clock = StartTick
  BY Zenon DEF Init
<1>2. /\ onset \in OnsetRun /\ ~onset.active /\ release \in ReleaseRun
      /\ doubt \in [on : BOOLEAN, since : Tick] /\ ~doubt.on
      /\ eval \in [has : BOOLEAN, tick : Tick] /\ ~eval.has
      /\ window \in Window /\ ~window.has
  BY <1>1, Resets
<1>3. ep \in Episode /\ ep.lifecycle = "none"
  BY <1>1, Numbers DEF NoEpisode, Episode, Reasons
<1>4. ~HasOpenEpisode /\ (ep.lifecycle = "open") = HasOpenEpisode
  BY <1>1, <1>3 DEF HasOpenEpisode
<1>5. last \in Decision
  BY <1>1, Numbers DEF NoDecision, Decision, Classes
<1>6. clock \in Past
  BY <1>1, RemainderIs, DetectorAssumption, Numbers DEF Past, Age
<1>7. TypeOK
  BY <1>1, <1>2, <1>3, <1>4, <1>5, <1>6, Numbers DEF TypeOK, States, OnsetRun, ReleaseRun
<1>8. Remembered
  BY <1>2, <1>6 DEF Remembered
<1>9. OpenIsSupported /\ CooldownOfClose
  BY <1>3, <1>4 DEF OpenIsSupported, CooldownOfClose
<1> QED
  BY <1>7, <1>8, <1>9 DEF IInv

(* Every step keeps the invariant.                                         *)
LEMMA NextKeepsIInv ==
    IInv /\ [Next]_vars => IInv'
<1> SUFFICES ASSUME IInv, [Next]_vars PROVE IInv'
  OBVIOUS
<1>1. /\ gen \in Generations \cup {NoGeneration} /\ policy \in Policies /\ clock \in Past
      /\ NoGeneration \in Generations \cup {NoGeneration}
  BY DEF IInv, TypeOK, Remembered
<1>2. ASSUME NEW tick \in Tick, NEW g \in Generations \cup {NoGeneration}, Ingest(tick, g)
      PROVE  IInv'
  <2>1. tick \in Past /\ clock' \in Past
    BY <1>2, PresentsIs DEF Ingest
  <2>2. CASE IngestFences(tick, g)
    <3>1. /\ HasOpenEpisode /\ CloseEpisode(ep, "capacity", tick, TRUE) /\ gen' = g
          /\ window' = EmptyWindow /\ policy' = policy /\ recovery' = recovery
          /\ eval' = eval /\ last' = last
      BY <2>2 DEF IngestFences
    <3>2. "capacity" \in Reasons
      BY DEF Reasons
    <3> QED
      BY <1>1, <2>1, <3>1, <3>2, CloseStep
  <2>3. CASE IngestEvaluates(tick, g)
    <3> DEFINE w0 == IF Regenerates(g) THEN EmptyWindow ELSE window
    <3>1. /\ ~(Regenerates(g) /\ HasOpenEpisode) /\ gen' = IF g = NoGeneration THEN gen ELSE g
          /\ window' \in OfferOutcomes(w0, tick) /\ Evaluate(window', tick) /\ policy' = policy
      BY <2>3 DEF IngestEvaluates
    <3>2. w0 \in {window, EmptyWindow} /\ (HasOpenEpisode => w0 = window)
      BY <3>1
    <3> HIDE DEF w0
    <3>3. gen' \in Generations \cup {NoGeneration}
      BY <1>1, <3>1
    <3> QED
      BY <2>1, <3>1, <3>2, <3>3, EvaluateStep
  <2> QED
    BY <1>2, <2>2, <2>3 DEF Ingest
<1>3. ASSUME NEW now \in Tick, Advance(now)
      PROVE  IInv'
  <2>1. now \in Past /\ clock' \in Past
    BY <1>3, PresentsIs DEF Advance
  <2>2. window' = window /\ gen' = gen /\ policy' = policy /\ Evaluate(window, now)
    BY <1>3 DEF Advance
  <2>3. Evaluate(window', now)
    BY <2>2
  <2> QED
    BY <1>1, <2>1, <2>2, <2>3, EvaluateStep
<1>4. CASE Fence
  <2>1. /\ HasOpenEpisode /\ CloseEpisode(ep, "authority", clock, TRUE) /\ policy' = policy
        /\ gen' = gen /\ recovery' = recovery /\ eval' = eval /\ last' = last
        /\ window' = window /\ clock' = clock
    BY <1>4 DEF Fence
  <2>2. "authority" \in Reasons
    BY DEF Reasons
  <2> QED
    BY <1>1, <2>1, <2>2, CloseStep
<1>5. ASSUME NEW p \in Policies, Rearm(p)
      PROVE  IInv'
  BY <1>5, RearmStep
<1>6. CASE UNCHANGED vars
  <2>1. /\ policy' = policy /\ gen' = gen /\ state' = state /\ ep' = ep /\ onset' = onset
        /\ release' = release /\ recovery' = recovery /\ cooldown' = cooldown
        /\ doubt' = doubt /\ eval' = eval /\ last' = last /\ window' = window /\ clock' = clock
    BY <1>6 DEF vars
  <2>2. HasOpenEpisode' = HasOpenEpisode
    BY <2>1 DEF HasOpenEpisode
  <2>3. (ep'.lifecycle = "open") = HasOpenEpisode'
    BY <2>1 DEF HasOpenEpisode, IInv, TypeOK
  <2>4. TypeOK /\ Remembered /\ OpenIsSupported /\ CooldownOfClose
    BY DEF IInv
  <2>5. TypeOK'
    BY <2>1, <2>3, <2>4 DEF TypeOK
  <2>6. Remembered' /\ OpenIsSupported' /\ CooldownOfClose'
    BY <2>1, <2>2, <2>4 DEF Remembered, OpenIsSupported, CooldownOfClose
  <2> QED
    BY <2>5, <2>6 DEF IInv
<1> QED
  BY <1>2, <1>3, <1>4, <1>5, <1>6 DEF Next

-----------------------------------------------------------------------------
(* Theorems.                                                               *)

(* The invariant holds in every state the detector reaches.                *)
LEMMA Invariant ==
    Spec => []IInv
<1> QED
  BY InitIsIInv, NextKeepsIInv, PTL DEF Spec

(* The timers, the episode and the decision of MicroburstDetector stay in  *)
(* their ranges, for every policy, and the episode is open exactly when    *)
(* the state machine says so.                                              *)
THEOREM TypeCorrect ==
    Spec => []TypeOK
<1>1. IInv => TypeOK
  BY DEF IInv
<1> QED
  BY <1>1, Invariant, PTL

(* What update_onset() has counted never exceeds what has passed since the *)
(* run began, and an open episode's run lasted onset_sustain_ticks.        *)
THEOREM SustainIsTime ==
    Spec => []SustainIsElapsed
<1>1. IInv => SustainIsElapsed
  <2> SUFFICES ASSUME IInv PROVE SustainIsElapsed
    OBVIOUS
  <2>1. onset.active => onset.ticks <= ForwardGap(onset.start, eval.tick)
    <3> SUFFICES ASSUME onset.active
                 PROVE  onset.ticks <= ForwardGap(onset.start, eval.tick)
      OBVIOUS
    <3>1. /\ onset.start \in Past /\ eval.tick \in Past /\ onset.ticks \in Nat
          /\ Age(onset.start) + onset.ticks <= Age(eval.tick)
      BY Numbers DEF IInv, Remembered, TypeOK
    <3> QED
      BY <3>1, DistanceIs
  <2>2. HasOpenEpisode => ForwardGap(ep.onset, eval.tick) >= ep.policy.onsetSustain
    <3> SUFFICES ASSUME HasOpenEpisode
                 PROVE  ForwardGap(ep.onset, eval.tick) >= ep.policy.onsetSustain
      OBVIOUS
    <3>1. /\ ep.onset \in Past /\ eval.tick \in Past /\ policy \in Policies /\ ep.policy = policy
          /\ Age(ep.onset) + policy.onsetSustain <= Age(eval.tick)
      BY DEF IInv, Remembered, TypeOK, OpenIsSupported
    <3>2. policy.onsetSustain \in Nat
      BY <3>1, Numbers
    <3> QED
      BY <3>1, <3>2, DistanceIs
  <2> QED
    BY <2>1, <2>2 DEF SustainIsElapsed
<1> QED
  BY <1>1, Invariant, PTL

-----------------------------------------------------------------------------
(* The bound on an open episode.                                           *)

(* The clock lies behind neither itself before nor what is presented.      *)
LEMMA ClockKeepsUp ==
    ASSUME IInv, NEW tick \in Tick, Presents(tick)
    PROVE  /\ Age(clock) \in Nat /\ Age(tick) \in Nat /\ Age(clock') \in Nat
           /\ Age(clock) <= Age(clock') /\ Age(tick) <= Age(clock')
<1>1. tick \in Past /\ clock \in Past
  BY PresentsIs DEF IInv, Remembered
<1>2. /\ Age(clock) \in Nat /\ Age(tick) \in Nat
      /\ TickAfter(clock, tick) <=> Age(clock) < Age(tick)
  BY <1>1, DistanceIs
<1>3. clock' = IF TickAfter(clock, tick) THEN tick ELSE clock
  BY DEF Presents
<1>4. CASE TickAfter(clock, tick)
  BY <1>2, <1>3, <1>4
<1>5. CASE ~TickAfter(clock, tick)
  BY <1>2, <1>3, <1>5
<1> QED
  BY <1>4, <1>5

(* A late sample is behind the newest by no more than it is late, and so   *)
(* is not retained.                                                        *)
LEMMA LateIsRefused ==
    ASSUME NoFalseRollover, IInv, Behind,
           NEW tick \in Tick, Presents(tick)
    PROVE  Forwards(tick)
<1> SUFFICES ASSUME window.has, ~TickAfter(window.newest, tick)
             PROVE  ~TakenForRollover(window.newest, tick, policy.reorderTolerance)
  BY DEF Forwards, Retains
<1>1. /\ tick \in Past /\ clock \in Past /\ window.newest \in Past /\ policy \in Policies
  BY PresentsIs DEF IInv, Remembered, TypeOK
<1>2. /\ TickDelta(window.newest, tick) = Age(tick) - Age(window.newest)
      /\ TickDelta(tick, clock) = Age(clock) - Age(tick)
      /\ Age(clock) \in Nat /\ Age(tick) \in Nat /\ Age(window.newest) \in Nat
  BY <1>1, DistanceIs
<1>3. TickDelta(tick, clock) <= MaxLate /\ MaxLate \in Nat
  BY DetectorAssumption DEF Presents
<1>4. Backwards(window.newest, tick) <= MaxLate
  BY <1>2, <1>3 DEF Backwards, Behind
<1> QED
  BY <1>1, <1>4, PastIsLife DEF NoFalseRollover

(* Every step keeps the episode bounded and the newest sample behind the   *)
(* clock.                                                                  *)
LEMMA NextKeepsBInv ==
    ASSUME NoFalseRollover
    PROVE  BInv /\ [Next]_vars => BInv'
<1> SUFFICES ASSUME BInv, [Next]_vars PROVE BInv'
  OBVIOUS
<1>1. /\ IInv /\ OpenEpisodeBounded /\ Behind /\ IInv'
      /\ gen \in Generations \cup {NoGeneration} /\ policy \in Policies /\ clock \in Past
      /\ NoGeneration \in Generations \cup {NoGeneration}
  BY NextKeepsIInv DEF BInv, IInv, TypeOK, Remembered
<1>2. ASSUME NEW now \in Tick, Presents(now), NEW w0 \in {window, EmptyWindow},
             HasOpenEpisode => w0 = window,
             window' \in OfferOutcomes(w0, now) \/ window' = window, Evaluate(window', now),
             policy' = policy, gen' \in Generations \cup {NoGeneration}
      PROVE  OpenEpisodeBounded' /\ Behind'
  <2>1. now \in Past /\ clock' \in Past
    BY <1>1, <1>2, PresentsIs
  <2>2. Forwards(now)
    BY <1>1, <1>2, LateIsRefused
  <2>3. /\ OpenEpisodeBounded'
        /\ window'.has => \/ window'.newest = now
                          \/ window.has /\ window'.newest = window.newest
    BY <1>1, <1>2, <2>1, <2>2, EvaluateStep
  <2>4. /\ Age(clock) \in Nat /\ Age(now) \in Nat /\ Age(clock') \in Nat
        /\ Age(clock) <= Age(clock') /\ Age(now) <= Age(clock')
    BY <1>1, <1>2, ClockKeepsUp
  <2>5. window.has => Age(window.newest) \in Nat
    BY <1>1, DistanceIs DEF IInv, Remembered
  <2>6. Behind'
    <3> SUFFICES ASSUME window'.has PROVE Age(window'.newest) <= Age(clock')
      BY DEF Behind
    <3>1. CASE window'.newest = now
      BY <2>4, <3>1
    <3>2. CASE window.has /\ window'.newest = window.newest
      BY <1>1, <2>4, <2>5, <3>2 DEF Behind
    <3> QED
      BY <2>3, <3>1, <3>2
  <2> QED
    BY <2>3, <2>6
<1>3. ASSUME NEW tick \in Tick, NEW g \in Generations \cup {NoGeneration}, Ingest(tick, g)
      PROVE  OpenEpisodeBounded' /\ Behind'
  <2>1. Presents(tick) /\ tick \in Past /\ clock' \in Past
    BY <1>1, <1>3, PresentsIs DEF Ingest
  <2>2. CASE IngestFences(tick, g)
    <3>1. /\ HasOpenEpisode /\ CloseEpisode(ep, "capacity", tick, TRUE) /\ gen' = g
          /\ window' = EmptyWindow /\ policy' = policy /\ recovery' = recovery
          /\ eval' = eval /\ last' = last
      BY <2>2 DEF IngestFences
    <3>2. "capacity" \in Reasons
      BY DEF Reasons
    <3>3. OpenEpisodeBounded'
      BY <1>1, <2>1, <3>1, <3>2, CloseStep
    <3> QED
      BY <3>1, <3>3, Resets DEF Behind
  <2>3. CASE IngestEvaluates(tick, g)
    <3> DEFINE w0 == IF Regenerates(g) THEN EmptyWindow ELSE window
    <3>1. /\ ~(Regenerates(g) /\ HasOpenEpisode) /\ gen' = IF g = NoGeneration THEN gen ELSE g
          /\ window' \in OfferOutcomes(w0, tick) /\ Evaluate(window', tick) /\ policy' = policy
      BY <2>3 DEF IngestEvaluates
    <3>2. w0 \in {window, EmptyWindow} /\ (HasOpenEpisode => w0 = window)
      BY <3>1
    <3> HIDE DEF w0
    <3>3. gen' \in Generations \cup {NoGeneration}
      BY <1>1, <3>1
    <3> QED
      BY <1>2, <2>1, <3>1, <3>2, <3>3
  <2> QED
    BY <1>3, <2>2, <2>3 DEF Ingest
<1>4. ASSUME NEW now \in Tick, Advance(now)
      PROVE  OpenEpisodeBounded' /\ Behind'
  <2>1. /\ Presents(now) /\ window' = window /\ gen' = gen /\ policy' = policy
        /\ Evaluate(window, now)
    BY <1>4 DEF Advance
  <2>2. Evaluate(window', now)
    BY <2>1
  <2> QED
    BY <1>1, <1>2, <2>1, <2>2
<1>5. ASSUME Fence
      PROVE  OpenEpisodeBounded' /\ Behind'
  <2>1. /\ HasOpenEpisode /\ CloseEpisode(ep, "authority", clock, TRUE) /\ policy' = policy
        /\ gen' = gen /\ recovery' = recovery /\ eval' = eval /\ last' = last
        /\ window' = window /\ clock' = clock
    BY <1>5 DEF Fence
  <2>2. "authority" \in Reasons
    BY DEF Reasons
  <2>3. OpenEpisodeBounded'
    BY <1>1, <2>1, <2>2, CloseStep
  <2>4. Behind'
    BY <1>1, <2>1 DEF Behind
  <2> QED
    BY <2>3, <2>4
<1>6. ASSUME NEW p \in Policies, Rearm(p)
      PROVE  OpenEpisodeBounded' /\ Behind'
  BY <1>1, <1>6, RearmStep DEF Behind
<1>7. ASSUME UNCHANGED vars
      PROVE  OpenEpisodeBounded' /\ Behind'
  <2>1. /\ policy' = policy /\ state' = state /\ ep' = ep /\ doubt' = doubt /\ eval' = eval
        /\ window' = window /\ clock' = clock
    BY <1>7 DEF vars
  <2>2. Behind' /\ HasOpenEpisode' = HasOpenEpisode
    BY <1>1, <2>1 DEF Behind, HasOpenEpisode
  <2> QED
    BY <1>1, <2>1, <2>2 DEF OpenEpisodeBounded
<1>8. OpenEpisodeBounded' /\ Behind'
  BY <1>3, <1>4, <1>5, <1>6, <1>7 DEF Next
<1> QED
  BY <1>1, <1>8 DEF BInv

(* An episode the detector holds open is short of the policy's ceiling, or *)
(* in doubt for no longer than the grace since either clock of             *)
(* evaluate_inadmissible() began to count, as long as no late sample is    *)
(* taken for a rollover by TickSource::observe(): one that is moves the    *)
(* newest tick back under a decision already made.                         *)
THEOREM OpenIsBounded ==
    ASSUME NoFalseRollover
    PROVE  Spec => []OpenEpisodeBounded
<1>1. Init => BInv
  <2>1. Init => ~HasOpenEpisode /\ ~window.has
    BY Resets DEF Init, HasOpenEpisode
  <2> QED
    BY <2>1, InitIsIInv DEF BInv, OpenEpisodeBounded, Behind
<1>2. BInv /\ [Next]_vars => BInv'
  BY NextKeepsBInv
<1>3. BInv => OpenEpisodeBounded
  BY DEF BInv
<1> QED
  BY <1>1, <1>2, <1>3, PTL DEF Spec

-----------------------------------------------------------------------------
(* The detector keeps the protocol of episodes.                            *)

(* A detector and a decision as EpisodeProtocol sees them.                 *)
DetectorOf(g, e, r, o) == [gen |-> g, eval |-> e, run |-> r, open |-> o]

DecisionOf(t, event, opened, updated, closed, fenced, positive) ==
    [tick |-> t, event |-> event, opened |-> opened, updated |-> updated,
     closed |-> closed, fenced |-> fenced, positive |-> positive]

EvalSeen == IF eval.has THEN eval.tick ELSE Never
RunSeen  == IF onset.active /\ ~HasOpenEpisode THEN onset.start ELSE Never
OpenSeen == IF HasOpenEpisode THEN ep.onset ELSE Never

View == DetectorOf(gen, EvalSeen, RunSeen, OpenSeen)
Said == DecisionOf(last.tick, last.event, last.opened, last.updated, last.closed,
                   last.fenced, last.class \in Positive)

Plain(now, event) == DecisionOf(now, event, FALSE, FALSE, FALSE, FALSE, FALSE)

(* The protocol's ticks are the detector's.                                *)
LEMMA SameTicks ==
    /\ Protocol!Tick = Tick
    /\ \A a, b : Protocol!TickAfter(a, b) <=> TickAfter(a, b)
BY DEF Protocol!TickAfter, TickAfter, Protocol!Tick, Tick, Protocol!TickDelta, TickDelta

(* No tick is never.                                                       *)
LEMMA NeverIs ==
    Never \notin Tick
BY TickModulusAssumption DEF Never, Tick

(* An ended detector has neither a run nor an episode.                     *)
LEMMA EndedIs ==
    ASSUME NEW g, NEW e, NEW r, NEW o, NEW d, d = DetectorOf(g, e, r, o)
    PROVE  Protocol!Ended(d) = DetectorOf(g, e, Never, Never)
<1> DEFINE z == [d EXCEPT !.run = Never, !.open = Never]
           S == [gen : {g}, eval : {e}, run : {r, Never}, open : {o, Never}]
<1>1. d \in S /\ DetectorOf(g, e, Never, Never) \in S
  BY DEF DetectorOf
<1>2. z \in S /\ z.run = Never /\ z.open = Never
  BY <1>1
<1>3. Protocol!Ended(d) = z
  BY DEF Protocol!Ended
<1> HIDE DEF z
<1> QED
  BY <1>1, <1>2, <1>3 DEF DetectorOf

(* The edits of a decision the protocol makes.                             *)
LEMMA DecisionsSaid ==
    ASSUME NEW t, NEW event, NEW d, d = Plain(t, event), NEW z
    PROVE  /\ d = Protocol!Silent(t, event)
           /\ z = [d EXCEPT !.updated = TRUE] =>
                  z = DecisionOf(t, event, FALSE, TRUE, FALSE, FALSE, FALSE)
           /\ z = [d EXCEPT !.updated = TRUE, !.positive = TRUE] =>
                  z = DecisionOf(t, event, FALSE, TRUE, FALSE, FALSE, TRUE)
           /\ z = [d EXCEPT !.updated = TRUE, !.closed = TRUE] =>
                  z = DecisionOf(t, event, FALSE, TRUE, TRUE, FALSE, FALSE)
           /\ z = [d EXCEPT !.closed = TRUE, !.fenced = TRUE] =>
                  z = DecisionOf(t, event, FALSE, FALSE, TRUE, TRUE, FALSE)
           /\ z = [d EXCEPT !.opened = TRUE, !.updated = TRUE] =>
                  z = DecisionOf(t, event, TRUE, TRUE, FALSE, FALSE, FALSE)
<1> DEFINE S == [tick : {t}, event : {event}, opened : BOOLEAN, updated : BOOLEAN,
                 closed : BOOLEAN, fenced : BOOLEAN, positive : BOOLEAN]
<1>1. /\ d \in S /\ d.opened = FALSE /\ d.updated = FALSE /\ d.closed = FALSE
      /\ d.fenced = FALSE /\ d.positive = FALSE
  BY DEF Plain, DecisionOf
<1>2. d = Protocol!Silent(t, event)
  BY DEF Plain, DecisionOf, Protocol!Silent
<1>3. \A b1, b2, b3, b4, b5 \in BOOLEAN : DecisionOf(t, event, b1, b2, b3, b4, b5) \in S
  BY DEF DecisionOf
<1>4. ASSUME z = [d EXCEPT !.updated = TRUE]
      PROVE  z = DecisionOf(t, event, FALSE, TRUE, FALSE, FALSE, FALSE)
  <2>1. /\ z \in S /\ z.opened = d.opened /\ z.updated /\ z.closed = d.closed
        /\ z.fenced = d.fenced /\ z.positive = d.positive
    BY <1>1, <1>4
  <2> QED
    BY <1>1, <1>3, <2>1 DEF DecisionOf
<1>5. ASSUME z = [d EXCEPT !.updated = TRUE, !.positive = TRUE]
      PROVE  z = DecisionOf(t, event, FALSE, TRUE, FALSE, FALSE, TRUE)
  <2>1. /\ z \in S /\ z.opened = d.opened /\ z.updated /\ z.closed = d.closed
        /\ z.fenced = d.fenced /\ z.positive
    BY <1>1, <1>5
  <2> QED
    BY <1>1, <1>3, <2>1 DEF DecisionOf
<1>6. ASSUME z = [d EXCEPT !.updated = TRUE, !.closed = TRUE]
      PROVE  z = DecisionOf(t, event, FALSE, TRUE, TRUE, FALSE, FALSE)
  <2>1. /\ z \in S /\ z.opened = d.opened /\ z.updated /\ z.closed
        /\ z.fenced = d.fenced /\ z.positive = d.positive
    BY <1>1, <1>6
  <2> QED
    BY <1>1, <1>3, <2>1 DEF DecisionOf
<1>7. ASSUME z = [d EXCEPT !.closed = TRUE, !.fenced = TRUE]
      PROVE  z = DecisionOf(t, event, FALSE, FALSE, TRUE, TRUE, FALSE)
  <2>1. /\ z \in S /\ z.opened = d.opened /\ z.updated = d.updated /\ z.closed
        /\ z.fenced /\ z.positive = d.positive
    BY <1>1, <1>7
  <2> QED
    BY <1>1, <1>3, <2>1 DEF DecisionOf
<1>8. ASSUME z = [d EXCEPT !.opened = TRUE, !.updated = TRUE]
      PROVE  z = DecisionOf(t, event, TRUE, TRUE, FALSE, FALSE, FALSE)
  <2>1. /\ z \in S /\ z.opened /\ z.updated /\ z.closed = d.closed
        /\ z.fenced = d.fenced /\ z.positive = d.positive
    BY <1>1, <1>8
  <2> QED
    BY <1>1, <1>3, <2>1 DEF DecisionOf
<1> QED
  BY <1>2, <1>4, <1>5, <1>6, <1>7, <1>8

(* An opening is positive, or closed by the evaluation that makes it.      *)
LEMMA OpeningsSaid ==
    ASSUME NEW t, NEW event, NEW d, NEW z,
           d = DecisionOf(t, event, TRUE, TRUE, FALSE, FALSE, FALSE)
    PROVE  /\ z = [d EXCEPT !.positive = TRUE] =>
                  z = DecisionOf(t, event, TRUE, TRUE, FALSE, FALSE, TRUE)
           /\ z = [d EXCEPT !.closed = TRUE] =>
                  z = DecisionOf(t, event, TRUE, TRUE, TRUE, FALSE, FALSE)
<1> DEFINE S == [tick : {t}, event : {event}, opened : BOOLEAN, updated : BOOLEAN,
                 closed : BOOLEAN, fenced : BOOLEAN, positive : BOOLEAN]
<1>1. /\ d \in S /\ d.opened = TRUE /\ d.updated = TRUE /\ d.closed = FALSE
      /\ d.fenced = FALSE /\ d.positive = FALSE
  BY DEF DecisionOf
<1>2. \A b1, b2, b3, b4, b5 \in BOOLEAN : DecisionOf(t, event, b1, b2, b3, b4, b5) \in S
  BY DEF DecisionOf
<1>3. ASSUME z = [d EXCEPT !.positive = TRUE]
      PROVE  z = DecisionOf(t, event, TRUE, TRUE, FALSE, FALSE, TRUE)
  <2>1. /\ z \in S /\ z.opened = d.opened /\ z.updated = d.updated
        /\ z.closed = d.closed /\ z.fenced = d.fenced /\ z.positive
    BY <1>1, <1>3
  <2> QED
    BY <1>1, <1>2, <2>1 DEF DecisionOf
<1>4. ASSUME z = [d EXCEPT !.closed = TRUE]
      PROVE  z = DecisionOf(t, event, TRUE, TRUE, TRUE, FALSE, FALSE)
  <2>1. /\ z \in S /\ z.opened = d.opened /\ z.updated = d.updated
        /\ z.closed /\ z.fenced = d.fenced /\ z.positive = d.positive
    BY <1>1, <1>4
  <2> QED
    BY <1>1, <1>2, <2>1 DEF DecisionOf
<1> QED
  BY <1>3, <1>4

(* What the protocol lets an idle detector do, spelled out.                *)
LEMMA QuietIs ==
    ASSUME NEW g, NEW e, NEW r, NEW now, NEW x \in {Never, IF r = Never THEN now ELSE r}
    PROVE  Protocol!Outcome(DetectorOf(g, now, x, Never), Plain(now, Never))
               \in Protocol!Afresh(DetectorOf(g, e, r, Never), now)
<1> DEFINE d == DetectorOf(g, now, r, Never)
<1>1. [DetectorOf(g, e, r, Never) EXCEPT !.eval = now] = d
  BY DEF DetectorOf
<1>2. DetectorOf(g, e, r, Never).open = Never /\ d.run = r
  BY DEF DetectorOf
<1>3. [d EXCEPT !.run = x] = DetectorOf(g, now, x, Never)
  BY DEF DetectorOf
<1>4. Protocol!Silent(now, Never) = Plain(now, Never)
  BY DecisionsSaid
<1> HIDE DEF d
<1>5. Protocol!Outcome(DetectorOf(g, now, x, Never), Plain(now, Never)) \in Protocol!Quiet(d, now)
  BY <1>2, <1>3, <1>4 DEF Protocol!Quiet
<1> QED
  BY <1>1, <1>2, <1>5 DEF Protocol!Afresh

(* An opening on a run that began before, which may close at once.         *)
LEMMA OpeningIs ==
    ASSUME NEW g, NEW e, NEW r, NEW now, r # Never, TickAfter(r, now)
    PROVE  /\ Protocol!Outcome(DetectorOf(g, now, Never, r),
                               DecisionOf(now, r, TRUE, TRUE, FALSE, FALSE, TRUE))
                  \in Protocol!Afresh(DetectorOf(g, e, r, Never), now)
           /\ Protocol!Outcome(DetectorOf(g, now, Never, Never),
                               DecisionOf(now, r, TRUE, TRUE, TRUE, FALSE, FALSE))
                  \in Protocol!Afresh(DetectorOf(g, e, r, Never), now)
<1> DEFINE d   == DetectorOf(g, now, r, Never)
           dec == [Protocol!Silent(now, r) EXCEPT !.opened = TRUE, !.updated = TRUE]
<1>1. [DetectorOf(g, e, r, Never) EXCEPT !.eval = now] = d
  BY DEF DetectorOf
<1>2. DetectorOf(g, e, r, Never).open = Never /\ d.run = r
  BY DEF DetectorOf
<1>3. /\ [d EXCEPT !.run = Never, !.open = r] = DetectorOf(g, now, Never, r)
      /\ [d EXCEPT !.run = Never, !.open = Never] = DetectorOf(g, now, Never, Never)
  <2> DEFINE opened == [d EXCEPT !.run = Never, !.open = r]
             closed == [d EXCEPT !.run = Never, !.open = Never]
             S      == [gen : {g}, eval : {now}, run : {r, Never}, open : {r, Never}]
  <2>1. /\ d \in S /\ DetectorOf(g, now, Never, r) \in S
        /\ DetectorOf(g, now, Never, Never) \in S
    BY DEF DetectorOf
  <2> HIDE DEF d
  <2>2. /\ opened \in S /\ opened.run = Never /\ opened.open = r
        /\ closed \in S /\ closed.run = Never /\ closed.open = Never
    BY <2>1
  <2> HIDE DEF opened, closed
  <2>3. opened = DetectorOf(g, now, Never, r) /\ closed = DetectorOf(g, now, Never, Never)
    BY <2>1, <2>2 DEF DetectorOf
  <2> QED
    BY <2>3 DEF opened, closed
<1>4. dec = DecisionOf(now, r, TRUE, TRUE, FALSE, FALSE, FALSE)
  <2>1. Protocol!Silent(now, r) = Plain(now, r)
    BY DecisionsSaid
  <2> QED
    BY <2>1, DecisionsSaid
<1> HIDE DEF d, dec
<1>5. /\ [dec EXCEPT !.positive = TRUE] = DecisionOf(now, r, TRUE, TRUE, FALSE, FALSE, TRUE)
      /\ [dec EXCEPT !.closed = TRUE] = DecisionOf(now, r, TRUE, TRUE, TRUE, FALSE, FALSE)
  BY <1>4, OpeningsSaid
<1>6. Protocol!Openings(d, now) =
          {Protocol!Outcome(DetectorOf(g, now, Never, r), [dec EXCEPT !.positive = TRUE]),
           Protocol!Outcome(DetectorOf(g, now, Never, Never), [dec EXCEPT !.closed = TRUE])}
  BY <1>2, <1>3, SameTicks DEF Protocol!Openings, Protocol!Ended, dec
<1> QED
  BY <1>1, <1>2, <1>5, <1>6 DEF Protocol!Afresh

(* What it lets an open episode do.                                        *)
LEMMA ContinuationIs ==
    ASSUME NEW g, NEW e, NEW r, NEW o, NEW now, o # Never
    PROVE  LET d    == DetectorOf(g, now, r, o)
               over == DetectorOf(g, now, Never, Never)
               may  == Protocol!Afresh(DetectorOf(g, e, r, o), now)
           IN  /\ Protocol!Outcome(d, Plain(now, o)) \in may
               /\ Protocol!Outcome(d, DecisionOf(now, o, FALSE, TRUE, FALSE, FALSE, FALSE)) \in may
               /\ Protocol!Outcome(d, DecisionOf(now, o, FALSE, TRUE, FALSE, FALSE, TRUE)) \in may
               /\ Protocol!Outcome(over, DecisionOf(now, o, FALSE, TRUE, TRUE, FALSE, FALSE))
                      \in may
               /\ Protocol!Outcome(over, DecisionOf(now, o, FALSE, FALSE, TRUE, TRUE, FALSE))
                      \in may
<1> DEFINE d    == DetectorOf(g, now, r, o)
           none == Protocol!Silent(now, o)
<1>1. [DetectorOf(g, e, r, o) EXCEPT !.eval = now] = d
  BY DEF DetectorOf
<1>2. DetectorOf(g, e, r, o).open = o /\ d.open = o
  BY DEF DetectorOf
<1>3. Protocol!Ended(d) = DetectorOf(g, now, Never, Never)
  BY EndedIs
<1>4. none = Plain(now, o)
  BY DecisionsSaid
<1> HIDE DEF d, none
<1>5. /\ [none EXCEPT !.updated = TRUE] = DecisionOf(now, o, FALSE, TRUE, FALSE, FALSE, FALSE)
      /\ [none EXCEPT !.updated = TRUE, !.positive = TRUE]
             = DecisionOf(now, o, FALSE, TRUE, FALSE, FALSE, TRUE)
      /\ [none EXCEPT !.updated = TRUE, !.closed = TRUE]
             = DecisionOf(now, o, FALSE, TRUE, TRUE, FALSE, FALSE)
      /\ [none EXCEPT !.closed = TRUE, !.fenced = TRUE]
             = DecisionOf(now, o, FALSE, FALSE, TRUE, TRUE, FALSE)
  BY <1>4, DecisionsSaid, ZenonT(30)
<1>6. Protocol!Continuations(d, now) =
          {Protocol!Outcome(d, none),
           Protocol!Outcome(d, [none EXCEPT !.updated = TRUE]),
           Protocol!Outcome(d, [none EXCEPT !.updated = TRUE, !.positive = TRUE]),
           Protocol!Outcome(Protocol!Ended(d), [none EXCEPT !.updated = TRUE, !.closed = TRUE]),
           Protocol!Outcome(Protocol!Ended(d), [none EXCEPT !.closed = TRUE, !.fenced = TRUE])}
  BY <1>2 DEF Protocol!Continuations, none
<1>7. Protocol!Afresh(DetectorOf(g, e, r, o), now) = Protocol!Continuations(d, now)
  BY <1>1, <1>2 DEF Protocol!Afresh
<1> QED
  BY <1>3, <1>4, <1>5, <1>6, <1>7 DEF d

(* What a decision is to the protocol.                                     *)
LEMMA SaidIs ==
    ASSUME NEW d \in Decision, last' = d, NEW o \in BOOLEAN, NEW u \in BOOLEAN, NEW c \in BOOLEAN,
           NEW f \in BOOLEAN, NEW p \in BOOLEAN,
           d.opened <=> o, d.updated <=> u, d.closed <=> c, d.fenced <=> f,
           d.class \in Positive <=> p
    PROVE  Said' = DecisionOf(d.tick, d.event, o, u, c, f, p)
<1>1. d.opened \in BOOLEAN /\ d.updated \in BOOLEAN /\ d.closed \in BOOLEAN /\ d.fenced \in BOOLEAN
  BY DEF Decision
<1>2. d.opened = o /\ d.updated = u /\ d.closed = c /\ d.fenced = f /\ (d.class \in Positive) = p
  BY <1>1
<1> QED
  BY <1>2 DEF Said, DecisionOf

(* A close leaves nothing for the protocol to see.                         *)
LEMMA CloseSeen ==
    ASSUME NEW e, NEW reason, NEW now, NEW fenced, CloseEpisode(e, reason, now, fenced)
    PROVE  RunSeen' = Never /\ OpenSeen' = Never
<1>1. state' = "idle" /\ onset' = NoOnset
  BY DEF CloseEpisode
<1> QED
  BY <1>1, Resets DEF RunSeen, OpenSeen, HasOpenEpisode

(* A settled episode is seen open with the decision made, or closed.       *)
LEMMA SettleSeen ==
    ASSUME NEW e, NEW st \in {"active", "recovering"}, NEW run, NEW rel, NEW now,
           NEW dec \in Decision, ~dec.closed, Settle(e, st, run, rel, dec, now)
    PROVE  /\ RunSeen' = Never
           /\ \/ OpenSeen' = e.onset /\ last' = dec
              \/ /\ OpenSeen' = Never /\ last' \in Decision /\ last'.closed
                 /\ last'.class \notin Positive /\ last'.tick = dec.tick
                 /\ last'.event = dec.event /\ last'.opened = dec.opened
                 /\ last'.updated = dec.updated /\ last'.fenced = dec.fenced
<1>1. CASE Ceiling(e, now)
  <2>1. /\ CloseEpisode(e, "timeout", now, FALSE)
        /\ last' = [dec EXCEPT !.class = "quiescent", !.closed = TRUE]
    BY <1>1 DEF Settle, Conclude
  <2>2. /\ last' \in Decision /\ last'.tick = dec.tick /\ last'.class = "quiescent"
        /\ last'.event = dec.event /\ last'.opened = dec.opened /\ last'.updated = dec.updated
        /\ last'.closed /\ last'.fenced = dec.fenced
    BY <2>1, EndingEdits
  <2> QED
    BY <2>1, <2>2, CloseSeen DEF Positive
<1>2. CASE ~Ceiling(e, now)
  <2>1. state' = st /\ ep' = e /\ last' = dec
    BY <1>2 DEF Settle, Conclude
  <2> QED
    BY <2>1 DEF RunSeen, OpenSeen, HasOpenEpisode
<1> QED
  BY <1>1, <1>2

(* The protocol allows what is now seen and said.                          *)
Allowed(now) ==
    \E out \in Protocol!Afresh(DetectorOf(gen', EvalSeen, RunSeen, OpenSeen), now) :
        View' = out.det /\ Said' = out.decision

(* It does when the outcome is one of the protocol's.                      *)
LEMMA AllowedIs ==
    ASSUME NEW now, EvalSeen' = now,
           Protocol!Outcome(DetectorOf(gen', now, RunSeen', OpenSeen'), Said')
               \in Protocol!Afresh(DetectorOf(gen', EvalSeen, RunSeen, OpenSeen), now)
    PROVE  Allowed(now)
<1> DEFINE out == Protocol!Outcome(DetectorOf(gen', now, RunSeen', OpenSeen'), Said')
<1>1. View' = DetectorOf(gen', now, RunSeen', OpenSeen')
  BY DEF View
<1>2. out.det = DetectorOf(gen', now, RunSeen', OpenSeen') /\ out.decision = Said'
  BY DEF Protocol!Outcome
<1> QED
  BY <1>1, <1>2 DEF Allowed

(* An update of the open episode is one of the protocol's continuations.   *)
LEMMA UpdateAllowed ==
    ASSUME IInv, HasOpenEpisode, NEW now \in Tick, EvalSeen' = now, NEW class \in Classes,
           NEW st \in {"active", "recovering"}, NEW run, NEW rel,
           Settle(ep, st, run, rel, UpdateAt(ep, now, class), now)
    PROVE  Allowed(now)
<1> DEFINE dec == UpdateAt(ep, now, class)
<1>1. ep \in Episode /\ ep.onset \in Tick /\ ep.onset # Never
  BY NeverIs DEF IInv, TypeOK, Episode
<1>2. OpenSeen = ep.onset /\ RunSeen = Never
  BY DEF OpenSeen, RunSeen
<1>3. /\ dec \in Decision /\ dec.tick = now /\ dec.class = class /\ dec.event = ep.onset
      /\ ~dec.opened /\ dec.updated /\ ~dec.closed /\ ~dec.fenced
  BY <1>1, DecisionsAre
<1>4. Settle(ep, st, run, rel, dec, now)
  OBVIOUS
<1> HIDE DEF dec
<1>5. /\ RunSeen' = Never
      /\ \/ OpenSeen' = ep.onset /\ last' = dec
         \/ /\ OpenSeen' = Never /\ last' \in Decision /\ last'.closed
            /\ last'.class \notin Positive /\ last'.tick = dec.tick
            /\ last'.event = dec.event /\ last'.opened = dec.opened
            /\ last'.updated = dec.updated /\ last'.fenced = dec.fenced
  BY <1>3, <1>4, SettleSeen
<1>6. CASE OpenSeen' = ep.onset /\ last' = dec /\ class \in Positive
  <2>1. Said' = DecisionOf(now, ep.onset, FALSE, TRUE, FALSE, FALSE, TRUE)
    BY <1>3, <1>6, SaidIs
  <2> QED
    BY <1>1, <1>2, <1>5, <1>6, <2>1, ContinuationIs, AllowedIs
<1>7. CASE OpenSeen' = ep.onset /\ last' = dec /\ class \notin Positive
  <2>1. Said' = DecisionOf(now, ep.onset, FALSE, TRUE, FALSE, FALSE, FALSE)
    BY <1>3, <1>7, SaidIs
  <2> QED
    BY <1>1, <1>2, <1>5, <1>7, <2>1, ContinuationIs, AllowedIs
<1>8. CASE /\ OpenSeen' = Never /\ last' \in Decision /\ last'.closed
           /\ last'.class \notin Positive /\ last'.tick = dec.tick
           /\ last'.event = dec.event /\ last'.opened = dec.opened
           /\ last'.updated = dec.updated /\ last'.fenced = dec.fenced
  <2>1. /\ last'.tick = now /\ last'.event = ep.onset /\ ~last'.opened /\ last'.updated
        /\ ~last'.fenced
    BY <1>3, <1>8
  <2>2. Said' = DecisionOf(now, ep.onset, FALSE, TRUE, TRUE, FALSE, FALSE)
    BY <1>8, <2>1, SaidIs
  <2> QED
    BY <1>1, <1>2, <1>5, <1>8, <2>2, ContinuationIs, AllowedIs
<1> QED
  BY <1>5, <1>6, <1>7, <1>8

(* An opening is one of the protocol's: its run was there, and began       *)
(* before.                                                                 *)
LEMMA OpeningAllowed ==
    ASSUME IInv, NEW now \in Past, ~AlreadyEvaluated(now), NEW w \in Window, EvalSeen' = now,
           OpenEpisode(w, now)
    PROVE  Allowed(now)
<1> DEFINE run == OnsetAfter(w, now)
           e   == [onset |-> run.start, lifecycle |-> "open", reason |-> "none",
                   closedTick |-> 0, policy |-> policy]
           upd == UpdateAt(e, now, PositiveClass(w, now))
           dec == [upd EXCEPT !.opened = TRUE]
<1>1. now \in Tick /\ policy \in Policies /\ policy.onsetSustain \in Nat \ {0} /\ onset \in OnsetRun
  BY Numbers DEF IInv, TypeOK, OnsetRun
<1>2. /\ state = "idle" /\ run.active /\ run.ticks >= policy.onsetSustain
      /\ Settle(e, "active", run, NoRelease, dec, now)
  BY DEF OpenEpisode, OnsetConfirmed
<1>3. /\ run \in OnsetRun /\ run.start \in Past /\ Age(run.start) + run.ticks <= Age(now)
      /\ onset.active => run.start = onset.start
      /\ ~onset.active => run.ticks = 0
  BY <1>2, OnsetIs
<1>4. run.ticks \in Nat /\ Age(run.start) \in Nat /\ Age(now) \in Nat /\ run.start \in Tick
  BY <1>3, DistanceIs, Numbers DEF OnsetRun
<1>5. onset.active /\ run.start = onset.start
  BY <1>1, <1>2, <1>3, <1>4
<1>6. run.start # Never /\ TickAfter(run.start, now)
  <2>1. Age(run.start) < Age(now)
    BY <1>1, <1>2, <1>3, <1>4
  <2> QED
    BY <1>3, <1>4, <2>1, DistanceIs, NeverIs
<1>7. RunSeen = run.start /\ OpenSeen = Never
  BY <1>2, <1>5 DEF RunSeen, OpenSeen, HasOpenEpisode
<1>8. e \in Episode /\ e.onset = run.start
  BY <1>1, <1>4, Numbers DEF Episode, Reasons
<1> HIDE DEF run, e
<1>9. /\ upd \in Decision /\ upd.tick = now /\ upd.event = run.start
      /\ upd.class = PositiveClass(w, now) /\ PositiveClass(w, now) \in Positive
      /\ ~upd.opened /\ upd.updated /\ ~upd.closed /\ ~upd.fenced
  BY <1>1, <1>8, ClassesAre, DecisionsAre
<1> HIDE DEF upd
<1>10. /\ dec \in Decision /\ dec.tick = now /\ dec.event = run.start /\ dec.class \in Positive
       /\ dec.opened /\ dec.updated /\ ~dec.closed /\ ~dec.fenced
  <2>1. /\ dec \in Decision /\ dec.tick = upd.tick /\ dec.class = upd.class
        /\ dec.event = upd.event /\ dec.opened /\ dec.updated = upd.updated
        /\ dec.closed = upd.closed /\ dec.fenced = upd.fenced
    BY <1>9, EndingEdits
  <2> HIDE DEF dec
  <2> QED
    BY <1>9, <2>1
<1> HIDE DEF dec
<1>11. /\ RunSeen' = Never
       /\ \/ OpenSeen' = e.onset /\ last' = dec
          \/ /\ OpenSeen' = Never /\ last' \in Decision /\ last'.closed
             /\ last'.class \notin Positive /\ last'.tick = dec.tick
             /\ last'.event = dec.event /\ last'.opened = dec.opened
             /\ last'.updated = dec.updated /\ last'.fenced = dec.fenced
  BY <1>2, <1>10, SettleSeen
<1>12. CASE OpenSeen' = e.onset /\ last' = dec
  <2>1. Said' = DecisionOf(now, run.start, TRUE, TRUE, FALSE, FALSE, TRUE)
    BY <1>10, <1>12, SaidIs
  <2> QED
    BY <1>6, <1>7, <1>8, <1>11, <1>12, <2>1, OpeningIs, AllowedIs
<1>13. CASE /\ OpenSeen' = Never /\ last' \in Decision /\ last'.closed
            /\ last'.class \notin Positive /\ last'.tick = dec.tick
            /\ last'.event = dec.event /\ last'.opened = dec.opened
            /\ last'.updated = dec.updated /\ last'.fenced = dec.fenced
  <2>1. /\ last'.tick = now /\ last'.event = run.start /\ last'.opened /\ last'.updated
        /\ ~last'.fenced
    BY <1>10, <1>13
  <2>2. Said' = DecisionOf(now, run.start, TRUE, TRUE, TRUE, FALSE, FALSE)
    BY <1>13, <2>1, SaidIs
  <2> QED
    BY <1>6, <1>7, <1>11, <1>13, <2>2, OpeningIs, AllowedIs
<1> QED
  BY <1>11, <1>12, <1>13

(* An evaluation of admissible evidence is one of the protocol's.          *)
LEMMA AdmissibleAllowed ==
    ASSUME IInv, NEW now \in Past, ~AlreadyEvaluated(now), NEW w \in Window, EvalSeen' = now,
           EvaluateAdmissible(w, now)
    PROVE  Allowed(now)
<1>1. now \in Tick /\ onset \in OnsetRun /\ ep \in Episode
  BY Numbers DEF IInv, TypeOK, OnsetRun
<1>2. CASE StayIdle(w, now)
  <2> DEFINE run   == OnsetAfter(w, now)
             class == IF run.active THEN "candidate" ELSE "quiescent"
  <2>1. onset' = run /\ last' = DecisionAt(now, class) /\ state = "idle" /\ state' = state
    BY <1>2 DEF StayIdle, Conclude
  <2>2. /\ run.active /\ onset.active => run.start = onset.start
        /\ run.active /\ ~onset.active => run.start = now
    BY OnsetIs
  <2> HIDE DEF run
  <2>3. class \in Classes /\ class \notin Positive
    BY DEF Classes, Positive
  <2> HIDE DEF class
  <2>4. Said' = Plain(now, Never)
    <3>1. /\ last' \in Decision /\ last'.tick = now /\ last'.class = class /\ last'.event = Never
          /\ ~last'.opened /\ ~last'.updated /\ ~last'.closed /\ ~last'.fenced
      BY <1>1, <2>1, <2>3, DecisionsAre
    <3> QED
      BY <2>3, <3>1, SaidIs DEF Plain
  <2>5. /\ OpenSeen = Never /\ OpenSeen' = Never
        /\ RunSeen = IF onset.active THEN onset.start ELSE Never
        /\ RunSeen' = IF run.active THEN run.start ELSE Never
    BY <2>1 DEF OpenSeen, RunSeen, HasOpenEpisode
  <2>6. RunSeen' \in {Never, IF RunSeen = Never THEN now ELSE RunSeen}
    BY <1>1, <2>2, <2>5, NeverIs DEF OnsetRun
  <2> QED
    BY <2>4, <2>5, <2>6, QuietIs, AllowedIs
<1>3. CASE OpenEpisode(w, now)
  BY <1>3, OpeningAllowed
<1>4. CASE UpdateActive(w, now)
  <2>1. \E class \in Classes : \E run, rel :
            Settle(ep, "active", run, rel, UpdateAt(ep, now, class), now)
    BY <1>4, ClassesAre DEF UpdateActive
  <2> QED
    BY <1>1, <1>4, <2>1, UpdateAllowed DEF UpdateActive, HasOpenEpisode
<1>5. CASE BeginRecovery(w, now)
  <2>1. \E class \in Classes : \E run, rel :
            Settle(ep, "recovering", run, rel, UpdateAt(ep, now, class), now)
    BY <1>5, ClassesAre DEF BeginRecovery
  <2> QED
    BY <1>1, <1>5, <2>1, UpdateAllowed DEF BeginRecovery, HasOpenEpisode
<1>6. CASE MergeOnset(w, now)
  <2>1. \E class \in Classes : \E run, rel :
            Settle(ep, "active", run, rel, UpdateAt(ep, now, class), now)
    BY <1>6, ClassesAre DEF MergeOnset
  <2> QED
    BY <1>1, <1>6, <2>1, UpdateAllowed DEF MergeOnset, HasOpenEpisode
<1>7. CASE LingerInRecovery(w, now)
  <2>1. \E class \in Classes : \E run, rel :
            Settle(ep, "recovering", run, rel, UpdateAt(ep, now, class), now)
    BY <1>7, ClassesAre DEF LingerInRecovery
  <2> QED
    BY <1>1, <1>7, <2>1, UpdateAllowed DEF LingerInRecovery, HasOpenEpisode
<1>8. CASE FinishRecovery(w, now)
  <2> DEFINE upd == UpdateAt(ep, now, "quiescent")
  <2>1. /\ CloseEpisode(ep, "release", now, FALSE) /\ HasOpenEpisode
        /\ last' = [upd EXCEPT !.closed = TRUE]
    BY <1>8 DEF FinishRecovery, HasOpenEpisode, Conclude
  <2>2. /\ upd \in Decision /\ upd.tick = now /\ upd.class = "quiescent" /\ upd.event = ep.onset
        /\ ~upd.opened /\ upd.updated /\ ~upd.closed /\ ~upd.fenced
    BY <1>1, ClassesAre, DecisionsAre
  <2> HIDE DEF upd
  <2>3. /\ last' \in Decision /\ last'.tick = now /\ last'.class = "quiescent"
        /\ last'.event = ep.onset
        /\ ~last'.opened /\ last'.updated /\ last'.closed /\ ~last'.fenced
    BY <2>1, <2>2, EndingEdits
  <2>4. Said' = DecisionOf(now, ep.onset, FALSE, TRUE, TRUE, FALSE, FALSE)
    BY <2>3, SaidIs DEF Positive
  <2>5. OpenSeen = ep.onset /\ ep.onset # Never /\ RunSeen' = Never /\ OpenSeen' = Never
    BY <1>1, <2>1, CloseSeen, NeverIs DEF OpenSeen, Episode
  <2> QED
    BY <2>4, <2>5, ContinuationIs, AllowedIs
<1> QED
  BY <1>2, <1>3, <1>4, <1>5, <1>6, <1>7, <1>8 DEF EvaluateAdmissible

(* An evaluation of inadmissible evidence is one of the protocol's.        *)
LEMMA InadmissibleAllowed ==
    ASSUME IInv, NEW now \in Tick, NEW w, EvalSeen' = now, EvaluateInadmissible(w, now)
    PROVE  Allowed(now)
<1>1. ep \in Episode /\ ep.onset \in Tick /\ ep.onset # Never
  BY NeverIs DEF IInv, TypeOK, Episode
<1>2. CASE StayUnknown(now)
  <2>1. /\ last' = UnknownAt(now, "unknown") /\ ~HasOpenEpisode
        /\ state' = state /\ onset' = onset
    BY <1>2 DEF StayUnknown, Conclude
  <2>2. /\ last' \in Decision /\ last'.tick = now /\ last'.class = "unknown" /\ last'.event = Never
        /\ ~last'.opened /\ ~last'.updated /\ ~last'.closed /\ ~last'.fenced
    BY <1>1, <2>1, ClassesAre, DecisionsAre
  <2>3. Said' = Plain(now, Never)
    BY <2>2, SaidIs DEF Positive, Plain
  <2>4. OpenSeen = Never /\ OpenSeen' = Never /\ RunSeen' = RunSeen
    BY <2>1 DEF OpenSeen, RunSeen, HasOpenEpisode
  <2>5. RunSeen' \in {Never, IF RunSeen = Never THEN now ELSE RunSeen}
    BY <2>4
  <2> QED
    BY <2>3, <2>4, <2>5, QuietIs, AllowedIs
<1>3. CASE Suspend(w, now)
  <2>1. /\ last' = UnknownAt(now, "recovering") /\ HasOpenEpisode
        /\ state' = state /\ onset' = onset /\ ep' = ep
    BY <1>3 DEF Suspend, Conclude
  <2>2. /\ last' \in Decision /\ last'.tick = now /\ last'.class = "recovering"
        /\ last'.event = ep.onset
        /\ ~last'.opened /\ ~last'.updated /\ ~last'.closed /\ ~last'.fenced
    BY <1>1, <2>1, ClassesAre, DecisionsAre
  <2>3. Said' = Plain(now, ep.onset)
    BY <2>2, SaidIs DEF Positive, Plain
  <2>4. OpenSeen = ep.onset /\ OpenSeen' = OpenSeen /\ RunSeen' = RunSeen
    BY <2>1 DEF OpenSeen, RunSeen, HasOpenEpisode
  <2> QED
    BY <1>1, <2>3, <2>4, ContinuationIs, AllowedIs
<1>4. CASE FenceStale(w, now)
  <2> DEFINE before == UnknownAt(now, "fenced")
  <2>1. /\ CloseEpisode(ep, FenceReason(w, now), now, TRUE) /\ HasOpenEpisode
        /\ last' = [before EXCEPT !.closed = TRUE, !.fenced = TRUE]
    BY <1>4 DEF FenceStale, Conclude
  <2>2. /\ before \in Decision /\ before.tick = now /\ before.class = "fenced"
        /\ before.event = ep.onset
        /\ ~before.opened /\ ~before.updated /\ ~before.closed /\ ~before.fenced
    BY <1>1, <2>1, ClassesAre, DecisionsAre
  <2> HIDE DEF before
  <2>3. /\ last' \in Decision /\ last'.tick = now /\ last'.class = "fenced"
        /\ last'.event = ep.onset
        /\ ~last'.opened /\ ~last'.updated /\ last'.closed /\ last'.fenced
    <3>1. /\ last' \in Decision /\ last'.tick = before.tick /\ last'.class = before.class
          /\ last'.event = before.event /\ last'.opened = before.opened
          /\ last'.updated = before.updated /\ last'.closed /\ last'.fenced
      BY <2>1, <2>2, EndingEdits
    <3> QED
      BY <2>2, <3>1
  <2>4. Said' = DecisionOf(now, ep.onset, FALSE, FALSE, TRUE, TRUE, FALSE)
    BY <2>3, SaidIs DEF Positive
  <2>5. OpenSeen = ep.onset /\ RunSeen' = Never /\ OpenSeen' = Never
    BY <2>1, CloseSeen DEF OpenSeen
  <2> QED
    BY <1>1, <2>4, <2>5, ContinuationIs, AllowedIs
<1> QED
  BY <1>2, <1>3, <1>4 DEF EvaluateInadmissible

(* A sample or a tick that does not fence is an evaluation of the protocol:*)
(* the last decision again, or one the protocol allows.                    *)
LEMMA EvaluationIs ==
    ASSUME NEW now \in Tick, NEW g \in Generations \cup {NoGeneration},
           ~(Regenerates(g) /\ OpenSeen # Never),
           gen' = IF g = NoGeneration THEN gen ELSE g,
           \/ /\ EvalSeen # Never /\ ~TickAfter(EvalSeen, now) /\ Said' = Said
              /\ EvalSeen' = EvalSeen /\ RunSeen' = RunSeen /\ OpenSeen' = OpenSeen
           \/ ~(EvalSeen # Never /\ ~TickAfter(EvalSeen, now)) /\ Allowed(now)
    PROVE  Protocol!Next
<1> DEFINE d == DetectorOf(gen', EvalSeen, RunSeen, OpenSeen)
           all == Protocol!Evaluations(d, Said, now)
<1>1. /\ View.gen = gen /\ View.open = OpenSeen
      /\ d.gen = gen' /\ d.eval = EvalSeen /\ d.open = OpenSeen
  BY DEF View, DetectorOf
<1>2. [View EXCEPT !.gen = IF g = NoGeneration THEN @ ELSE g] = d
  BY DEF View, DetectorOf
<1>3. ~(Protocol!Regenerated(View, g) /\ View.open # Never)
  BY <1>1 DEF Protocol!Regenerated, Regenerates
<1>4. Protocol!Samples(View, Said, now, g) = all
  BY <1>2, <1>3 DEF Protocol!Samples
<1>5. Protocol!Repeats(d, now) <=> EvalSeen # Never /\ ~TickAfter(EvalSeen, now)
  BY <1>1, SameTicks DEF Protocol!Repeats
<1>6. \E out \in all : View' = out.det /\ Said' = out.decision
  <2>1. CASE Protocol!Repeats(d, now)
    <3>1. Said' = Said /\ View' = d
      BY <1>5, <2>1 DEF View
    <3> HIDE DEF d
    <3> DEFINE out == Protocol!Outcome(d, Said)
    <3>2. out \in all
      BY <2>1 DEF Protocol!Evaluations
    <3>3. out.det = d /\ out.decision = Said
      BY DEF Protocol!Outcome
    <3> QED
      BY <3>1, <3>2, <3>3
  <2>2. CASE ~Protocol!Repeats(d, now)
    <3>1. all = Protocol!Afresh(d, now)
      BY <2>2 DEF Protocol!Evaluations
    <3>2. Allowed(now)
      BY <1>5, <2>2
    <3> QED
      BY <3>1, <3>2 DEF Allowed
  <2> QED
    BY <2>1, <2>2
<1> HIDE DEF d, all
<1>7. Protocol!Yields(Protocol!Samples(View, Said, now, g))
  BY <1>4, <1>6 DEF Protocol!Yields, View, Said, DetectorOf, DecisionOf, EvalSeen, RunSeen, OpenSeen
<1>8. now \in Protocol!Tick /\ g \in Protocol!Generation
  BY SameTicks DEF Protocol!Generation
<1> QED
  BY <1>3, <1>7, <1>8 DEF Protocol!Next, Protocol!Evaluate, View, Said, DetectorOf, DecisionOf,
     EvalSeen, RunSeen, OpenSeen

(* What is seen of a detector is what it has.                              *)
LEMMA SeenIs ==
    ASSUME IInv
    PROVE  /\ OpenSeen # Never <=> HasOpenEpisode
           /\ EvalSeen # Never <=> eval.has
           /\ eval.has => EvalSeen = eval.tick
<1>1. ep.onset \in Tick /\ eval.tick \in Tick
  BY DEF IInv, TypeOK, Episode
<1> QED
  BY <1>1, NeverIs DEF OpenSeen, EvalSeen

(* An evaluation, cached or not, is one of the protocol's.                 *)
LEMMA EvaluateIsProtocol ==
    ASSUME IInv, NEW now \in Past, NEW g \in Generations \cup {NoGeneration},
           ~(Regenerates(g) /\ HasOpenEpisode), gen' = IF g = NoGeneration THEN gen ELSE g,
           window' \in Window, Evaluate(window', now)
    PROVE  Protocol!Next
<1>1. now \in Tick
  BY Numbers
<1>2. AlreadyEvaluated(now) <=> EvalSeen # Never /\ ~TickAfter(EvalSeen, now)
  BY SeenIs DEF AlreadyEvaluated
<1>3. ~(Regenerates(g) /\ OpenSeen # Never)
  BY SeenIs
<1>4. CASE EvaluateCached(window', now)
  <2>1. /\ AlreadyEvaluated(now) /\ state' = state /\ ep' = ep /\ onset' = onset /\ eval' = eval
        /\ last' = last
    BY <1>4 DEF EvaluateCached
  <2>2. /\ Said' = Said /\ EvalSeen' = EvalSeen /\ RunSeen' = RunSeen /\ OpenSeen' = OpenSeen
    BY <2>1 DEF Said, EvalSeen, RunSeen, OpenSeen, HasOpenEpisode
  <2> QED
    BY <1>1, <1>2, <1>3, <2>1, <2>2, EvaluationIs
<1>5. CASE EvaluateAfresh(window', now)
  <2>1. ~AlreadyEvaluated(now) /\ eval' = [has |-> TRUE, tick |-> now]
    BY <1>5 DEF EvaluateAfresh
  <2>2. EvalSeen' = now
    BY <2>1 DEF EvalSeen
  <2>3. Allowed(now)
    BY <1>1, <1>5, <2>1, <2>2, AdmissibleAllowed, InadmissibleAllowed DEF EvaluateAfresh
  <2> QED
    BY <1>1, <1>2, <1>3, <2>1, <2>3, EvaluationIs
<1> QED
  BY <1>4, <1>5 DEF Evaluate

(* A fence outside an evaluation is the protocol's.                        *)
LEMMA FenceIsProtocol ==
    ASSUME IInv, HasOpenEpisode, NEW reason, NEW now, CloseEpisode(ep, reason, now, TRUE),
           gen' \in Generations \cup {gen}, eval' = eval, last' = last
    PROVE  Protocol!Next
<1> DEFINE over == DetectorOf(gen, EvalSeen, Never, Never)
<1>1. /\ RunSeen' = Never /\ OpenSeen' = Never /\ EvalSeen' = EvalSeen /\ Said' = Said
      /\ OpenSeen # Never
  BY CloseSeen, SeenIs DEF EvalSeen, Said
<1>2. Protocol!Ended(View) = over
  BY EndedIs DEF View
<1>3. [over EXCEPT !.gen = gen'] = DetectorOf(gen', EvalSeen, Never, Never)
  BY DEF DetectorOf
<1>4. View' = DetectorOf(gen', EvalSeen, Never, Never) /\ View.open # Never /\ View.gen = gen
  BY <1>1 DEF View, DetectorOf
<1> HIDE DEF over
<1>5. View' = [Protocol!Ended(View) EXCEPT !.gen = gen']
  BY <1>2, <1>3, <1>4
<1>6. \E g \in Generations \cup {View.gen} : View' = [Protocol!Ended(View) EXCEPT !.gen = g]
  BY <1>4, <1>5
<1> QED
  BY <1>1, <1>4, <1>6 DEF Protocol!Next, Protocol!Fence, View, Said, DetectorOf, DecisionOf,
     EvalSeen, RunSeen, OpenSeen

(* A rearm is the protocol's.                                              *)
LEMMA RearmIsProtocol ==
    ASSUME IInv, NEW p \in Policies, Rearm(p)
    PROVE  Protocol!Next
<1> DEFINE over == DetectorOf(gen, EvalSeen, Never, Never)
<1>1. gen' = gen /\ eval' = NotEvaluated /\ last' = last
  BY DEF Rearm
<1>2. RunSeen' = Never /\ OpenSeen' = Never
  <2>1. CASE HasOpenEpisode
    BY <2>1, CloseSeen DEF Rearm
  <2>2. CASE ~HasOpenEpisode
    <3>1. onset' = NoOnset /\ state' = state
      BY <2>2 DEF Rearm
    <3> QED
      BY <2>2, <3>1, Resets DEF RunSeen, OpenSeen, HasOpenEpisode
  <2> QED
    BY <2>1, <2>2
<1>3. EvalSeen' = Never /\ Said' = Said
  BY <1>1, Resets DEF EvalSeen, Said
<1>4. Protocol!Ended(View) = over
  BY EndedIs DEF View
<1>5. [over EXCEPT !.eval = Never] = DetectorOf(gen, Never, Never, Never)
  BY DEF DetectorOf
<1>6. View' = DetectorOf(gen, Never, Never, Never)
  BY <1>1, <1>2, <1>3 DEF View
<1> HIDE DEF over
<1>7. View' = Protocol!Rearmed(View)
  BY <1>4, <1>5, <1>6 DEF Protocol!Rearmed
<1> QED
  BY <1>3, <1>7 DEF Protocol!Next, Protocol!Rearm, View, Said, DetectorOf, DecisionOf,
     EvalSeen, RunSeen, OpenSeen

(* Every step is a step of the protocol.                                   *)
LEMMA NextIsProtocolStep ==
    ASSUME IInv, Next
    PROVE  Protocol!Next
<1>1. ASSUME NEW tick \in Tick, NEW g \in Generations \cup {NoGeneration}, Ingest(tick, g)
      PROVE  Protocol!Next
  <2>1. tick \in Past /\ IInv'
    BY <1>1, PresentsIs, NextKeepsIInv DEF Ingest, Next
  <2>2. CASE IngestFences(tick, g)
    <3>1. /\ HasOpenEpisode /\ CloseEpisode(ep, "capacity", tick, TRUE) /\ gen' = g
          /\ eval' = eval /\ last' = last /\ g # NoGeneration
      BY <2>2 DEF IngestFences, Regenerates
    <3> QED
      BY <3>1, FenceIsProtocol
  <2>3. CASE IngestEvaluates(tick, g)
    <3>1. /\ ~(Regenerates(g) /\ HasOpenEpisode) /\ gen' = IF g = NoGeneration THEN gen ELSE g
          /\ Evaluate(window', tick)
      BY <2>3 DEF IngestEvaluates
    <3>2. window' \in Window
      BY <2>1 DEF IInv, TypeOK
    <3> QED
      BY <2>1, <3>1, <3>2, EvaluateIsProtocol
  <2> QED
    BY <1>1, <2>2, <2>3 DEF Ingest
<1>2. ASSUME NEW now \in Tick, Advance(now)
      PROVE  Protocol!Next
  <2>1. now \in Past /\ window' = window /\ window \in Window /\ gen' = gen
    BY <1>2, PresentsIs DEF Advance, IInv, TypeOK
  <2>2. Evaluate(window', now)
    BY <1>2, <2>1 DEF Advance
  <2>3. ~Regenerates(NoGeneration) /\ NoGeneration \in Generations \cup {NoGeneration}
    BY DEF Regenerates
  <2> QED
    BY <2>1, <2>2, <2>3, EvaluateIsProtocol
<1>3. CASE Fence
  <2>1. /\ HasOpenEpisode /\ CloseEpisode(ep, "authority", clock, TRUE)
        /\ gen' = gen /\ eval' = eval /\ last' = last
    BY <1>3 DEF Fence
  <2> QED
    BY <2>1, FenceIsProtocol
<1>4. ASSUME NEW p \in Policies, Rearm(p)
      PROVE  Protocol!Next
  BY <1>4, RearmIsProtocol
<1> QED
  BY <1>1, <1>2, <1>3, <1>4 DEF Next

(* The detector, with its runs, timers, grace and cooldown, implements the *)
(* protocol the governor is built on: at most one open episode, opened on a*)
(* run that began before, one decision per tick, closed exactly once.      *)
THEOREM DetectorKeepsProtocol ==
    Spec => KeepsProtocol
<1>1. Init => Protocol!Init
  <2> SUFFICES ASSUME Init PROVE Protocol!Init
    OBVIOUS
  <2>1. /\ gen = NoGeneration /\ state = "idle" /\ onset = NoOnset /\ eval = NotEvaluated
        /\ last = NoDecision
    BY Zenon DEF Init
  <2>2. EvalSeen = Never /\ RunSeen = Never /\ OpenSeen = Never
    BY <2>1, Resets DEF EvalSeen, RunSeen, OpenSeen, HasOpenEpisode
  <2>3. View = Protocol!NewDetector
    BY <2>1, <2>2 DEF View, DetectorOf, Protocol!NewDetector
  <2>4. Said = Protocol!Silent(0, Never)
    <3>1. /\ last.tick = 0 /\ last.event = Never /\ last.opened = FALSE /\ last.updated = FALSE
          /\ last.closed = FALSE /\ last.fenced = FALSE /\ last.class = "unknown"
      BY <2>1 DEF NoDecision
    <3>2. (last.class \in Positive) = FALSE
      BY <3>1 DEF Positive
    <3> QED
      BY <3>1, <3>2 DEF Said, DecisionOf, Protocol!Silent
  <2> QED
    BY <2>3, <2>4 DEF Protocol!Init, View, Said, DetectorOf, DecisionOf, EvalSeen, RunSeen, OpenSeen
<1>2. IInv /\ [Next]_vars => [Protocol!Next]_(Protocol!vars)
  <2> SUFFICES ASSUME IInv, [Next]_vars PROVE [Protocol!Next]_(Protocol!vars)
    OBVIOUS
  <2>1. CASE Next
    BY <2>1, NextIsProtocolStep
  <2>2. CASE UNCHANGED vars
    BY <2>2 DEF vars, Protocol!vars, HasOpenEpisode
  <2> QED
    BY <2>1, <2>2
<1> QED
  BY <1>1, <1>2, Invariant, PTL DEF Spec, KeepsProtocol, Protocol!Spec

-----------------------------------------------------------------------------
(* What a decision rests on.                                               *)

(* The step that evaluates afresh, and at which tick.                      *)
LEMMA EvaluatesAfresh ==
    ASSUME IInv, Next, EvaluatesNow
    PROVE  /\ eval'.tick \in Past /\ policy' = policy
           /\ EvaluateAfresh(window', eval'.tick)
<1>1. ASSUME NEW now \in Past, Evaluate(window', now)
      PROVE  eval'.tick = now /\ EvaluateAfresh(window', eval'.tick)
  <2>1. EvaluateAfresh(window', now)
    BY <1>1 DEF Evaluate, EvaluateCached, EvaluatesNow
  <2>2. eval' = [has |-> TRUE, tick |-> now]
    BY <2>1 DEF EvaluateAfresh
  <2>3. eval'.tick = now
    BY <2>2
  <2> QED
    BY <2>1, <2>3
<1>2. ASSUME NEW tick \in Tick, NEW g \in Generations \cup {NoGeneration}, Ingest(tick, g)
      PROVE  \E now \in Past : policy' = policy /\ Evaluate(window', now)
  <2>1. tick \in Past
    BY <1>2, PresentsIs DEF Ingest
  <2>2. IngestEvaluates(tick, g)
    BY <1>2 DEF Ingest, IngestFences, EvaluatesNow
  <2> QED
    BY <2>1, <2>2 DEF IngestEvaluates
<1>3. ASSUME NEW now \in Tick, Advance(now)
      PROVE  \E n \in Past : policy' = policy /\ Evaluate(window', n)
  <2>1. now \in Past /\ window' = window /\ policy' = policy /\ Evaluate(window, now)
    BY <1>3, PresentsIs DEF Advance
  <2>2. Evaluate(window', now)
    BY <2>1
  <2> QED
    BY <2>1, <2>2
<1>4. ~Fence
  BY DEF Fence, EvaluatesNow
<1>5. ASSUME NEW p \in Policies PROVE ~Rearm(p)
  BY Resets DEF Rearm, EvaluatesNow
<1>6. \E now \in Past : policy' = policy /\ Evaluate(window', now)
  BY <1>2, <1>3, <1>4, <1>5 DEF Next
<1> QED
  BY <1>1, <1>6

(* A settled episode that is decided upon positively is left in the state  *)
(* asked for.                                                              *)
LEMMA SettlePositive ==
    ASSUME NEW e, NEW st, NEW run, NEW rel, NEW now, NEW dec \in Decision,
           Settle(e, st, run, rel, dec, now), last'.class \in Positive
    PROVE  state' = st /\ last' = dec
<1>1. CASE Ceiling(e, now)
  <2>1. last' = [dec EXCEPT !.class = "quiescent", !.closed = TRUE]
    BY <1>1 DEF Settle, Conclude
  <2>2. last'.class = "quiescent"
    BY <2>1, EndingEdits
  <2> QED
    BY <2>2 DEF Positive
<1>2. CASE ~Ceiling(e, now)
  BY <1>2 DEF Settle, Conclude
<1> QED
  BY <1>1, <1>2

(* A positive decision leaves the episode active, and only admissible      *)
(* evidence makes one.                                                     *)
LEMMA PositiveIs ==
    ASSUME IInv, NEW now \in Past, ~AlreadyEvaluated(now), NEW w \in Window,
           EvaluateAdmissible(w, now) \/ EvaluateInadmissible(w, now), last'.class \in Positive
    PROVE  state' = "active" /\ Fresh(w, now)
<1>1. now \in Tick /\ ep \in Episode /\ policy \in Policies
  BY Numbers DEF IInv, TypeOK
<1>2. CASE EvaluateInadmissible(w, now)
  <2>1. last'.class \in {"unknown", "recovering", "fenced"}
    <3>1. \/ last' = UnknownAt(now, "unknown") \/ last' = UnknownAt(now, "recovering")
          \/ last' = [UnknownAt(now, "fenced") EXCEPT !.closed = TRUE, !.fenced = TRUE]
      BY <1>2 DEF EvaluateInadmissible, StayUnknown, Suspend, FenceStale, Conclude
    <3>2. \A class \in {"unknown", "recovering", "fenced"} :
              UnknownAt(now, class) \in Decision /\ UnknownAt(now, class).class = class
      BY <1>1, ClassesAre, DecisionsAre
    <3> DEFINE d == UnknownAt(now, "fenced")
    <3>3. d \in Decision /\ d.class = "fenced"
      BY <3>2
    <3> HIDE DEF d
    <3>4. last' = [d EXCEPT !.closed = TRUE, !.fenced = TRUE] => last'.class = "fenced"
      BY <3>3, EndingEdits
    <3> QED
      BY <3>1, <3>2, <3>4 DEF d
  <2> QED
    BY <2>1 DEF Positive
<1>3. CASE EvaluateAdmissible(w, now)
  <2>1. Fresh(w, now)
    BY <1>3 DEF EvaluateAdmissible, Authority
  <2>2. ASSUME NEW st, NEW run, NEW rel, NEW class \in Classes,
               Settle(ep, st, run, rel, UpdateAt(ep, now, class), now)
        PROVE  state' = st /\ class \in Positive
    <3>1. UpdateAt(ep, now, class) \in Decision /\ UpdateAt(ep, now, class).class = class
      BY <1>1, DecisionsAre
    <3> QED
      BY <2>2, <3>1, SettlePositive
  <2>3. CASE StayIdle(w, now)
    <3>1. \E class \in {"candidate", "quiescent"} : last' = DecisionAt(now, class)
      BY <2>3 DEF StayIdle, Conclude
    <3>2. last'.class \in {"candidate", "quiescent"}
      BY <1>1, <3>1, ClassesAre, DecisionsAre
    <3> QED
      BY <3>2 DEF Positive
  <2>4. CASE OpenEpisode(w, now)
    <3> DEFINE run == OnsetAfter(w, now)
               e   == [onset |-> run.start, lifecycle |-> "open", reason |-> "none",
                       closedTick |-> 0, policy |-> policy]
               upd == UpdateAt(e, now, PositiveClass(w, now))
               dec == [upd EXCEPT !.opened = TRUE]
    <3>1. Settle(e, "active", run, NoRelease, dec, now)
      BY <2>4 DEF OpenEpisode
    <3>2. run.start \in Tick
      BY OnsetIs DEF OnsetRun
    <3>3. e \in Episode
      BY <1>1, <3>2, Numbers DEF Episode, Reasons
    <3> HIDE DEF e, run
    <3>4. dec \in Decision
      BY <1>1, <3>3, ClassesAre, DecisionsAre, EndingEdits
    <3> HIDE DEF dec
    <3> QED
      BY <2>1, <3>1, <3>4, SettlePositive
  <2>5. CASE UpdateActive(w, now)
    BY <2>1, <2>2, <2>5, ClassesAre DEF UpdateActive
  <2>6. CASE BeginRecovery(w, now)
    BY <2>2, <2>6, ClassesAre DEF BeginRecovery, Positive
  <2>7. CASE MergeOnset(w, now)
    BY <2>1, <2>2, <2>7, ClassesAre DEF MergeOnset
  <2>8. CASE LingerInRecovery(w, now)
    BY <2>2, <2>8, ClassesAre DEF LingerInRecovery, Positive
  <2>9. CASE FinishRecovery(w, now)
    <3> DEFINE upd == UpdateAt(ep, now, "quiescent")
    <3>1. last' = [upd EXCEPT !.closed = TRUE]
      BY <2>9 DEF FinishRecovery, Conclude
    <3>2. upd \in Decision /\ upd.class = "quiescent"
      BY <1>1, ClassesAre, DecisionsAre
    <3> HIDE DEF upd
    <3>3. last'.class = "quiescent"
      BY <3>1, <3>2, EndingEdits
    <3> QED
      BY <3>3 DEF Positive
  <2> QED
    BY <1>3, <2>3, <2>4, <2>5, <2>6, <2>7, <2>8, <2>9 DEF EvaluateAdmissible
<1> QED
  BY <1>2, <1>3

(* UNKNOWN cannot become a detection: whatever the policy, the detector    *)
(* classifies positively only at a tick at which its evidence is fresh,    *)
(* and then holds an episode open.                                         *)
THEOREM PositiveRestsOnEvidence ==
    Spec => PositiveIsJustified
<1>1. IInv /\ [Next]_vars =>
          [(EvaluatesNow /\ last'.class \in Positive)
              => /\ state' = "active"
                 /\ window'.has /\ Staleness(window', eval'.tick) <= policy'.staleLimit]_vars
  <2> SUFFICES ASSUME IInv, Next, EvaluatesNow, last'.class \in Positive
               PROVE  /\ state' = "active"
                      /\ window'.has /\ Staleness(window', eval'.tick) <= policy'.staleLimit
    BY DEF EvaluatesNow
  <2>1. /\ eval'.tick \in Past /\ policy' = policy
        /\ EvaluateAfresh(window', eval'.tick)
    BY EvaluatesAfresh
  <2>2. window' \in Window
    BY NextKeepsIInv DEF IInv, TypeOK
  <2>3. state' = "active" /\ Fresh(window', eval'.tick)
    BY <2>1, <2>2, PositiveIs DEF EvaluateAfresh
  <2> QED
    BY <2>1, <2>3 DEF Fresh
<1> QED
  BY <1>1, Invariant, PTL DEF Spec, PositiveIsJustified

(* Only an idle detector out of its cooldown opens.                        *)
LEMMA OpeningIsOutOfCooldown ==
    ASSUME IInv, NEW now \in Past, ~AlreadyEvaluated(now), NEW w \in Window, state = "idle",
           EvaluateAdmissible(w, now) \/ EvaluateInadmissible(w, now), last'.opened
    PROVE  ~InCooldown(now)
<1>1. now \in Tick /\ ep \in Episode
  BY Numbers DEF IInv, TypeOK
<1>2. CASE StayIdle(w, now)
  <2>1. \E class \in {"candidate", "quiescent"} : last' = DecisionAt(now, class)
    BY <1>2 DEF StayIdle, Conclude
  <2> QED
    BY <1>1, <2>1, ClassesAre, DecisionsAre
<1>3. CASE OpenEpisode(w, now)
  BY <1>3 DEF OpenEpisode
<1>4. CASE EvaluateInadmissible(w, now)
  <2>1. StayUnknown(now)
    BY <1>4 DEF EvaluateInadmissible, Suspend, FenceStale, HasOpenEpisode
  <2>2. last' = UnknownAt(now, "unknown")
    BY <2>1 DEF StayUnknown, Conclude
  <2> QED
    BY <1>1, <2>2, ClassesAre, DecisionsAre
<1> QED
  BY <1>2, <1>3, <1>4 DEF EvaluateAdmissible, UpdateActive, BeginRecovery, MergeOnset,
     FinishRecovery, LingerInRecovery

(* A tick that is not before the end of a cooldown is that far from the    *)
(* close.                                                                  *)
LEMMA CooldownIsElapsed ==
    ASSUME NEW closed \in Past, NEW now \in Past, NEW c \in Nat, 2 * c < TickModulus,
           StartTick + Horizon + c <= LastTick,
           ~TickAfter(now, AddTicksSaturating(closed, c))
    PROVE  (now - closed) % TickModulus >= c
<1> DEFINE h == TickModulus \div 2
<1>1. /\ closed \in Tick /\ now \in Tick /\ Age(closed) <= Horizon /\ Age(now) <= Horizon
  BY DEF Past
<1>2. /\ closed \in Nat /\ now \in Nat /\ closed < TickModulus /\ now < TickModulus
      /\ StartTick \in Nat /\ Horizon \in Nat /\ 2 * Horizon < TickModulus
      /\ TickModulus \in Nat /\ LastTick = TickModulus - 1
  BY <1>1, TickModulusAssumption, DetectorAssumption DEF Tick, LastTick
<1>3. h \in Nat /\ 2 * h = TickModulus
  BY HalfIs
<1>4. /\ closed >= StartTick /\ closed <= StartTick + Horizon
      /\ now >= StartTick /\ now <= StartTick + Horizon
  BY <1>1, <1>2, AgeIs
<1>5. AddTicksSaturating(closed, c) = closed + c
  BY <1>2, <1>4, SaturatingIs
<1>6. (closed + c - now) % TickModulus =
          IF closed + c - now >= 0 THEN closed + c - now ELSE closed + c - now + TickModulus
  BY <1>2, <1>4, RemainderIs
<1>7. (now - closed) % TickModulus =
          IF now - closed >= 0 THEN now - closed ELSE now - closed + TickModulus
  BY <1>2, <1>4, RemainderIs
<1> DEFINE until == closed + c
<1>8. until \in Int /\ AddTicksSaturating(closed, c) = until /\ until - now = closed + c - now
  BY <1>2, <1>5
<1> HIDE DEF until
<1>9. TickDelta(now, until) = LET d == (until - now) % TickModulus
                              IN  IF d < h THEN d ELSE d - TickModulus
  BY DEF TickDelta
<1>10. ~(TickDelta(now, until) > 0)
  BY <1>8 DEF TickAfter
<1> HIDE DEF h
<1> QED
  BY <1>2, <1>3, <1>4, <1>6, <1>7, <1>8, <1>9, <1>10

(* A closed episode enters a cooldown during which a new one cannot open,  *)
(* whatever closed it and whatever policy is in force when the next one    *)
(* would.                                                                  *)
THEOREM CooldownsAreHonoured ==
    ASSUME CooldownsFit
    PROVE  Spec => CooldownHonoured
<1>1. IInv /\ [Next]_vars =>
          [(state = "idle" /\ EvaluatesNow /\ last'.opened /\ ep.lifecycle # "none")
              => (eval'.tick - ep.closedTick) % TickModulus >= ep.policy.cooldown]_vars
  <2> SUFFICES ASSUME IInv, Next, EvaluatesNow, state = "idle", last'.opened,
                      ep.lifecycle # "none"
               PROVE  (eval'.tick - ep.closedTick) % TickModulus >= ep.policy.cooldown
    BY DEF EvaluatesNow
  <2>1. eval'.tick \in Past /\ EvaluateAfresh(window', eval'.tick)
    BY EvaluatesAfresh
  <2>2. window' \in Window
    BY NextKeepsIInv DEF IInv, TypeOK
  <2>3. ~TickAfter(eval'.tick, cooldown)
    BY <2>1, <2>2, OpeningIsOutOfCooldown DEF EvaluateAfresh, InCooldown
  <2>4. ep.lifecycle \in {"closed", "fenced"} /\ ep.policy \in Policies
    BY DEF IInv, TypeOK, HasOpenEpisode, Episode
  <2>5. ep.closedTick \in Past /\ cooldown = AddTicksSaturating(ep.closedTick, ep.policy.cooldown)
    BY <2>4 DEF IInv, CooldownOfClose
  <2>6. /\ ep.policy.cooldown \in Nat /\ 2 * ep.policy.cooldown < TickModulus
        /\ StartTick + Horizon + ep.policy.cooldown <= LastTick
    BY <2>4, Numbers DEF CooldownsFit
  <2> QED
    BY <2>1, <2>3, <2>5, <2>6, CooldownIsElapsed
<1> QED
  BY <1>1, Invariant, PTL DEF Spec, CooldownHonoured

=============================================================================
