--------------------------- MODULE GovernorProofs ---------------------------
(***************************************************************************)
(* What Governor guarantees for every set of streams, kinds, policies and  *)
(* identities.  The inductive invariant is TypeOK with                     *)
(* DecisionProcessedOnce: only together do they rule out that a decision a *)
(* detector repeats, whose content is stale, is processed again.           *)
(***************************************************************************)
EXTENDS Governor, FiniteSetTheorems, TLAPS

(* Every tick the governor and its detectors remember is one the           *)
(* environment presented.                                                  *)
Past == {t \in Tick : t <= Horizon} \cup {Never}

WithinHorizon ==
    /\ sweep.now \in Past /\ lastTick \in Past
    /\ \A s \in Streams : {streams[s].det.eval, streams[s].processed} \subseteq Past

IInv == TypeOK /\ WithinHorizon /\ DecisionProcessedOnce

(* A decision that changes the books names the episode it is about.        *)
NamesEpisode(dec) ==
    dec.opened \/ dec.updated \/ dec.closed \/ dec.positive => dec.event \in Tick

(* No tick is after itself, whatever the modulus.                          *)
LEMMA NotAfterItself == ASSUME NEW t \in Tick PROVE ~TickAfter(t, t)
BY TickModulusAssumption DEF TickAfter, TickDelta, Tick

(* Before any wrap, the order of ticks is the order of numbers.            *)
LEMMA OrderBeforeWrap ==
    ASSUME NEW a \in Past \ {Never}, NEW b \in Past \ {Never}
    PROVE  TickAfter(a, b) <=> a < b
BY TickModulusAssumption, GovernorAssumption DEF TickAfter, TickDelta, Tick, Past

(* add_ticks_checked() stays in range.                                     *)
LEMMA SaturatedIsTick ==
    ASSUME NEW base \in Tick, NEW span \in Nat
    PROVE  AddTicksSaturating(base, span) \in Tick
BY TickModulusAssumption DEF AddTicksSaturating, Tick, LastTick

(* A first evaluation of a tick yields a detector that has evaluated it    *)
(* and a decision about it.                                                *)
LEMMA AfreshOutcome ==
    ASSUME NEW d \in DetectorState, NEW now \in Tick, NEW out \in Afresh(d, now)
    PROVE  /\ out.det \in DetectorState
           /\ out.det.eval = now
           /\ out.decision \in Decision
           /\ out.decision.tick = now
           /\ NamesEpisode(out.decision)
<1> DEFINE e == [d EXCEPT !.eval = now]
<1>0. out \in IF d.open = Never THEN Quiet(e, now) \cup Openings(e, now)
                                ELSE Continuations(e, now)
  BY DEF Afresh
<1>1. e \in DetectorState /\ e.eval = now /\ e.open = d.open /\ e.run = d.run
  BY DEF DetectorState, When
<1> HIDE DEF e
<1>2. CASE d.open = Never /\ out \in Quiet(e, now)
  <2>1. PICK r \in {Never, IF e.run = Never THEN now ELSE e.run} :
            out = Outcome([e EXCEPT !.run = r], Silent(now, Never))
    BY <1>2 DEF Quiet
  <2>2. r \in When
    BY <2>1, <1>1 DEF DetectorState, When
  <2> QED
    BY <2>1, <2>2, <1>1 DEF Outcome, Silent, Decision, DetectorState, When, NamesEpisode
<1>3. CASE d.open = Never /\ out \in Openings(e, now)
  <2>1. e.run \in Tick
    BY <1>3, <1>1 DEF Openings, DetectorState, When
  <2> DEFINE dec == [Silent(now, e.run) EXCEPT !.opened = TRUE, !.updated = TRUE]
  <2>2. \/ out = Outcome([e EXCEPT !.run = Never, !.open = e.run],
                        [dec EXCEPT !.positive = TRUE])
        \/ out = Outcome(Ended(e), [dec EXCEPT !.closed = TRUE])
    BY <1>3, Zenon DEF Openings
  <2>3. dec \in Decision /\ dec.tick = now /\ dec.event = e.run
    BY <2>1 DEF Silent, Decision, When
  <2> HIDE DEF dec
  <2>4. /\ out.det \in {[e EXCEPT !.run = Never, !.open = e.run], Ended(e)}
        /\ out.decision \in Decision /\ out.decision.tick = now
        /\ out.decision.event \in Tick
    <3> DEFINE decs == {[dec EXCEPT !.positive = TRUE], [dec EXCEPT !.closed = TRUE]}
    <3>1. \A y \in decs : y \in Decision /\ y.tick = now /\ y.event \in Tick
      BY <2>1, <2>3 DEF Decision
    <3>2. out.decision \in decs
      BY <2>2 DEF Outcome
    <3>3. out.det \in {[e EXCEPT !.run = Never, !.open = e.run], Ended(e)}
      BY <2>2 DEF Outcome
    <3> QED
      BY <3>1, <3>2, <3>3
  <2> QED
    BY <2>1, <2>4, <1>1 DEF DetectorState, When, NamesEpisode, Ended
<1>4. CASE d.open # Never
  <2>1. d.open \in Tick
    BY <1>4 DEF DetectorState, When
  <2>2. out \in Continuations(e, now)
    BY <1>0, <1>4
  <2> DEFINE none == Silent(now, e.open)
  <2>3. none \in Decision /\ none.tick = now /\ none.event \in Tick
    BY <2>1, <1>1 DEF Silent, Decision, When
  <2>4. /\ out.det \in {e, Ended(e)}
        /\ out.decision \in Decision /\ out.decision.tick = now
        /\ out.decision.event \in Tick
    <3> HIDE DEF none
    <3>1. \/ out = Outcome(e, none)
          \/ out = Outcome(e, [none EXCEPT !.updated = TRUE])
          \/ out = Outcome(e, [none EXCEPT !.updated = TRUE, !.positive = TRUE])
          \/ out = Outcome(Ended(e), [none EXCEPT !.updated = TRUE, !.closed = TRUE])
          \/ out = Outcome(Ended(e), [none EXCEPT !.closed = TRUE, !.fenced = TRUE])
      BY <2>2, Zenon DEF Continuations, none
    <3> DEFINE decs == {none, [none EXCEPT !.updated = TRUE],
                        [none EXCEPT !.updated = TRUE, !.positive = TRUE],
                        [none EXCEPT !.updated = TRUE, !.closed = TRUE],
                        [none EXCEPT !.closed = TRUE, !.fenced = TRUE]}
    <3>2. \A y \in decs : y \in Decision /\ y.tick = now /\ y.event \in Tick
      BY <2>3 DEF Decision
    <3>3. out.decision \in decs
      BY <3>1 DEF Outcome
    <3>4. out.det \in {e, Ended(e)}
      BY <3>1 DEF Outcome
    <3> QED
      BY <3>2, <3>3, <3>4
  <2> QED
    BY <2>4, <1>1 DEF DetectorState, When, NamesEpisode, Ended
<1> QED
  BY <1>0, <1>2, <1>3, <1>4

(* What a sample does to a detector: either the decision is about a tick   *)
(* of now and names its episode, or it repeats that of the last evaluation.*)
LEMMA SampleOutcome ==
    ASSUME NEW s \in Streams, streams[s].det \in DetectorState,
           NEW tick \in Tick, NEW g \in Generation, NEW out \in SampleOutcomes(s, tick, g)
    PROVE  /\ out.det \in DetectorState
           /\ out.decision \in Decision
           /\ \/ /\ out.decision.tick = tick
                 /\ out.det.eval \in {streams[s].det.eval, tick}
                 /\ NamesEpisode(out.decision)
              \/ /\ streams[s].det.eval # Never
                 /\ out.det.eval = streams[s].det.eval
                 /\ out.decision.tick = streams[s].det.eval
<1> DEFINE d == streams[s].det
           e == [d EXCEPT !.gen = IF g = Unset THEN @ ELSE g]
<1>1. PICK last \in LastDecisions(d) : out \in Samples(d, last, tick, g)
  BY DEF SampleOutcomes
<1>2. /\ e \in DetectorState
      /\ e.eval = d.eval /\ e.open = d.open /\ e.run = d.run
  BY DEF DetectorState, Generation
<1>3. d.open \in When /\ d.eval \in When
  BY DEF DetectorState
<1>4. last \in Decision /\ (d.eval # Never => last.tick = d.eval)
  <2>1. CASE d.eval = Never
    <3>1. 0 \in Tick
      BY TickModulusAssumption DEF Tick
    <3>2. last = Silent(0, Never)
      BY <2>1, <1>1 DEF LastDecisions
    <3>3. Silent(0, Never) \in Decision
      BY <3>1 DEF Silent, Decision, When
    <3> QED
      BY <2>1, <3>2, <3>3
  <2>2. CASE d.eval # Never
    <3>1. d.eval \in Tick
      BY <2>2, <1>3 DEF When
    <3> QED
      BY <2>2, <3>1, <1>1, <1>3 DEF LastDecisions, Decision
  <2> QED
    BY <2>1, <2>2
<1>5. out \in IF Regenerated(d, g) /\ d.open # Never
              THEN {Outcome(Ended(e), [Silent(tick, d.open) EXCEPT !.closed = TRUE,
                                                                   !.fenced = TRUE])}
              ELSE Evaluations(e, last, tick)
  BY <1>1 DEF Samples
<1> HIDE DEF e, d
<1>6. CASE Regenerated(d, g) /\ d.open # Never
  <2> DEFINE dec == [Silent(tick, d.open) EXCEPT !.closed = TRUE, !.fenced = TRUE]
  <2>1. dec \in Decision /\ dec.tick = tick /\ dec.event \in Tick
    BY <1>3, <1>6 DEF Silent, Decision, When
  <2>2. out.det = Ended(e) /\ out.decision = dec
    BY <1>5, <1>6 DEF Outcome
  <2>3. Ended(e) \in DetectorState /\ Ended(e).eval = d.eval
    BY <1>2 DEF Ended, DetectorState, When
  <2> QED
    BY <2>1, <2>2, <2>3 DEF NamesEpisode, d
<1>7. CASE ~(Regenerated(d, g) /\ d.open # Never) /\ Repeats(e, tick)
  <2>1. out.det = e /\ out.decision = last
    BY <1>5, <1>7 DEF Evaluations, Outcome
  <2>2. d.eval # Never
    BY <1>7, <1>2 DEF Repeats
  <2> QED
    BY <2>1, <2>2, <1>2, <1>4 DEF d
<1>8. CASE ~(Regenerated(d, g) /\ d.open # Never) /\ ~Repeats(e, tick)
  <2>1. out \in Afresh(e, tick)
    BY <1>5, <1>8 DEF Evaluations
  <2> QED
    BY <2>1, <1>2, AfreshOutcome
<1> QED
  BY <1>6, <1>7, <1>8

-----------------------------------------------------------------------------
(* The parts of a call.                                                    *)

(* The policy in force for a resource is a policy.                         *)
LEMMA ResolvedPolicy ==
    ASSUME TypeOK, NEW r \in Resources
    PROVE  Resolve(policies, r) \in Policies
BY DEF TypeOK, Resolve

(* Requesting interventions keeps intents well formed.                     *)
LEMMA RequestedIntents ==
    ASSUME TypeOK, (resGen \in [Resources -> Generation])',
           NEW s \in Streams, NEW e \in Event, NEW grade \in Grade, NEW now \in Tick,
           NEW intents \in SUBSET Intent
    PROVE  Requested(s, e, grade, intents, now) \subseteq Intent
<1> DEFINE p == Resolve(policies, ResourceOf[s])
           until(k) == AddTicksSaturating(now, p.kinds[k].ttl)
           wanted == Wanted(p, grade)
<1>1. ResourceOf[s] \in Resources
  BY GovernorAssumption
<1>2. p \in Policy
  BY <1>1, ResolvedPolicy, GovernorAssumption
<1>3. \A k \in Kinds : until(k) \in Tick
  <2> TAKE k \in Kinds
  <2>1. p.kinds[k].ttl \in Nat
    BY <1>2 DEF Policy, KindLimit
  <2> QED
    BY <2>1, SaturatedIsTick
<1>4. wanted \subseteq Kinds
  BY DEF Wanted
<1>5. context \in Context /\ resGen'[ResourceOf[s]] \in Generation
  BY <1>1 DEF TypeOK
<1> DEFINE refreshed == {IF i.event = e /\ i.kind \in wanted
                         THEN [i EXCEPT !.expiry = until(i.kind)] ELSE i : i \in intents}
           issued == {[event |-> e, kind |-> k, authority |-> context,
                       resGen |-> resGen'[ResourceOf[s]], issued |-> now,
                       expiry |-> until(k)] : k \in Granted(p, wanted, intents, s, e)}
<1>6. Requested(s, e, grade, intents, now) = refreshed \cup issued
  BY DEF Requested
<1> HIDE DEF until, wanted, p
<1>7. refreshed \subseteq Intent
  <2> SUFFICES ASSUME NEW i \in intents
               PROVE  (IF i.event = e /\ i.kind \in wanted
                       THEN [i EXCEPT !.expiry = until(i.kind)] ELSE i) \in Intent
    OBVIOUS
  <2>1. i \in Intent /\ until(i.kind) \in Tick
    BY <1>3 DEF Intent
  <2> QED
    BY <2>1 DEF Intent
<1>8. issued \subseteq Intent
  <2>1. Granted(p, wanted, intents, s, e) \subseteq Kinds
    BY <1>4 DEF Granted
  <2>2. \A k \in Granted(p, wanted, intents, s, e) :
           [event |-> e, kind |-> k, authority |-> context,
            resGen |-> resGen'[ResourceOf[s]], issued |-> now,
            expiry |-> until(k)] \in Intent
    BY <1>3, <1>5, <2>1 DEF Intent
  <2> QED
    BY <2>2
<1> QED
  BY <1>6, <1>7, <1>8

(* The books after a decision that names its episode.                      *)
LEMMA ProcessedBooks ==
    ASSUME TypeOK, NEW s \in Streams, NEW out,
           out.det \in DetectorState, out.decision \in Decision,
           NamesEpisode(out.decision), ProcessDecision(s, out)
    PROVE  /\ streams' \in [Streams -> Stream]
           /\ streams' = [streams EXCEPT ![s] = [det |-> out.det,
                                                processed |-> out.decision.tick]]
           /\ openEvents' \subseteq Event
           /\ outstanding' \in Int
<1>1. streams' \in [Streams -> Stream]
  <2>1. [det |-> out.det, processed |-> out.decision.tick] \in Stream
    BY DEF Stream, When, Decision
  <2> QED
    BY <2>1 DEF ProcessDecision, TypeOK
<1>2. openEvents' \subseteq Event
  <2>1. openEvents' = OpenAfter(s, out.decision)
    BY DEF ProcessDecision
  <2>2. openEvents \subseteq Event
    BY DEF TypeOK
  <2>3. CASE out.decision.closed
    BY <2>1, <2>2, <2>3 DEF OpenAfter
  <2>4. CASE ~out.decision.closed /\ (out.decision.opened \/ out.decision.updated)
    <3>1. EventOf(s, out.decision) \in Event
      BY <2>4 DEF NamesEpisode, EventOf, Event
    <3>2. openEvents' = openEvents \cup {EventOf(s, out.decision)}
      BY <2>1, <2>4 DEF OpenAfter
    <3> QED
      BY <2>2, <3>1, <3>2
  <2>5. CASE ~out.decision.closed /\ ~(out.decision.opened \/ out.decision.updated)
    BY <2>1, <2>2, <2>5 DEF OpenAfter
  <2> QED
    BY <2>3, <2>4, <2>5
<1>3. outstanding' \in Int
  BY DEF ProcessDecision, Count, TypeOK
<1> QED
  BY <1>1, <1>2, <1>3 DEF ProcessDecision

(* The intents after a decision that names its episode: those there were,  *)
(* perhaps refreshed, and those requested at that tick.                    *)
LEMMA LiveIntents ==
    ASSUME TypeOK, (resGen \in [Resources -> Generation])',
           NEW s \in Streams, NEW dec \in Decision, NamesEpisode(dec),
           NEW grade \in Grade, NEW now \in Tick
    PROVE  LiveAfterDecision(s, dec, grade, now) \subseteq Intent
<1>1. LiveAfterClose(s, dec, now) \in SUBSET Intent
  BY DEF LiveAfterClose, TypeOK
<1>2. CASE dec.positive /\ enabled
  <2>1. EventOf(s, dec) \in Event
    BY <1>2 DEF NamesEpisode, EventOf, Event
  <2> QED
    BY <1>1, <1>2, <2>1, RequestedIntents DEF LiveAfterDecision
<1>3. CASE ~(dec.positive /\ enabled)
  BY <1>1, <1>3 DEF LiveAfterDecision
<1> QED
  BY <1>2, <1>3

(* A refresh only ever takes intents away.                                 *)
LEMMA RefreshedIntents ==
    ASSUME NEW intents \in SUBSET Intent, NEW now \in Tick, RefreshAuthority(intents, now)
    PROVE  (live \subseteq Intent /\ asOf \in Tick)' /\ live' \subseteq intents
BY DEF RefreshAuthority

(* Remembering a decision keeps what is remembered within the horizon and  *)
(* processed once: a new decision is after all the others, a skipped one   *)
(* is not after the last one processed.                                    *)
Remembered(str) ==
    \A s \in Streams :
        /\ {str[s].det.eval, str[s].processed} \subseteq Past
        /\ str[s].det.eval # Never =>
              str[s].processed # Never /\ ~TickAfter(str[s].processed, str[s].det.eval)

LEMMA NewDecisionRemembered ==
    ASSUME IInv, NEW s \in Streams, NEW tick \in Past \ {Never}, NEW d,
           d.eval \in {streams[s].det.eval, tick},
           streams[s].processed # Never => TickAfter(streams[s].processed, tick)
    PROVE  Remembered([streams EXCEPT ![s] = [det |-> d, processed |-> tick]])
<1> DEFINE old == streams[s]
           str == [streams EXCEPT ![s] = [det |-> d, processed |-> tick]]
<1>1. /\ str[s].det.eval = d.eval /\ str[s].processed = tick
      /\ \A t \in Streams \ {s} : str[t] = streams[t]
  BY DEF IInv, TypeOK
<1>2. d.eval \in Past /\ old.det.eval \in Past /\ old.processed \in Past
  BY DEF IInv, WithinHorizon
<1>3. ASSUME d.eval # Never PROVE ~TickAfter(tick, d.eval)
  <2>1. CASE d.eval = tick
    BY <2>1, NotAfterItself DEF Past
  <2>2. CASE d.eval = old.det.eval
    <3>1. old.processed # Never /\ ~TickAfter(old.processed, d.eval)
      BY <1>3, <2>2 DEF IInv, DecisionProcessedOnce
    <3>2. old.processed < tick /\ d.eval <= old.processed
      BY <1>2, <1>3, <3>1, OrderBeforeWrap DEF Past, Tick
    <3> QED
      BY <1>2, <1>3, <3>1, <3>2, OrderBeforeWrap DEF Past, Tick
  <2> QED
    BY <2>1, <2>2
<1>4. \A t \in Streams \ {s} :
         /\ {streams[t].det.eval, streams[t].processed} \subseteq Past
         /\ streams[t].det.eval # Never =>
               streams[t].processed # Never
               /\ ~TickAfter(streams[t].processed, streams[t].det.eval)
  BY DEF IInv, WithinHorizon, DecisionProcessedOnce
<1> HIDE DEF str
<1>5. Remembered(str)
  BY <1>1, <1>2, <1>3, <1>4 DEF Remembered, Past
<1> QED
  BY <1>5 DEF str

(* A skipped decision is remembered by the detector only.                  *)
LEMMA SkippedDecisionRemembered ==
    ASSUME IInv, NEW s \in Streams, NEW d,
           d.eval = streams[s].det.eval
           \/ /\ d.eval \in Past /\ streams[s].processed # Never
              /\ ~TickAfter(streams[s].processed, d.eval)
    PROVE  Remembered([streams EXCEPT ![s].det = d])
<1> DEFINE str == [streams EXCEPT ![s].det = d]
<1>1. /\ str[s].det = d /\ str[s].processed = streams[s].processed
      /\ \A t \in Streams \ {s} : str[t] = streams[t]
  BY DEF IInv, TypeOK, Stream
<1>2. \A t \in Streams :
         /\ {streams[t].det.eval, streams[t].processed} \subseteq Past
         /\ streams[t].det.eval # Never =>
               streams[t].processed # Never
               /\ ~TickAfter(streams[t].processed, streams[t].det.eval)
  BY DEF IInv, WithinHorizon, DecisionProcessedOnce
<1> HIDE DEF str
<1>3. Remembered(str)
  BY <1>1, <1>2 DEF Remembered
<1> QED
  BY <1>3 DEF str

-----------------------------------------------------------------------------
(* The steps.                                                              *)

LEMMA InitInvariant == Init => IInv
<1> SUFFICES ASSUME Init PROVE IInv
  OBVIOUS
<1>1. 0 \in Tick /\ 0 \in Past
  BY TickModulusAssumption, GovernorAssumption DEF Tick, Past
<1>2. NewStream \in Stream /\ NewStream.det.eval = Never /\ NewStream.processed = Never
  BY DEF NewStream, Stream, NewDetector, DetectorState, When, Generation
<1>3. \A s \in Streams : streams[s] = NewStream
  BY DEF Init
<1>4. policies \in [fallback : Policies, overrides : [Resources -> Policies \cup {NoPolicy}],
                    generation : Nat]
  BY DEF Init
<1>5. context \in Context
  BY DEF Init, Context
<1>6. TypeOK
  BY <1>1, <1>2, <1>3, <1>4, <1>5 DEF Init, TypeOK, NoSweep, Generation
<1>7. WithinHorizon
  BY <1>1, <1>2, <1>3 DEF Init, WithinHorizon, NoSweep, Past
<1>8. DecisionProcessedOnce
  BY <1>2, <1>3 DEF DecisionProcessedOnce
<1> QED
  BY <1>6, <1>7, <1>8 DEF IInv

(* Rearming detectors keeps the books in range and forgets evaluations,    *)
(* never a processed decision.                                             *)
LEMMA RearmedBooks ==
    ASSUME IInv, NEW which \in SUBSET known, RearmStreams(which)
    PROVE  /\ streams' \in [Streams -> Stream]
           /\ \A s \in Streams \ which : streams'[s] = streams[s]
           /\ openEvents' \subseteq Event
           /\ outstanding' \in Int
           /\ Remembered(streams')
<1> DEFINE fenced == {s \in which : streams[s].det.open # Never}
<1>1. which \subseteq Streams
  BY DEF IInv, TypeOK
<1>2. \A s \in Streams : streams[s] \in Stream
  BY DEF IInv, TypeOK
<1>3. streams' = [s \in Streams |->
          IF s \in which THEN [streams[s] EXCEPT !.det = Rearmed(@)] ELSE streams[s]]
  BY DEF RearmStreams
<1>4. \A s \in which : /\ streams'[s] \in Stream
                       /\ streams'[s].det.eval = Never
                       /\ streams'[s].processed = streams[s].processed
  BY <1>1, <1>2, <1>3 DEF Stream, Rearmed, Ended, DetectorState, When
<1>5. \A s \in Streams \ which : streams'[s] = streams[s]
  BY <1>3
<1>6. streams' \in [Streams -> Stream]
  <2>1. \A s \in Streams : streams'[s] \in Stream
    BY <1>2, <1>4, <1>5
  <2> QED
    BY <1>3, <2>1
<1>7. openEvents' \subseteq Event
  BY DEF RearmStreams, IInv, TypeOK
<1>8. outstanding' \in Int
  <2>1. IsFiniteSet(fenced)
    BY <1>1, FS_Subset, GovernorAssumption
  <2>2. Cardinality(fenced) \in Nat
    BY <2>1, FS_CardinalityType
  <2> QED
    BY <2>2 DEF RearmStreams, IInv, TypeOK
<1>9. Remembered(streams')
  <2>1. \A s \in Streams \ which :
           /\ {streams[s].det.eval, streams[s].processed} \subseteq Past
           /\ streams[s].det.eval # Never =>
                 streams[s].processed # Never
                 /\ ~TickAfter(streams[s].processed, streams[s].det.eval)
    BY DEF IInv, WithinHorizon, DecisionProcessedOnce
  <2>2. \A s \in which : streams[s].processed \in Past
    BY <1>1 DEF IInv, WithinHorizon
  <2>3. Never \in Past
    BY DEF Past
  <2> QED
    BY <1>1, <1>4, <1>5, <2>1, <2>2, <2>3 DEF Remembered
<1> QED
  BY <1>5, <1>6, <1>7, <1>8, <1>9

(* A policy change keeps the invariant.                                    *)
LEMMA PolicyStep ==
    ASSUME IInv, NEW set, NEW which \in SUBSET known, ChangePolicies(set, which),
           set \in [fallback : Policies, overrides : [Resources -> Policies \cup {NoPolicy}],
                    generation : Nat]
    PROVE  IInv'
<1>0. TypeOK /\ WithinHorizon
  BY DEF IInv
<1>1. RearmStreams(which) /\ UNCHANGED << resGen, enabled, known, lastTick, sweep >>
  BY DEF ChangePolicies
<1>2. policies' \in [fallback : Policies, overrides : [Resources -> Policies \cup {NoPolicy}],
                     generation : Nat]
  BY <1>0 DEF ChangePolicies, TypeOK
<1>3. context' \in Context
  BY <1>0 DEF ChangePolicies, TypeOK, Context
<1>4. live' \subseteq Intent /\ asOf' \in Tick
  BY <1>0, RefreshedIntents DEF ChangePolicies, TypeOK
<1>5. TypeOK'
  BY <1>0, <1>1, <1>2, <1>3, <1>4, RearmedBooks DEF TypeOK
<1>6. Remembered(streams')
  BY <1>1, RearmedBooks
<1> QED
  BY <1>0, <1>1, <1>5, <1>6 DEF IInv, WithinHorizon, DecisionProcessedOnce, Remembered

(* So does a sample, whether its decision is processed or skipped.         *)
LEMMA IngestStep ==
    ASSUME IInv, NEW s \in Streams, NEW tick \in Tick, NEW g \in Generation,
           Ingest(s, tick, g)
    PROVE  IInv'
<1>0. TypeOK /\ WithinHorizon
  BY DEF IInv
<1>1. PICK out \in SampleOutcomes(s, tick, g) : IngestProcesses(s, out) \/ IngestSkips(s, out)
  BY DEF Ingest
<1>2. streams[s] \in Stream /\ streams[s].det \in DetectorState
  BY <1>0 DEF TypeOK, Stream
<1>3. tick \in Past \ {Never}
  BY ProtocolAssumption DEF Ingest, Presents, Past
<1>4. /\ known' = known \cup {s} /\ known' \subseteq Streams
      /\ resGen' \in [Resources -> Generation]
      /\ UNCHANGED << policies, context, enabled, sweep >>
  <2>1. known' = known \cup {s} /\ UNCHANGED << policies, context, enabled, sweep >>
    BY DEF Ingest
  <2>2. resGen' = IF g = Unset THEN resGen ELSE [resGen EXCEPT ![ResourceOf[s]] = g]
    BY DEF Ingest
  <2> QED
    BY <1>0, <2>1, <2>2 DEF TypeOK
<1>5. /\ out.det \in DetectorState /\ out.decision \in Decision
      /\ \/ /\ out.decision.tick = tick
            /\ out.det.eval \in {streams[s].det.eval, tick}
            /\ NamesEpisode(out.decision)
         \/ /\ streams[s].det.eval # Never
            /\ out.det.eval = streams[s].det.eval
            /\ out.decision.tick = streams[s].det.eval
  BY <1>2, SampleOutcome
<1>6. CASE IngestProcesses(s, out)
  <2>1. IsNew(s, out.decision) /\ ProcessDecision(s, out)
    BY <1>6 DEF IngestProcesses
  <2>2. /\ out.decision.tick = tick
        /\ out.det.eval \in {streams[s].det.eval, tick}
        /\ NamesEpisode(out.decision)
    BY <1>5, <2>1 DEF IInv, DecisionProcessedOnce, IsNew
  <2>3. /\ streams' \in [Streams -> Stream]
        /\ streams' = [streams EXCEPT ![s] = [det |-> out.det, processed |-> tick]]
        /\ openEvents' \subseteq Event /\ outstanding' \in Int
    BY <1>0, <1>5, <2>1, <2>2, ProcessedBooks
  <2>4. lastTick' \in Tick /\ lastTick' \in Past
    BY <1>0, <1>3, <1>6, <2>2 DEF IngestProcesses, Later, TypeOK, WithinHorizon
  <2>5. PICK grade \in Grade :
            RefreshAuthority(LiveAfterDecision(s, out.decision, grade, tick), tick)
    BY <1>6, <2>2 DEF IngestProcesses
  <2>6. live' \subseteq Intent /\ asOf' \in Tick
    <3>1. LiveAfterDecision(s, out.decision, grade, tick) \in SUBSET Intent
      BY <1>0, <1>4, <1>5, <2>2, LiveIntents
    <3> QED
      BY <2>5, <3>1, RefreshedIntents
  <2>7. \A t \in Streams \ known' : streams'[t] = NewStream
    BY <1>0, <1>4, <2>3 DEF TypeOK
  <2>8. TypeOK'
    BY <1>0, <1>4, <2>3, <2>4, <2>6, <2>7 DEF TypeOK
  <2>9. Remembered(streams')
    <3>1. streams[s].processed # Never => TickAfter(streams[s].processed, tick)
      BY <2>1, <2>2 DEF IsNew
    <3>2. Remembered([streams EXCEPT ![s] = [det |-> out.det, processed |-> tick]])
      BY <1>3, <2>2, <3>1, NewDecisionRemembered
    <3> QED
      BY <2>3, <3>2
  <2> QED
    BY <1>0, <1>4, <2>4, <2>8, <2>9 DEF IInv, WithinHorizon, DecisionProcessedOnce, Remembered
<1>7. CASE IngestSkips(s, out)
  <2>1. /\ ~IsNew(s, out.decision)
        /\ streams' = [streams EXCEPT ![s].det = out.det]
        /\ UNCHANGED << openEvents, outstanding, lastTick >>
        /\ RefreshAuthority(live, out.decision.tick)
    BY <1>7 DEF IngestSkips, SkipDecision
  <2>2. out.decision.tick \in Tick
    BY <1>5 DEF Decision
  <2>3. live' \subseteq Intent /\ asOf' \in Tick
    BY <1>0, <2>1, <2>2, RefreshedIntents DEF TypeOK
  <2>4. streams' \in [Streams -> Stream] /\ \A t \in Streams \ {s} : streams'[t] = streams[t]
    BY <1>0, <1>2, <1>5, <2>1 DEF TypeOK, Stream
  <2>5. TypeOK'
    BY <1>0, <1>4, <2>1, <2>3, <2>4 DEF TypeOK
  <2>6. \/ out.det.eval = streams[s].det.eval
        \/ /\ out.det.eval \in Past /\ streams[s].processed # Never
           /\ ~TickAfter(streams[s].processed, out.det.eval)
    BY <1>3, <1>5, <2>1 DEF IsNew
  <2>7. Remembered(streams')
    BY <2>1, <2>6, SkippedDecisionRemembered
  <2> QED
    BY <1>0, <1>4, <2>1, <2>5, <2>7 DEF IInv, WithinHorizon, DecisionProcessedOnce, Remembered
<1> QED
  BY <1>1, <1>6, <1>7

(* So does each stream that an advance visits.                             *)
LEMMA VisitStep ==
    ASSUME IInv, NEW s \in Streams, VisitStream(s)
    PROVE  IInv'
<1>0. TypeOK /\ WithinHorizon
  BY DEF IInv
<1> DEFINE now == sweep.now
<1>1. /\ s \in sweep.pending /\ s \in known
      /\ sweep' = [sweep EXCEPT !.pending = @ \ {s}]
      /\ UNCHANGED << policies, context, resGen, enabled, known, lastTick, asOf >>
  BY <1>0 DEF VisitStream, TypeOK
<1>2. PICK out \in Afresh(streams[s].det, now) :
        \/ /\ IsNew(s, out.decision)
           /\ ProcessDecision(s, out)
           /\ \E grade \in Grade : live' = LiveAfterDecision(s, out.decision, grade, now)
        \/ ~IsNew(s, out.decision) /\ SkipDecision(s, out) /\ UNCHANGED live
  BY DEF VisitStream
<1>3. now \in Tick /\ now \in Past \ {Never}
  BY <1>0, ProtocolAssumption DEF TypeOK, WithinHorizon
<1>4. streams[s] \in Stream /\ streams[s].det \in DetectorState
  BY <1>0 DEF TypeOK, Stream
<1>5. /\ out.det \in DetectorState /\ out.det.eval = now
      /\ out.decision \in Decision /\ out.decision.tick = now /\ NamesEpisode(out.decision)
  BY <1>2, <1>3, <1>4, AfreshOutcome
<1>6. /\ sweep' \in [on : BOOLEAN, now : Tick, pending : SUBSET known']
      /\ sweep'.now = sweep.now
  BY <1>0, <1>1 DEF TypeOK
<1>7. (resGen \in [Resources -> Generation])'
  BY <1>0, <1>1 DEF TypeOK
<1> HIDE DEF now
<1>8. CASE IsNew(s, out.decision) /\ ProcessDecision(s, out)
           /\ \E grade \in Grade : live' = LiveAfterDecision(s, out.decision, grade, now)
  <2>1. /\ streams' \in [Streams -> Stream]
        /\ streams' = [streams EXCEPT ![s] = [det |-> out.det, processed |-> now]]
        /\ openEvents' \subseteq Event /\ outstanding' \in Int
    BY <1>0, <1>5, <1>8, ProcessedBooks
  <2>2. live' \subseteq Intent
    BY <1>0, <1>3, <1>5, <1>7, <1>8, LiveIntents
  <2>3. \A t \in Streams \ known' : streams'[t] = NewStream
    BY <1>0, <1>1, <2>1 DEF TypeOK
  <2>4. TypeOK'
    BY <1>0, <1>1, <1>6, <2>1, <2>2, <2>3 DEF TypeOK
  <2>5. Remembered(streams')
    <3>1. streams[s].processed # Never => TickAfter(streams[s].processed, now)
      BY <1>5, <1>8 DEF IsNew
    <3>2. Remembered([streams EXCEPT ![s] = [det |-> out.det, processed |-> now]])
      BY <1>3, <1>5, <3>1, NewDecisionRemembered
    <3> QED
      BY <2>1, <3>2
  <2> QED
    BY <1>0, <1>1, <1>6, <2>4, <2>5 DEF IInv, WithinHorizon, DecisionProcessedOnce, Remembered
<1>9. CASE ~IsNew(s, out.decision) /\ SkipDecision(s, out) /\ UNCHANGED live
  <2>1. /\ streams' = [streams EXCEPT ![s].det = out.det]
        /\ UNCHANGED << openEvents, outstanding, live >>
    BY <1>9 DEF SkipDecision
  <2>2. streams' \in [Streams -> Stream] /\ \A t \in Streams \ {s} : streams'[t] = streams[t]
    BY <1>0, <1>4, <1>5, <2>1 DEF TypeOK, Stream
  <2>3. TypeOK'
    BY <1>0, <1>1, <1>6, <2>1, <2>2 DEF TypeOK
  <2>4. Remembered(streams')
    BY <1>3, <1>5, <1>9, <2>1, SkippedDecisionRemembered DEF IsNew
  <2> QED
    BY <1>0, <1>1, <1>6, <2>1, <2>3, <2>4
    DEF IInv, WithinHorizon, DecisionProcessedOnce, Remembered
<1> QED
  BY <1>2, <1>8, <1>9

(* Every step of the governor preserves the invariant.                     *)
LEMMA StepInvariant == IInv /\ [Next]_vars => IInv'
<1> SUFFICES ASSUME IInv, [Next]_vars PROVE IInv'
  OBVIOUS
<1>0. TypeOK /\ WithinHorizon
  BY DEF IInv
<1>1. ASSUME NEW p \in Policies, InstallPolicy(p) PROVE IInv'
  <2>1. ChangePolicies([policies EXCEPT !.fallback = p], known)
    BY <1>1 DEF InstallPolicy
  <2>2. [policies EXCEPT !.fallback = p] \in
            [fallback : Policies, overrides : [Resources -> Policies \cup {NoPolicy}],
             generation : Nat]
    BY <1>0 DEF TypeOK
  <2> QED
    BY <2>1, <2>2, PolicyStep
<1>2. ASSUME NEW r \in Resources, NEW p \in Policies, SetResourcePolicy(r, p) PROVE IInv'
  <2>1. ChangePolicies([policies EXCEPT !.overrides[r] = p],
                       {s \in known : ResourceOf[s] = r})
    BY <1>2 DEF SetResourcePolicy
  <2>2. [policies EXCEPT !.overrides[r] = p] \in
            [fallback : Policies, overrides : [Resources -> Policies \cup {NoPolicy}],
             generation : Nat]
    BY <1>0 DEF TypeOK
  <2> QED
    BY <2>1, <2>2, PolicyStep
<1>3. ASSUME NEW r \in Resources, RemoveResourcePolicy(r) PROVE IInv'
  <2>1. ChangePolicies([policies EXCEPT !.overrides[r] = NoPolicy], {})
    BY <1>3 DEF RemoveResourcePolicy
  <2>2. [policies EXCEPT !.overrides[r] = NoPolicy] \in
            [fallback : Policies, overrides : [Resources -> Policies \cup {NoPolicy}],
             generation : Nat]
    BY <1>0 DEF TypeOK
  <2> QED
    BY <2>1, <2>2, PolicyStep
<1>4. ASSUME NEW e \in Epochs, NEW i \in Incarnations \cup {Unset},
             NEW b \in Boots \cup {Unset}, BindAuthority(e, i, b)
      PROVE  IInv'
  <2>1. context' \in Context
    BY <1>0, <1>4 DEF BindAuthority, TypeOK, Context
  <2>2. live' \subseteq Intent /\ asOf' \in Tick
    BY <1>0, <1>4, RefreshedIntents DEF BindAuthority, TypeOK
  <2>3. UNCHANGED << policies, resGen, enabled, openEvents, evidence >>
    BY <1>4 DEF BindAuthority
  <2> QED
    BY <2>1, <2>2, <2>3
    DEF IInv, TypeOK, WithinHorizon, DecisionProcessedOnce, evidence
<1>5. ASSUME NEW r \in Resources, NEW g \in Generation, SetResourceGeneration(r, g)
      PROVE  IInv'
  <2>1. resGen' \in [Resources -> Generation]
    BY <1>0, <1>5 DEF SetResourceGeneration, TypeOK
  <2>2. live' \subseteq Intent /\ asOf' \in Tick
    BY <1>0, <1>5, RefreshedIntents DEF SetResourceGeneration, TypeOK
  <2>3. UNCHANGED << policies, context, enabled, openEvents, evidence >>
    BY <1>5 DEF SetResourceGeneration
  <2> QED
    BY <2>1, <2>2, <2>3
    DEF IInv, TypeOK, WithinHorizon, DecisionProcessedOnce, evidence
<1>6. ASSUME NEW on \in BOOLEAN, SetInterventionsEnabled(on) PROVE IInv'
  BY <1>6
  DEF SetInterventionsEnabled, IInv, TypeOK, WithinHorizon, DecisionProcessedOnce, evidence
<1>7. ASSUME NEW s \in Streams, NEW tick \in Tick, NEW g \in Generation, Ingest(s, tick, g)
      PROVE  IInv'
  BY <1>7, IngestStep
<1>8. ASSUME NEW now \in Tick, BeginAdvance(now) PROVE IInv'
  <2>1. now \in Past
    BY <1>8 DEF BeginAdvance, Past
  <2>2. /\ sweep'.now = now
        /\ sweep' \in [on : BOOLEAN, now : Tick, pending : SUBSET known]
    BY <1>8 DEF BeginAdvance
  <2> QED
    BY <1>8, <2>1, <2>2
    DEF BeginAdvance, IInv, TypeOK, WithinHorizon, DecisionProcessedOnce
<1>9. ASSUME NEW s \in Streams, VisitStream(s) PROVE IInv'
  BY <1>9, VisitStep
<1>10. ASSUME FinishAdvance PROVE IInv'
  <2>1. /\ sweep' = NoSweep /\ lastTick' = Later(sweep.now)
        /\ UNCHANGED << policies, context, resGen, enabled, known, streams, openEvents,
                        outstanding >>
    BY <1>10 DEF FinishAdvance
  <2>2. live' \subseteq Intent /\ asOf' \in Tick
    BY <1>0, <1>10, RefreshedIntents DEF FinishAdvance, TypeOK
  <2>3. lastTick' \in Tick /\ lastTick' \in Past
    BY <1>0, <2>1 DEF Later, TypeOK, WithinHorizon
  <2>4. 0 \in Tick /\ 0 \in Past
    BY TickModulusAssumption, GovernorAssumption DEF Tick, Past
  <2> QED
    BY <2>1, <2>2, <2>3, <2>4
    DEF NoSweep, IInv, TypeOK, WithinHorizon, DecisionProcessedOnce
<1>11. ASSUME UNCHANGED vars PROVE IInv'
  BY <1>11 DEF vars, IInv, TypeOK, WithinHorizon, DecisionProcessedOnce
<1> QED
  BY <1>1, <1>2, <1>3, <1>4, <1>5, <1>6, <1>7, <1>8, <1>9, <1>10, <1>11 DEF Next

(* The invariant holds in every state.                                     *)
LEMMA Invariance == Spec => []IInv
BY InitInvariant, StepInvariant, PTL DEF Spec

-----------------------------------------------------------------------------
(* The governor's variables keep their ranges, for every set of streams,   *)
(* policies and identities and every horizon.                              *)
THEOREM TypeCorrect == Spec => []TypeOK
<1>1. IInv => TypeOK
  BY DEF IInv
<1> QED
  BY <1>1, Invariance, PTL

(* ingest() may be handed the last decision of a detector again, any number*)
(* of times: it has always been processed already.                         *)
THEOREM NoDecisionTwice == Spec => []DecisionProcessedOnce
<1>1. IInv => DecisionProcessedOnce
  BY DEF IInv
<1> QED
  BY <1>1, Invariance, PTL

-----------------------------------------------------------------------------
(* What a step does to the intents: it takes some away, or it deals with   *)
(* the decision of one stream, at a tick after all its stream's decisions, *)
(* and takes some away from the result.                                    *)
Decides(s, dec, grade, now) ==
    /\ dec \in Decision /\ NamesEpisode(dec)
    /\ streams[s].processed # Never => TickAfter(streams[s].processed, now)
    /\ live' \subseteq LiveAfterDecision(s, dec, grade, now)
    /\ UNCHANGED << enabled, context, policies >>

LEMMA IntentsOfAStep ==
    ASSUME IInv, [Next]_vars
    PROVE  \/ live' \subseteq live
           \/ \E s \in Streams, dec \in Decision, grade \in Grade, now \in Past \ {Never} :
                 Decides(s, dec, grade, now) /\ streams'[s].processed = now
<1> DEFINE Goal ==
        \/ live' \subseteq live
        \/ \E s \in Streams, dec \in Decision, grade \in Grade, now \in Past \ {Never} :
              Decides(s, dec, grade, now) /\ streams'[s].processed = now
<1> SUFFICES Goal
  OBVIOUS
<1>0. TypeOK /\ WithinHorizon
  BY DEF IInv
<1>1. ASSUME NEW set, NEW which, ChangePolicies(set, which) PROVE Goal
  BY <1>1 DEF ChangePolicies, RefreshAuthority
<1>2. ASSUME NEW e, NEW i, NEW b, BindAuthority(e, i, b) PROVE Goal
  BY <1>2 DEF BindAuthority, RefreshAuthority
<1>3. ASSUME NEW r, NEW g, SetResourceGeneration(r, g) PROVE Goal
  BY <1>3 DEF SetResourceGeneration, RefreshAuthority
<1>4. ASSUME NEW on, SetInterventionsEnabled(on) PROVE Goal
  BY <1>4 DEF SetInterventionsEnabled
<1>5. ASSUME NEW s \in Streams, NEW tick \in Tick, NEW g \in Generation, Ingest(s, tick, g)
      PROVE  Goal
  <2>1. PICK out \in SampleOutcomes(s, tick, g) :
            IngestProcesses(s, out) \/ IngestSkips(s, out)
    BY <1>5 DEF Ingest
  <2>2. streams[s] \in Stream /\ streams[s].det \in DetectorState
    BY <1>0 DEF TypeOK, Stream
  <2>3. /\ out.decision \in Decision
        /\ \/ out.decision.tick = tick /\ NamesEpisode(out.decision)
           \/ streams[s].det.eval # Never /\ out.decision.tick = streams[s].det.eval
    BY <2>2, SampleOutcome
  <2>4. CASE IngestSkips(s, out)
    BY <2>4 DEF IngestSkips, RefreshAuthority
  <2>5. CASE IngestProcesses(s, out)
    <3>1. IsNew(s, out.decision)
      BY <2>5 DEF IngestProcesses
    <3>2. out.decision.tick = tick /\ NamesEpisode(out.decision)
      BY <2>3, <3>1 DEF IInv, DecisionProcessedOnce, IsNew
    <3>3. PICK grade \in Grade :
              RefreshAuthority(LiveAfterDecision(s, out.decision, grade, tick), tick)
      BY <2>5, <3>2 DEF IngestProcesses
    <3>4. live' \subseteq LiveAfterDecision(s, out.decision, grade, tick)
      BY <3>3 DEF RefreshAuthority
    <3>5. UNCHANGED << enabled, context, policies >> /\ tick \in Past \ {Never}
      BY <1>5, ProtocolAssumption DEF Ingest, Presents, Past
    <3>6. streams[s].processed # Never => TickAfter(streams[s].processed, tick)
      BY <3>1, <3>2 DEF IsNew
    <3>7. streams'[s].processed = tick
      BY <1>0, <2>5, <3>2 DEF IngestProcesses, ProcessDecision, TypeOK
    <3> QED
      BY <2>3, <3>2, <3>4, <3>5, <3>6, <3>7 DEF Decides
  <2> QED
    BY <2>1, <2>4, <2>5
<1>6. ASSUME NEW now, BeginAdvance(now) PROVE Goal
  BY <1>6 DEF BeginAdvance
<1>7. ASSUME NEW s \in Streams, VisitStream(s) PROVE Goal
  <2> DEFINE now == sweep.now
  <2>1. PICK out \in Afresh(streams[s].det, now) :
        \/ /\ IsNew(s, out.decision)
           /\ ProcessDecision(s, out)
           /\ \E grade \in Grade : live' = LiveAfterDecision(s, out.decision, grade, now)
        \/ UNCHANGED live
    BY <1>7 DEF VisitStream
  <2>2. now \in Tick /\ now \in Past \ {Never}
    BY <1>0, ProtocolAssumption DEF TypeOK, WithinHorizon
  <2>3. streams[s] \in Stream /\ streams[s].det \in DetectorState
    BY <1>0 DEF TypeOK, Stream
  <2>4. out.decision \in Decision /\ out.decision.tick = now /\ NamesEpisode(out.decision)
    BY <2>2, <2>3, AfreshOutcome
  <2>5. UNCHANGED << enabled, context, policies >>
    BY <1>7 DEF VisitStream
  <2> HIDE DEF now
  <2>6. CASE UNCHANGED live
    BY <2>6
  <2>7. ASSUME IsNew(s, out.decision), ProcessDecision(s, out), NEW grade \in Grade,
               live' = LiveAfterDecision(s, out.decision, grade, now)
        PROVE  Goal
    <3>1. streams[s].processed # Never => TickAfter(streams[s].processed, now)
      BY <2>4, <2>7 DEF IsNew
    <3>2. streams'[s].processed = now
      BY <1>0, <2>4, <2>7 DEF ProcessDecision, TypeOK
    <3> QED
      BY <2>2, <2>4, <2>5, <2>7, <3>1, <3>2 DEF Decides
  <2> QED
    BY <2>1, <2>6, <2>7
<1>8. ASSUME FinishAdvance PROVE Goal
  BY <1>8 DEF FinishAdvance, RefreshAuthority
<1>9. ASSUME UNCHANGED vars PROVE Goal
  BY <1>9 DEF vars
<1> HIDE DEF Goal
<1> QED
  BY <1>1, <1>2, <1>3, <1>4, <1>5, <1>6, <1>7, <1>8, <1>9
  DEF Next, InstallPolicy, SetResourcePolicy, RemoveResourcePolicy

-----------------------------------------------------------------------------
(* Every intent left by a call was just judged: revoking on each change of *)
(* authority leaves none that the change made stale, however the changes,  *)
(* samples and advances interleave.                                        *)
THEOREM AuthorityNeverStale == Spec => []AuthoritySound
<1>1. Init => AuthoritySound
  BY DEF Init, AuthoritySound
<1>2. ASSUME IInv, AuthoritySound, [Next]_vars PROVE AuthoritySound'
  <2> DEFINE Refreshed == \E intents, now : RefreshAuthority(intents, now)
  <2>1. ASSUME Refreshed PROVE AuthoritySound'
    BY <2>1 DEF AuthoritySound, RefreshAuthority
  <2>2. ASSUME NEW set, NEW which, ChangePolicies(set, which) PROVE Refreshed
    BY <2>2 DEF ChangePolicies
  <2>3. ASSUME NEW e, NEW i, NEW b, BindAuthority(e, i, b) PROVE Refreshed
    BY <2>3 DEF BindAuthority
  <2>4. ASSUME NEW r, NEW g, SetResourceGeneration(r, g) PROVE Refreshed
    BY <2>4 DEF SetResourceGeneration
  <2>5. ASSUME NEW on, SetInterventionsEnabled(on) PROVE AuthoritySound'
    <3>1. /\ UNCHANGED << context, resGen, openEvents, sweep, asOf >>
          /\ live' \subseteq live /\ Unlocked
      BY <2>5 DEF SetInterventionsEnabled, evidence
    <3> QED
      BY <1>2, <3>1 DEF AuthoritySound, Unlocked
  <2>6. ASSUME NEW s, NEW tick, NEW g, Ingest(s, tick, g) PROVE Refreshed
    BY <2>6 DEF Ingest, IngestProcesses, IngestSkips
  <2>7. ASSUME NEW now, BeginAdvance(now) PROVE AuthoritySound'
    BY <2>7 DEF BeginAdvance, AuthoritySound, Unlocked
  <2>8. ASSUME NEW s, VisitStream(s) PROVE AuthoritySound'
    <3>1. sweep.on /\ sweep'.on = sweep.on
      BY <1>2, <2>8 DEF VisitStream, IInv, TypeOK
    <3> QED
      BY <3>1 DEF AuthoritySound, Unlocked
  <2>9. ASSUME FinishAdvance PROVE Refreshed
    BY <2>9 DEF FinishAdvance
  <2>10. ASSUME UNCHANGED vars PROVE AuthoritySound'
    BY <1>2, <2>10 DEF vars, AuthoritySound, Unlocked
  <2> HIDE DEF Refreshed
  <2> QED
    BY <1>2, <2>1, <2>2, <2>3, <2>4, <2>5, <2>6, <2>7, <2>8, <2>9, <2>10
    DEF Next, InstallPolicy, SetResourcePolicy, RemoveResourcePolicy
<1> QED
  BY <1>1, <1>2, Invariance, PTL DEF Spec

(* Without the mandate there is no intent: disabling interventions revokes *)
(* them all and no decision requests one while they are disabled.          *)
THEOREM NothingWithoutMandate == Spec => []MandateRequired
<1>1. Init => MandateRequired
  BY DEF Init, MandateRequired
<1>2. ASSUME IInv, MandateRequired, [Next]_vars PROVE MandateRequired'
  <2>1. CASE enabled' = enabled
    <3>1. CASE live' \subseteq live
      BY <1>2, <2>1, <3>1 DEF MandateRequired
    <3>2. ASSUME NEW s \in Streams, NEW dec \in Decision, NEW grade \in Grade,
                 NEW now \in Past \ {Never}, Decides(s, dec, grade, now), ~enabled
          PROVE  live' \subseteq live
      BY <3>2 DEF Decides, LiveAfterDecision, LiveAfterClose
    <3> QED
      BY <1>2, <2>1, <3>1, <3>2, IntentsOfAStep DEF MandateRequired
  <2>2. CASE enabled' # enabled
    <3>1. PICK on \in BOOLEAN : SetInterventionsEnabled(on)
      BY <1>2, <2>2
      DEF Next, vars, InstallPolicy, SetResourcePolicy, RemoveResourcePolicy,
          ChangePolicies, BindAuthority, SetResourceGeneration, Ingest, BeginAdvance,
          VisitStream, FinishAdvance
    <3> QED
      BY <1>2, <2>2, <3>1 DEF SetInterventionsEnabled, MandateRequired, IInv, TypeOK
  <2> QED
    BY <2>1, <2>2
<1> QED
  BY <1>1, <1>2, Invariance, PTL DEF Spec

(* Requesting interventions for an episode never adds a second intent of   *)
(* the same kind.                                                          *)
LEMMA RequestKeepsKindsApart ==
    ASSUME NEW s, NEW e, NEW grade, NEW now, NEW intents \in SUBSET Intent,
           \A i, j \in intents : (i.event = j.event /\ i.kind = j.kind) => i = j
    PROVE  \A i, j \in Requested(s, e, grade, intents, now) :
              (i.event = j.event /\ i.kind = j.kind) => i = j
<1> DEFINE p == Resolve(policies, ResourceOf[s])
           until(k) == AddTicksSaturating(now, p.kinds[k].ttl)
           wanted == Wanted(p, grade)
           Again(i) == IF i.event = e /\ i.kind \in wanted
                       THEN [i EXCEPT !.expiry = until(i.kind)] ELSE i
           Fresh(k) == [event |-> e, kind |-> k, authority |-> context,
                        resGen |-> resGen'[ResourceOf[s]], issued |-> now,
                        expiry |-> until(k)]
           granted == Granted(p, wanted, intents, s, e)
<1>1. Requested(s, e, grade, intents, now) =
          {Again(i) : i \in intents} \cup {Fresh(k) : k \in granted}
  BY DEF Requested
<1>2. \A i \in intents : Again(i).event = i.event /\ Again(i).kind = i.kind
  BY DEF Intent
<1>3. \A k \in granted : \A i \in intents : i.event = e => i.kind # k
  BY DEF Granted
<1>4. \A k \in granted : Fresh(k).event = e /\ Fresh(k).kind = k
  OBVIOUS
<1> SUFFICES ASSUME NEW i \in Requested(s, e, grade, intents, now),
                    NEW j \in Requested(s, e, grade, intents, now),
                    i.event = j.event, i.kind = j.kind
             PROVE  i = j
  OBVIOUS
<1> HIDE DEF Again, Fresh, granted
<1>5. CASE i \in {Again(x) : x \in intents} /\ j \in {Again(x) : x \in intents}
  <2>1. PICK x \in intents : i = Again(x)
    BY <1>5
  <2>2. PICK y \in intents : j = Again(y)
    BY <1>5
  <2>3. x = y
    BY <1>2, <2>1, <2>2
  <2> QED
    BY <2>1, <2>2, <2>3
<1>6. CASE i \in {Fresh(k) : k \in granted} /\ j \in {Fresh(k) : k \in granted}
  BY <1>4, <1>6
<1>7. ~(i \in {Again(x) : x \in intents} /\ j \in {Fresh(k) : k \in granted})
  BY <1>2, <1>3, <1>4
<1>8. ~(i \in {Fresh(k) : k \in granted} /\ j \in {Again(x) : x \in intents})
  BY <1>2, <1>3, <1>4
<1> QED
  BY <1>1, <1>5, <1>6, <1>7, <1>8

(* An episode has at most one live intent of each kind, since a repeated   *)
(* request refreshes the one there is.                                     *)
THEOREM KindsApart == Spec => []OneIntentPerKind
<1>1. Init => OneIntentPerKind
  BY DEF Init, OneIntentPerKind
<1>2. ASSUME IInv, OneIntentPerKind, [Next]_vars PROVE OneIntentPerKind'
  <2>1. CASE live' \subseteq live
    BY <1>2, <2>1 DEF OneIntentPerKind
  <2>2. ASSUME NEW s \in Streams, NEW dec \in Decision, NEW grade \in Grade,
               NEW now \in Past \ {Never}, Decides(s, dec, grade, now)
        PROVE  OneIntentPerKind'
    <3> DEFINE kept == LiveAfterClose(s, dec, now)
               after == LiveAfterDecision(s, dec, grade, now)
    <3>1. kept \subseteq live /\ kept \in SUBSET Intent
      BY <1>2 DEF LiveAfterClose, IInv, TypeOK
    <3>2. \A i, j \in kept : (i.event = j.event /\ i.kind = j.kind) => i = j
      BY <1>2, <3>1 DEF OneIntentPerKind
    <3>3. after = kept \/ after = Requested(s, EventOf(s, dec), grade, kept, now)
      BY DEF LiveAfterDecision
    <3>4. live' \subseteq after
      BY <2>2 DEF Decides
    <3> HIDE DEF kept, after
    <3>5. \A i, j \in after : (i.event = j.event /\ i.kind = j.kind) => i = j
      <4>1. CASE after = kept
        BY <3>2, <4>1
      <4>2. CASE after = Requested(s, EventOf(s, dec), grade, kept, now)
        BY <3>1, <3>2, <4>2, RequestKeepsKindsApart
      <4> QED
        BY <3>3, <4>1, <4>2
    <3> QED
      BY <3>4, <3>5 DEF OneIntentPerKind
  <2> QED
    BY <1>2, <2>1, <2>2, IntentsOfAStep
<1> QED
  BY <1>1, <1>2, Invariance, PTL DEF Spec

(* The identity of an intent, a hash of episode, kind and issue tick, never*)
(* comes back after the intent is retired.                                 *)
THEOREM IdentitiesFresh == Spec => IdentityIssuedOnce
<1> DEFINE Fresh ==
        \A j \in live' : Id(j) \notin {Id(i) : i \in live} =>
            LET p == streams[j.event.stream].processed
            IN  p # Never => TickAfter(p, j.issued)
<1>1. ASSUME IInv, [Next]_vars PROVE Fresh
  <2>1. CASE live' \subseteq live
    BY <2>1
  <2>2. ASSUME NEW s \in Streams, NEW dec \in Decision, NEW grade \in Grade,
               NEW now \in Past \ {Never}, Decides(s, dec, grade, now)
        PROVE  Fresh
    <3> DEFINE kept == LiveAfterClose(s, dec, now)
               after == LiveAfterDecision(s, dec, grade, now)
               e == EventOf(s, dec)
    <3>1. kept \subseteq live /\ kept \subseteq Intent
      BY <1>1 DEF LiveAfterClose, IInv, TypeOK
    <3>2. live' \subseteq after
      BY <2>2 DEF Decides
    <3>3. streams[s].processed # Never => TickAfter(streams[s].processed, now)
      BY <2>2 DEF Decides
    <3>4. after = kept \/ after = Requested(s, e, grade, kept, now)
      BY DEF LiveAfterDecision
    <3>5. e.stream = s
      BY DEF EventOf
    <3> HIDE DEF kept, after, e
    <3>6. \A j \in Requested(s, e, grade, kept, now) :
             \/ \E i \in kept : Id(j) = Id(i)
             \/ j.event = e /\ j.issued = now
      <4> SUFFICES ASSUME NEW j \in Requested(s, e, grade, kept, now)
                   PROVE  \/ \E i \in kept : Id(j) = Id(i)
                          \/ j.event = e /\ j.issued = now
        OBVIOUS
      <4>1. \A i \in kept : \A x : Id([i EXCEPT !.expiry = x]) = Id(i)
        BY <3>1 DEF Id, Intent
      <4> QED
        BY <4>1 DEF Requested
    <3>7. \A j \in after : \/ \E i \in live : Id(j) = Id(i)
                           \/ j.event = e /\ j.issued = now
      BY <3>1, <3>4, <3>6
    <3> QED
      BY <3>2, <3>3, <3>5, <3>7
  <2> HIDE DEF Fresh
  <2> QED
    BY <1>1, <2>1, <2>2, IntentsOfAStep
<1>2. IInv /\ [Next]_vars => [Fresh]_vars
  BY <1>1
<1> QED
  BY <1>2, Invariance, PTL DEF Spec, IdentityIssuedOnce
-----------------------------------------------------------------------------
(* What an intent is bounded by.                                           *)

(* The authority names the generation of the policies.                     *)
GenerationInForce == context.policy = policies.generation

(* A change of the policies leaves no intent: each names the generation it *)
(* was issued under.                                                       *)
LEMMA PoliciesOfAStep ==
    ASSUME IInv, AuthoritySound, GenerationInForce, [Next]_vars
    PROVE  GenerationInForce' /\ (live' = {} \/ UNCHANGED policies)
<1> DEFINE Goal == GenerationInForce' /\ (live' = {} \/ UNCHANGED policies)
<1>0. TypeOK
  BY DEF IInv
<1>1. ASSUME NEW set, NEW which, ChangePolicies(set, which),
             set \in [fallback : Policies, overrides : [Resources -> Policies \cup {NoPolicy}],
                      generation : Nat]
      PROVE  Goal
  <2>1. /\ policies.generation \in Nat /\ context \in Context
        /\ policies' = [set EXCEPT !.generation = policies.generation + 1]
        /\ context' = [context EXCEPT !.policy = policies.generation + 1]
        /\ RefreshAuthority(live, lastTick) /\ Unlocked
    BY <1>0, <1>1 DEF ChangePolicies, TypeOK
  <2>2. GenerationInForce'
    BY <1>1, <2>1 DEF GenerationInForce, Context
  <2>3. context'.policy = context.policy + 1 /\ context.policy \in Nat
    BY <2>1 DEF GenerationInForce, Context
  <2>4. ASSUME NEW i \in live' PROVE FALSE
    <3>1. i \in live /\ i.authority.policy = context'.policy
      BY <2>1, <2>4 DEF RefreshAuthority, InForce
    <3>2. i.authority.policy = context.policy
      BY <2>1, <3>1 DEF AuthoritySound, InForce
    <3> QED
      BY <2>3, <3>1, <3>2
  <2> QED
    BY <2>2, <2>4
<1>2. ASSUME NEW e \in Epochs, NEW i, NEW b, BindAuthority(e, i, b) PROVE Goal
  BY <1>0, <1>2 DEF BindAuthority, GenerationInForce, TypeOK, Context
<1>3. ASSUME NEW r, NEW g, SetResourceGeneration(r, g) PROVE Goal
  BY <1>3 DEF SetResourceGeneration, GenerationInForce
<1>4. ASSUME NEW on, SetInterventionsEnabled(on) PROVE Goal
  BY <1>4 DEF SetInterventionsEnabled, GenerationInForce
<1>5. ASSUME NEW s, NEW tick, NEW g, Ingest(s, tick, g) PROVE Goal
  BY <1>5 DEF Ingest, GenerationInForce
<1>6. ASSUME NEW now, BeginAdvance(now) PROVE Goal
  BY <1>6 DEF BeginAdvance, GenerationInForce
<1>7. ASSUME NEW s, VisitStream(s) PROVE Goal
  BY <1>7 DEF VisitStream, GenerationInForce
<1>8. ASSUME FinishAdvance PROVE Goal
  BY <1>8 DEF FinishAdvance, GenerationInForce
<1>9. ASSUME UNCHANGED vars PROVE Goal
  BY <1>9 DEF vars, GenerationInForce
<1>10. /\ \A p \in Policies : [policies EXCEPT !.fallback = p] \in
              [fallback : Policies, overrides : [Resources -> Policies \cup {NoPolicy}],
               generation : Nat]
       /\ \A r \in Resources, p \in Policies \cup {NoPolicy} :
              [policies EXCEPT !.overrides[r] = p] \in
                  [fallback : Policies, overrides : [Resources -> Policies \cup {NoPolicy}],
                   generation : Nat]
  BY <1>0 DEF TypeOK
<1> HIDE DEF Goal
<1>11. ASSUME NEW p \in Policies, InstallPolicy(p) PROVE Goal
  BY <1>1, <1>10, <1>11 DEF InstallPolicy
<1>12. ASSUME NEW r \in Resources, NEW p \in Policies, SetResourcePolicy(r, p) PROVE Goal
  BY <1>1, <1>10, <1>12 DEF SetResourcePolicy
<1>13. ASSUME NEW r \in Resources, RemoveResourcePolicy(r) PROVE Goal
  BY <1>1, <1>10, <1>13 DEF RemoveResourcePolicy
<1>14. Goal
  BY <1>2, <1>3, <1>4, <1>5, <1>6, <1>7, <1>8, <1>9, <1>11, <1>12, <1>13 DEF Next
<1> QED
  BY <1>14 DEF Goal

(* What a stream has processed is never forgotten, and only grows.         *)
LEMMA ProcessedGrows ==
    ASSUME IInv, [Next]_vars, NEW s \in Streams, streams[s].processed # Never
    PROVE  /\ streams'[s].processed \in Past \ {Never}
           /\ streams[s].processed <= streams'[s].processed
<1> DEFINE old == streams[s].processed
           new == streams'[s].processed
           Goal == new \in Past \ {Never} /\ old <= new
<1>0. TypeOK /\ WithinHorizon /\ old \in Past \ {Never} /\ streams[s] \in Stream
  BY DEF IInv, WithinHorizon, TypeOK
<1>1. ASSUME new = old PROVE Goal
  BY <1>0, <1>1, ProtocolAssumption DEF Past, Tick
<1>2. ASSUME NEW t \in Streams, NEW out, IsNew(t, out.decision), ProcessDecision(t, out),
             out.decision.tick \in Past \ {Never}
      PROVE  Goal
  <2> DEFINE now == out.decision.tick
  <2>1. streams' = [streams EXCEPT ![t] = [det |-> out.det, processed |-> now]]
    BY <1>2 DEF ProcessDecision
  <2>2. CASE t # s
    BY <1>0, <1>1, <2>1, <2>2 DEF TypeOK
  <2>3. CASE t = s
    <3>1. new = now
      BY <1>0, <2>1, <2>3 DEF TypeOK
    <3>2. TickAfter(old, now)
      BY <1>2, <2>3 DEF IsNew
    <3>3. old < now
      BY <1>0, <1>2, <3>2, OrderBeforeWrap
    <3>4. now \in Int /\ old \in Int
      BY <1>0, <1>2 DEF Past, Tick
    <3> QED
      BY <1>2, <3>1, <3>3, <3>4
  <2> QED
    BY <2>2, <2>3
<1>3. ASSUME NEW t \in Streams, NEW out, SkipDecision(t, out) PROVE Goal
  BY <1>0, <1>1, <1>3 DEF SkipDecision, TypeOK, Stream
<1>4. ASSUME NEW set, NEW which, ChangePolicies(set, which) PROVE Goal
  <2>1. streams' = [t \in Streams |->
              IF t \in which THEN [streams[t] EXCEPT !.det = Rearmed(@)] ELSE streams[t]]
    BY <1>4 DEF ChangePolicies, RearmStreams
  <2> QED
    BY <1>0, <1>1, <2>1 DEF Stream
<1>5. ASSUME NEW t \in Streams, NEW tick \in Tick, NEW g \in Generation, Ingest(t, tick, g)
      PROVE  Goal
  <2>1. PICK out \in SampleOutcomes(t, tick, g) :
            IngestProcesses(t, out) \/ IngestSkips(t, out)
    BY <1>5 DEF Ingest
  <2>2. streams[t] \in Stream /\ streams[t].det \in DetectorState /\ tick \in Past \ {Never}
        /\ streams[t].det.eval \in Past
    BY <1>0, <1>5, ProtocolAssumption DEF TypeOK, Stream, Ingest, Presents, Past, WithinHorizon
  <2>3. out.decision.tick \in Past \ {Never}
    <3>1. \/ out.decision.tick = tick
          \/ streams[t].det.eval # Never /\ out.decision.tick = streams[t].det.eval
      BY <2>2, SampleOutcome
    <3> QED
      BY <2>2, <3>1
  <2> HIDE DEF Goal
  <2> QED
    BY <1>2, <1>3, <2>1, <2>3 DEF IngestProcesses, IngestSkips
<1>6. ASSUME NEW t \in Streams, VisitStream(t) PROVE Goal
  <2>1. PICK out \in Afresh(streams[t].det, sweep.now) :
            \/ IsNew(t, out.decision) /\ ProcessDecision(t, out)
            \/ SkipDecision(t, out)
    BY <1>6 DEF VisitStream
  <2>2. sweep.now \in Tick /\ sweep.now \in Past \ {Never} /\ streams[t].det \in DetectorState
    BY <1>0, ProtocolAssumption DEF TypeOK, WithinHorizon, Stream
  <2>3. out.decision.tick \in Past \ {Never}
    BY <2>2, AfreshOutcome
  <2> HIDE DEF Goal
  <2> QED
    BY <1>2, <1>3, <2>1, <2>3
<1>7. ASSUME UNCHANGED streams PROVE Goal
  BY <1>1, <1>7
<1> HIDE DEF Goal
<1>8. Goal
  BY <1>4, <1>5, <1>6, <1>7
  DEF Next, InstallPolicy, SetResourcePolicy, RemoveResourcePolicy, BindAuthority,
      SetResourceGeneration, SetInterventionsEnabled, BeginAdvance, FinishAdvance, evidence, vars
<1> QED
  BY <1>8 DEF Goal

(* A request refreshes an intent or issues one, each for the time to live  *)
(* the policy gives its kind.                                              *)
LEMMA RequestedExpire ==
    ASSUME TypeOK, NEW s \in Streams, NEW e, NEW grade, NEW now \in Tick,
           NEW intents \in SUBSET Intent, NEW j \in Requested(s, e, grade, intents, now)
    PROVE  \/ j \in intents
           \/ /\ j.event = e
              /\ j.issued = now \/ \E i \in intents : i.event = e /\ j.issued = i.issued
              /\ j.expiry <= now + Resolve(policies, ResourceOf[s]).kinds[j.kind].ttl
<1> DEFINE p == Resolve(policies, ResourceOf[s])
           until(k) == AddTicksSaturating(now, p.kinds[k].ttl)
           wanted == Wanted(p, grade)
<1>1. p \in Policies
  BY GovernorAssumption, ResolvedPolicy
<1>2. p \in Policy
  BY <1>1, GovernorAssumption
<1>3. \A k \in Kinds : until(k) <= now + p.kinds[k].ttl
  <2> SUFFICES ASSUME NEW k \in Kinds PROVE until(k) <= now + p.kinds[k].ttl
    OBVIOUS
  <2>1. p.kinds[k].ttl \in Nat
    BY <1>2 DEF Policy, KindLimit
  <2> HIDE DEF p
  <2> QED
    BY <2>1, TickModulusAssumption DEF AddTicksSaturating, Tick, LastTick
<1>4. CASE \E i \in intents : j = IF i.event = e /\ i.kind \in wanted
                                  THEN [i EXCEPT !.expiry = until(i.kind)] ELSE i
  <2>1. PICK i \in intents : j = IF i.event = e /\ i.kind \in wanted
                                 THEN [i EXCEPT !.expiry = until(i.kind)] ELSE i
    BY <1>4
  <2>2. CASE i.event = e /\ i.kind \in wanted
    <3>1. j = [i EXCEPT !.expiry = until(i.kind)] /\ i \in Intent
      BY <2>1, <2>2
    <3> HIDE DEF p, wanted, until
    <3>2. j.event = e /\ j.issued = i.issued /\ j.kind = i.kind /\ j.expiry = until(i.kind)
          /\ j.kind \in Kinds
      BY <2>2, <3>1 DEF Intent
    <3>3. j.expiry <= now + p.kinds[j.kind].ttl
      BY <1>3, <3>2
    <3> QED
      BY <2>2, <3>2, <3>3 DEF p
  <2>3. CASE ~(i.event = e /\ i.kind \in wanted)
    BY <2>1, <2>3
  <2> QED
    BY <2>2, <2>3
<1>5. CASE \E k \in Granted(p, wanted, intents, s, e) :
               j = [event |-> e, kind |-> k, authority |-> context,
                    resGen |-> resGen'[ResourceOf[s]], issued |-> now, expiry |-> until(k)]
  <2>1. PICK k \in Granted(p, wanted, intents, s, e) :
               j = [event |-> e, kind |-> k, authority |-> context,
                    resGen |-> resGen'[ResourceOf[s]], issued |-> now, expiry |-> until(k)]
    BY <1>5
  <2>2. k \in Kinds
    BY DEF Granted, Wanted
  <2>3. j.event = e /\ j.issued = now /\ j.kind = k /\ j.expiry = until(k)
    BY <2>1
  <2> HIDE DEF p, wanted, until
  <2>4. j.expiry <= now + p.kinds[j.kind].ttl
    BY <1>3, <2>2, <2>3
  <2> QED
    BY <2>3, <2>4 DEF p
<1> QED
  BY <1>4, <1>5 DEF Requested

(* Intents were issued at ticks the environment presented.                 *)
IssuedInPast == \A i \in live : i.issued \in Past \ {Never}

(* Every intent expires: it lives at most its time to live past the last   *)
(* decision of its stream, however often it is refreshed and whatever the  *)
(* policies become (request_interventions_locked()).                       *)
THEOREM IntentsExpire == Spec => []ExpiryBounded
<1> DEFINE Bounds == GenerationInForce /\ IssuedInPast /\ ExpiryBounded
<1>1. Init => Bounds
  BY DEF Init, GenerationInForce, IssuedInPast, ExpiryBounded
<1>2. ASSUME IInv, AuthoritySound, Bounds, [Next]_vars PROVE Bounds'
  <2>1. GenerationInForce' /\ (live' = {} \/ UNCHANGED policies) /\ TypeOK /\ TypeOK'
    BY <1>2, PoliciesOfAStep, StepInvariant DEF IInv
  <2>2. CASE live' = {}
    BY <2>1, <2>2 DEF IssuedInPast, ExpiryBounded
  <2>3. CASE UNCHANGED policies
    <3> DEFINE Ttl(s, k) == Resolve(policies, ResourceOf[s]).kinds[k].ttl
               Fits(i, s) ==
                   /\ i.issued \in Past \ {Never}
                   /\ streams'[s].processed \in Past \ {Never}
                   /\ ~TickAfter(streams'[s].processed, i.issued)
                   /\ i.expiry <= streams'[s].processed + Ttl(s, i.kind)
    <3>1. \A s \in Streams, k \in Kinds : Ttl(s, k) \in Nat
      <4> SUFFICES ASSUME NEW s \in Streams, NEW k \in Kinds PROVE Ttl(s, k) \in Nat
        OBVIOUS
      <4>1. Resolve(policies, ResourceOf[s]) \in Policy
        BY <2>1, GovernorAssumption, ResolvedPolicy
      <4> QED
        BY <4>1 DEF Policy, KindLimit
    <3>2. ASSUME NEW i \in live, NEW s \in Streams, s = i.event.stream
          PROVE  Fits(i, s)
      <4> DEFINE old == streams[s].processed
                 new == streams'[s].processed
                 ttl == Ttl(s, i.kind)
      <4>1. /\ old # Never /\ ~TickAfter(old, i.issued) /\ i.expiry <= old + ttl
            /\ i.issued \in Past \ {Never}
        BY <1>2, <3>2 DEF ExpiryBounded, IssuedInPast
      <4>2. /\ i.kind \in Kinds /\ i.expiry \in Nat
        BY <2>1 DEF TypeOK, Intent, Tick
      <4>3. ttl \in Nat
        BY <3>1, <4>2
      <4>4. new \in Past \ {Never} /\ old <= new
        BY <1>2, <4>1, ProcessedGrows
      <4>5. old \in Past \ {Never}
        BY <1>2, <4>1 DEF IInv, WithinHorizon
      <4> HIDE DEF old, new, ttl
      <4>6. old \in Int /\ new \in Int /\ i.issued \in Int
        BY <4>1, <4>4, <4>5 DEF Past, Tick
      <4>7. i.issued <= old
        BY <4>1, <4>5, <4>6, OrderBeforeWrap
      <4>8. ~TickAfter(new, i.issued)
        BY <4>1, <4>4, <4>6, <4>7, OrderBeforeWrap
      <4>9. i.expiry <= new + ttl
        BY <4>1, <4>2, <4>3, <4>4, <4>6
      <4> QED
        BY <4>1, <4>4, <4>8, <4>9 DEF new, ttl
    <3>3. ASSUME NEW s \in Streams, NEW dec \in Decision, NEW grade \in Grade,
                 NEW now \in Past \ {Never}, Decides(s, dec, grade, now),
                 streams'[s].processed = now, NEW j \in live'
          PROVE  Fits(j, j.event.stream)
      <4> DEFINE kept == LiveAfterClose(s, dec, now)
                 e == EventOf(s, dec)
      <4>1. kept \in SUBSET Intent /\ kept \subseteq live
        BY <2>1 DEF LiveAfterClose, TypeOK
      <4>2. j \in kept \/ j \in Requested(s, e, grade, kept, now)
        BY <3>3 DEF Decides, LiveAfterDecision
      <4>3. e.stream = s /\ now \in Tick /\ now \in Nat
        BY DEF EventOf, Past, Tick
      <4>4. j.event.stream \in Streams
        BY <2>1 DEF TypeOK, Intent, Event
      <4> HIDE DEF kept, e
      <4>5. CASE j \in live
        BY <3>2, <4>4, <4>5
      <4>6. CASE j \notin live
        <5>1. /\ j.event = e
              /\ j.issued = now \/ \E i \in kept : i.event = e /\ j.issued = i.issued
              /\ j.expiry <= now + Ttl(s, j.kind)
          BY <2>1, <4>1, <4>2, <4>3, <4>6, RequestedExpire
        <5>2. j.issued \in Past \ {Never} /\ j.issued \in Nat
          <6>1. j.issued \in Past \ {Never}
            BY <1>2, <4>1, <5>1 DEF IssuedInPast
          <6> QED
            BY <6>1 DEF Past, Tick
        <5>3. ~TickAfter(now, j.issued)
          <6>1. CASE j.issued = now
            BY <4>3, <6>1, NotAfterItself
          <6>2. CASE j.issued # now
            <7>1. PICK i \in kept : i.event = e /\ j.issued = i.issued
              BY <5>1, <6>2
            <7>2. Fits(i, s)
              BY <3>2, <4>1, <4>3, <7>1
            <7> QED
              BY <3>3, <7>1, <7>2
          <6> QED
            BY <6>1, <6>2
        <5> QED
          BY <3>3, <4>3, <5>1, <5>2, <5>3
      <4> QED
        BY <4>5, <4>6
    <3>4. ASSUME NEW j \in live'
          PROVE  Fits(j, j.event.stream)
      <4>1. j.event.stream \in Streams
        BY <2>1 DEF TypeOK, Intent, Event
      <4> HIDE DEF Fits
      <4>2. CASE live' \subseteq live
        BY <3>2, <4>1, <4>2
      <4> QED
        BY <1>2, <3>3, <4>2, IntentsOfAStep
    <3>5. \A s, k : Ttl(s, k) = Ttl(s, k)'
      BY <2>3 DEF Resolve
    <3> QED
      BY <2>1, <3>4, <3>5 DEF IssuedInPast, ExpiryBounded
  <2> QED
    BY <2>1, <2>2, <2>3
<1>3. Bounds => ExpiryBounded
  OBVIOUS
<1> HIDE DEF Bounds
<1> QED
  BY <1>1, <1>2, <1>3, Invariance, AuthorityNeverStale, PTL DEF Spec
-----------------------------------------------------------------------------
(* How many intents there are.                                             *)

(* What comes from two finite sets is no more than both hold.              *)
LEMMA ImagesAreBounded ==
    ASSUME NEW A, IsFiniteSet(A), NEW B, IsFiniteSet(B), NEW f, NEW g, NEW T,
           \A x \in T : (\E a \in A : x = f[a]) \/ (\E b \in B : x = g[b])
    PROVE  IsFiniteSet(T) /\ Cardinality(T) <= Cardinality(A) + Cardinality(B)
<1> DEFINE fA == {f[a] : a \in A}
           gB == {g[b] : b \in B}
<1>1. IsFiniteSet(fA) /\ Cardinality(fA) <= Cardinality(A)
  <2>1. [a \in A |-> f[a]] \in Surjection(A, fA)
    BY DEF Surjection
  <2> QED
    BY <2>1, FS_Surjection
<1>2. IsFiniteSet(gB) /\ Cardinality(gB) <= Cardinality(B)
  <2>1. [b \in B |-> g[b]] \in Surjection(B, gB)
    BY DEF Surjection
  <2> QED
    BY <2>1, FS_Surjection
<1>3. T \subseteq fA \cup gB
  OBVIOUS
<1> HIDE DEF fA, gB
<1>4. /\ IsFiniteSet(fA \cup gB)
      /\ Cardinality(fA \cup gB) = Cardinality(fA) + Cardinality(gB) - Cardinality(fA \cap gB)
  BY <1>1, <1>2, FS_Union
<1>5. IsFiniteSet(fA \cap gB)
  BY <1>1, FS_Intersection
<1>6. /\ Cardinality(A) \in Nat /\ Cardinality(B) \in Nat /\ Cardinality(fA) \in Nat
      /\ Cardinality(gB) \in Nat /\ Cardinality(fA \cap gB) \in Nat
  BY <1>1, <1>2, <1>5, FS_CardinalityType
<1>7. IsFiniteSet(T) /\ Cardinality(T) <= Cardinality(fA \cup gB) /\ Cardinality(T) \in Nat
  BY <1>3, <1>4, FS_Subset, FS_CardinalityType
<1> QED
  BY <1>1, <1>2, <1>4, <1>6, <1>7

(* Kinds granted in order while there is room are no more than the room.   *)
LEMMA GrantsFitRoom ==
    ASSUME NEW wanted \in SUBSET Nat, NEW granted \in SUBSET wanted, NEW room \in Nat,
           \A k \in granted : Cardinality({j \in wanted : j < k}) < room
    PROVE  IsFiniteSet(granted) /\ Cardinality(granted) <= room
<1> DEFINE Before(k) == {j \in wanted : j < k}
           place == [k \in granted |-> Cardinality(Before(k))]
<1>1. ASSUME NEW k \in wanted
      PROVE  IsFiniteSet(Before(k)) /\ Cardinality(Before(k)) \in Nat
  <2>1. Before(k) \in SUBSET Nat /\ k \in Nat
    OBVIOUS
  <2>2. ASSUME NEW j \in Before(k) PROVE j <= k
    <3>1. j < k /\ j \in Nat
      OBVIOUS
    <3> HIDE DEF Before
    <3> QED
      BY <2>1, <3>1
  <2> HIDE DEF Before
  <2> QED
    BY <2>1, <2>2, FS_BoundedSetOfNaturals, FS_CardinalityType
<1>2. ASSUME NEW j \in granted, NEW k \in granted, j < k
      PROVE  place[j] < place[k]
  <2>1. /\ Before(j) \cup {j} \subseteq Before(k) /\ j \notin Before(j)
        /\ j \in wanted /\ k \in wanted
    <3>1. j \in wanted /\ k \in wanted /\ j \in Nat /\ k \in Nat
      OBVIOUS
    <3>2. ASSUME NEW i \in Before(j) PROVE i \in wanted /\ i < k
      <4>1. i \in wanted /\ i \in Nat /\ i < j
        OBVIOUS
      <4> HIDE DEF Before
      <4> QED
        BY <1>2, <3>1, <4>1
    <3>3. j \notin Before(j)
      BY <3>1
    <3>4. j \in Before(k)
      BY <1>2, <3>1
    <3> QED
      BY <3>1, <3>2, <3>3, <3>4
  <2> HIDE DEF Before
  <2>2. /\ IsFiniteSet(Before(j)) /\ IsFiniteSet(Before(k))
        /\ Cardinality(Before(j)) \in Nat /\ Cardinality(Before(k)) \in Nat
    BY <1>1, <2>1
  <2>3. Cardinality(Before(j) \cup {j}) = Cardinality(Before(j)) + 1
    BY <2>1, <2>2, FS_AddElement
  <2>4. Cardinality(Before(j) \cup {j}) <= Cardinality(Before(k))
    BY <2>1, <2>2, FS_Subset
  <2> QED
    BY <2>2, <2>3, <2>4
<1>3. place \in [granted -> 0 .. room - 1]
  <2>1. \A k \in granted : Cardinality(Before(k)) \in Nat /\ Cardinality(Before(k)) < room
    BY <1>1
  <2> HIDE DEF Before
  <2> QED
    BY <2>1
<1>4. \A j, k \in granted : place[j] = place[k] => j = k
  <2> SUFFICES ASSUME NEW j \in granted, NEW k \in granted, place[j] = place[k], j # k
               PROVE  FALSE
    OBVIOUS
  <2> HIDE DEF place
  <2>1. place[j] \in Int /\ place[k] \in Int /\ j \in Nat /\ k \in Nat
    BY <1>3
  <2>2. j < k \/ k < j
    BY <2>1
  <2> QED
    BY <1>2, <2>1, <2>2
<1> HIDE DEF place
<1>5. place \in Injection(granted, 0 .. room - 1)
  BY <1>3, <1>4 DEF Injection, IsInjective
<1>6. IsFiniteSet(0 .. room - 1) /\ Cardinality(0 .. room - 1) = room
  <2> DEFINE last == room - 1
  <2>1. last \in Int /\ (IF 0 > last THEN 0 ELSE last - 0 + 1) = room
    OBVIOUS
  <2> HIDE DEF last
  <2>2. IsFiniteSet(0 .. last)
        /\ Cardinality(0 .. last) = IF 0 > last THEN 0 ELSE last - 0 + 1
    BY <2>1, FS_Interval
  <2> QED
    BY <2>1, <2>2 DEF last
<1> QED
  BY <1>5, <1>6, FS_Injection

(* A set of intents is within the limits of the policies in force.         *)
WithinLimits(intents) ==
    /\ IsFiniteSet(intents)
    /\ \A t \in Streams :
          Cardinality(OfStream(intents, t)) <= Resolve(policies, ResourceOf[t]).perStream
    /\ intents # {} => \E r \in Resources : Cardinality(intents) <= Resolve(policies, r).total

(* Fewer intents are within the limits too.                                *)
LEMMA FewerWithinLimits ==
    ASSUME TypeOK, NEW intents, WithinLimits(intents), NEW fewer \in SUBSET intents
    PROVE  WithinLimits(fewer)
<1>1. IsFiniteSet(fewer) /\ Cardinality(fewer) <= Cardinality(intents)
      /\ Cardinality(fewer) \in Nat /\ Cardinality(intents) \in Nat
  BY FS_Subset, FS_CardinalityType DEF WithinLimits
<1>2. \A r \in Resources : /\ Resolve(policies, r).perStream \in Nat
                           /\ Resolve(policies, r).total \in Nat
  BY ResolvedPolicy, GovernorAssumption DEF Policy
<1>3. ASSUME NEW t \in Streams
      PROVE  Cardinality(OfStream(fewer, t)) <= Resolve(policies, ResourceOf[t]).perStream
  <2> DEFINE most == OfStream(intents, t)
             rest == OfStream(fewer, t)
  <2>1. most \subseteq intents /\ rest \subseteq most
    BY DEF OfStream
  <2>2. Cardinality(most) <= Resolve(policies, ResourceOf[t]).perStream
        /\ Resolve(policies, ResourceOf[t]).perStream \in Nat
    BY <1>2, GovernorAssumption DEF WithinLimits
  <2> HIDE DEF most, rest
  <2>3. IsFiniteSet(most) /\ IsFiniteSet(intents)
    BY <2>1, FS_Subset DEF WithinLimits
  <2>4. Cardinality(rest) <= Cardinality(most) /\ IsFiniteSet(rest)
    BY <2>1, <2>3, FS_Subset
  <2>5. Cardinality(rest) \in Nat /\ Cardinality(most) \in Nat
    BY <2>3, <2>4, FS_CardinalityType
  <2>6. Cardinality(rest) <= Resolve(policies, ResourceOf[t]).perStream
    BY <2>2, <2>4, <2>5
  <2> QED
    BY <2>6 DEF rest
<1>4. fewer # {} => \E r \in Resources : Cardinality(fewer) <= Resolve(policies, r).total
  <2> SUFFICES ASSUME fewer # {}
               PROVE  \E r \in Resources : Cardinality(fewer) <= Resolve(policies, r).total
    OBVIOUS
  <2>1. PICK r \in Resources : Cardinality(intents) <= Resolve(policies, r).total
    BY DEF WithinLimits
  <2>2. Cardinality(fewer) <= Resolve(policies, r).total
    BY <1>1, <1>2, <2>1
  <2> QED
    BY <2>2
<1> QED
  BY <1>1, <1>3, <1>4 DEF WithinLimits

(* Requests stay within the limits, although the room is looked at before  *)
(* anything is granted.                                                    *)
LEMMA RequestedWithinLimits ==
    ASSUME TypeOK, NEW s \in Streams, NEW e, e.stream = s, NEW grade, NEW now,
           NEW intents \in SUBSET Intent, WithinLimits(intents)
    PROVE  WithinLimits(Requested(s, e, grade, intents, now))
<1> DEFINE p == Resolve(policies, ResourceOf[s])
           wanted == Wanted(p, grade)
           until(k) == AddTicksSaturating(now, p.kinds[k].ttl)
           granted == Granted(p, wanted, intents, s, e)
           new == wanted \ {i.kind : i \in {j \in intents : j.event = e}}
           Again(i) == IF i.event = e /\ i.kind \in wanted
                       THEN [i EXCEPT !.expiry = until(i.kind)] ELSE i
           Fresh(k) == [event |-> e, kind |-> k, authority |-> context,
                        resGen |-> resGen'[ResourceOf[s]], issued |-> now,
                        expiry |-> until(k)]
           again == [i \in intents |-> Again(i)]
           fresh == [k \in granted |-> Fresh(k)]
           after == Requested(s, e, grade, intents, now)
           held == Cardinality(OfStream(intents, s))
           all == Cardinality(intents)
<1>1. ResourceOf[s] \in Resources /\ p \in Policy /\ p.perStream \in Nat /\ p.total \in Nat
  BY ResolvedPolicy, GovernorAssumption DEF Policy
<1>2. /\ IsFiniteSet(intents) /\ all \in Nat
      /\ \A t \in Streams : /\ IsFiniteSet(OfStream(intents, t))
                            /\ Cardinality(OfStream(intents, t)) \in Nat
      /\ held <= p.perStream
  <2>1. \A t \in Streams : OfStream(intents, t) \subseteq intents
    BY DEF OfStream
  <2> QED
    BY <2>1, FS_Subset, FS_CardinalityType DEF WithinLimits
<1>3. \A x \in after : (\E i \in intents : x = again[i]) \/ (\E k \in granted : x = fresh[k])
  BY DEF Requested
<1>4. \A i \in intents : again[i].event = i.event
  BY DEF Intent
<1>5. \A k \in granted : fresh[k].event = e
  OBVIOUS
<1>6. new \subseteq Nat /\ granted \subseteq new
  BY GovernorAssumption DEF Wanted, Granted
<1>7. \A k \in granted : /\ held + Cardinality({j \in new : j < k}) < p.perStream
                         /\ all + Cardinality({j \in new : j < k}) < p.total
  BY DEF Granted
<1>8. \A k \in new : Cardinality({j \in new : j < k}) \in Nat
  <2> SUFFICES ASSUME NEW k \in new PROVE Cardinality({j \in new : j < k}) \in Nat
    OBVIOUS
  <2> DEFINE before == {j \in new : j < k}
  <2>1. before \in SUBSET Nat /\ k \in Nat /\ \A j \in before : j <= k
    BY <1>6
  <2> HIDE DEF before
  <2>2. Cardinality(before) \in Nat
    BY <2>1, FS_BoundedSetOfNaturals, FS_CardinalityType
  <2> QED
    BY <2>2 DEF before
<1> HIDE DEF again, fresh, after, granted, new, p, held, all
<1>9. /\ IsFiniteSet(granted) /\ Cardinality(granted) \in Nat
      /\ held + Cardinality(granted) <= p.perStream
  <2> DEFINE room == p.perStream - held
  <2>1. room \in Nat /\ held \in Nat
    BY <1>1, <1>2 DEF held
  <2>2. \A k \in granted : Cardinality({j \in new : j < k}) < room
    BY <1>1, <1>6, <1>7, <1>8, <2>1
  <2>3. room = p.perStream - held
    OBVIOUS
  <2> HIDE DEF room
  <2>4. IsFiniteSet(granted) /\ Cardinality(granted) <= room
    BY <1>6, <2>1, <2>2, GrantsFitRoom
  <2>5. Cardinality(granted) \in Nat
    BY <2>4, FS_CardinalityType
  <2> QED
    BY <1>1, <2>1, <2>3, <2>4, <2>5
<1>10. IsFiniteSet(after) /\ Cardinality(after) <= all + Cardinality(granted)
       /\ Cardinality(after) \in Nat
  BY <1>2, <1>3, <1>9, ImagesAreBounded, FS_CardinalityType DEF all
<1>11. ASSUME NEW t \in Streams
       PROVE  Cardinality(OfStream(after, t)) <= Resolve(policies, ResourceOf[t]).perStream
  <2> DEFINE mine == OfStream(after, t)
             old  == OfStream(intents, t)
  <2>1. IsFiniteSet(old) /\ Cardinality(old) \in Nat
        /\ Cardinality(old) <= Resolve(policies, ResourceOf[t]).perStream
    BY <1>2 DEF WithinLimits
  <2>2. CASE t = s
    <3>1. \A x \in mine : (\E i \in old : x = again[i]) \/ (\E k \in granted : x = fresh[k])
      BY <1>3, <1>4 DEF OfStream
    <3> HIDE DEF mine, old
    <3>2. IsFiniteSet(mine) /\ Cardinality(mine) <= Cardinality(old) + Cardinality(granted)
      BY <1>9, <2>1, <3>1, ImagesAreBounded
    <3>3. Cardinality(mine) \in Nat
      BY <3>2, FS_CardinalityType
    <3>4. Cardinality(old) = held
      BY <2>2 DEF old, held
    <3>5. Cardinality(mine) <= p.perStream
      BY <1>1, <1>9, <2>1, <3>2, <3>3, <3>4
    <3> QED
      BY <2>2, <3>5 DEF mine, p
  <2>3. CASE t # s
    <3>1. \A x \in mine : (\E i \in old : x = again[i]) \/ (\E k \in {} : x = fresh[k])
      BY <1>3, <1>4, <1>5, <2>3 DEF OfStream
    <3> HIDE DEF mine, old
    <3>2. IsFiniteSet({}) /\ Cardinality({}) = 0
      BY FS_EmptySet
    <3>3. IsFiniteSet(mine) /\ Cardinality(mine) <= Cardinality(old) + Cardinality({})
      BY <2>1, <3>1, <3>2, ImagesAreBounded
    <3>4. Cardinality(mine) \in Nat
      BY <3>3, FS_CardinalityType
    <3>5. Resolve(policies, ResourceOf[t]).perStream \in Nat
      BY ResolvedPolicy, GovernorAssumption DEF Policy
    <3>6. Cardinality(mine) <= Resolve(policies, ResourceOf[t]).perStream
      BY <2>1, <3>2, <3>3, <3>4, <3>5
    <3> QED
      BY <3>6 DEF mine
  <2> QED
    BY <2>2, <2>3
<1>12. after # {} => \E r \in Resources : Cardinality(after) <= Resolve(policies, r).total
  <2>1. CASE granted = {}
    <3>1. Cardinality(granted) = 0
      BY <2>1, FS_EmptySet
    <3>2. Cardinality(after) <= all
      BY <1>2, <1>10, <3>1
    <3>3. after # {} => intents # {}
      BY <1>3, <2>1
    <3> SUFFICES ASSUME after # {}
                 PROVE  \E r \in Resources : Cardinality(after) <= Resolve(policies, r).total
      OBVIOUS
    <3>4. PICK r \in Resources : all <= Resolve(policies, r).total
      BY <3>3 DEF WithinLimits, all
    <3>5. Resolve(policies, r).total \in Nat
      BY ResolvedPolicy, GovernorAssumption DEF Policy
    <3>6. Cardinality(after) <= Resolve(policies, r).total
      BY <1>2, <1>10, <3>2, <3>4, <3>5
    <3> QED
      BY <3>6
  <2>2. CASE granted # {}
    <3> DEFINE room == p.total - all
    <3>1. PICK k \in granted : TRUE
      BY <2>2
    <3>2. all < p.total
      <4> DEFINE before == Cardinality({j \in new : j < k})
      <4>1. before \in Nat
        BY <1>6, <1>8, <3>1
      <4>2. all + before < p.total
        BY <1>7, <3>1
      <4> HIDE DEF before
      <4> QED
        BY <1>1, <1>2, <4>1, <4>2
    <3>3. room \in Nat /\ room = p.total - all
      BY <1>1, <1>2, <3>2
    <3>4. \A j \in granted : Cardinality({i \in new : i < j}) < room
      BY <1>1, <1>2, <1>6, <1>7, <1>8
    <3> HIDE DEF room
    <3>5. Cardinality(granted) <= room
      BY <1>6, <3>3, <3>4, GrantsFitRoom
    <3>6. Cardinality(after) <= p.total
      BY <1>1, <1>2, <1>9, <1>10, <3>3, <3>5
    <3> QED
      BY <1>1, <3>6 DEF p
  <2> QED
    BY <2>1, <2>2
<1> QED
  BY <1>10, <1>11, <1>12 DEF WithinLimits, after

(* Intents stay within the concurrency limits of the policies in force,    *)
(* for every number of streams, kinds and resources, inside an advance too *)
(* (request_interventions_locked()).                                       *)
THEOREM IntentsWithinLimits == Spec => []ConcurrencyBounded
<1> DEFINE Bounds == GenerationInForce /\ WithinLimits(live)
<1>1. ASSUME Init \/ live = {}, \A r \in Resources : Resolve(policies, r).perStream \in Nat
      PROVE  WithinLimits(live)
  <2>1. live = {}
    BY <1>1 DEF Init
  <2>2. \A t \in Streams : OfStream(live, t) = {}
    BY <2>1 DEF OfStream
  <2> QED
    BY <1>1, <2>1, <2>2, FS_EmptySet, GovernorAssumption DEF WithinLimits
<1>2. Init => Bounds
  <2> SUFFICES ASSUME Init PROVE Bounds
    OBVIOUS
  <2>1. TypeOK
    BY InitInvariant DEF IInv
  <2>2. \A r \in Resources : Resolve(policies, r).perStream \in Nat
    BY <2>1, ResolvedPolicy, GovernorAssumption DEF Policy
  <2>3. GenerationInForce
    BY DEF Init, GenerationInForce
  <2> QED
    BY <1>1, <2>2, <2>3
<1>3. ASSUME IInv, AuthoritySound, Bounds, [Next]_vars PROVE Bounds'
  <2>1. GenerationInForce' /\ (live' = {} \/ UNCHANGED policies) /\ TypeOK /\ TypeOK'
    BY <1>3, PoliciesOfAStep, StepInvariant DEF IInv
  <2>2. CASE live' = {}
    <3>1. \A r \in Resources : Resolve(policies, r)' \in Policies
      BY <2>1 DEF TypeOK, Resolve
    <3>2. \A r \in Resources : Resolve(policies, r).perStream' \in Nat
      BY <3>1, GovernorAssumption DEF Policy
    <3>3. \A t \in Streams : OfStream(live', t) = {}
      BY <2>2 DEF OfStream
    <3>4. WithinLimits(live)'
      BY <2>2, <3>2, <3>3, FS_EmptySet, GovernorAssumption DEF WithinLimits
    <3> QED
      BY <2>1, <3>4
  <2>3. CASE UNCHANGED policies
    <3>1. WithinLimits(live)
      BY <1>3
    <3>2. ASSUME NEW intents, WithinLimits(intents), live' \subseteq intents
          PROVE  WithinLimits(live)'
      <4> DEFINE next == live'
      <4>1. next \in SUBSET intents
        BY <3>2
      <4> HIDE DEF next
      <4>2. WithinLimits(next)
        BY <2>1, <3>2, <4>1, FewerWithinLimits
      <4> QED
        BY <2>3, <4>2 DEF WithinLimits, Resolve, OfStream, next
    <3>3. ASSUME NEW s \in Streams, NEW dec \in Decision, NEW grade \in Grade,
                 NEW now \in Past \ {Never}, Decides(s, dec, grade, now)
          PROVE  WithinLimits(live)'
      <4> DEFINE kept == LiveAfterClose(s, dec, now)
                 e == EventOf(s, dec)
                 after == LiveAfterDecision(s, dec, grade, now)
      <4>1. kept \in SUBSET Intent /\ kept \in SUBSET live
        BY <2>1 DEF LiveAfterClose, TypeOK
      <4>2. after = kept \/ after = Requested(s, e, grade, kept, now)
        BY DEF LiveAfterDecision
      <4>3. e.stream = s /\ live' \subseteq after
        BY <3>3 DEF EventOf, Decides
      <4> HIDE DEF kept, e, after
      <4>4. WithinLimits(kept)
        BY <2>1, <3>1, <4>1, FewerWithinLimits
      <4>5. WithinLimits(Requested(s, e, grade, kept, now))
        BY <2>1, <4>1, <4>3, <4>4, RequestedWithinLimits
      <4> QED
        BY <3>2, <4>2, <4>3, <4>4, <4>5
    <3>4. WithinLimits(live)'
      BY <1>3, <3>1, <3>2, <3>3, IntentsOfAStep
    <3> QED
      BY <2>1, <3>4
  <2> QED
    BY <2>1, <2>2, <2>3
<1>4. Bounds => ConcurrencyBounded
  BY DEF WithinLimits, ConcurrencyBounded
<1> HIDE DEF Bounds
<1> QED
  BY <1>2, <1>3, <1>4, Invariance, AuthorityNeverStale, PTL DEF Spec
-----------------------------------------------------------------------------
(* The books of open episodes.                                             *)

(* The streams whose detector holds an episode open, and these episodes.   *)
OpenStreams(str) == {s \in Streams : str[s].det.open # Never}
EventsOf(str)    == {[stream |-> s, onset |-> str[s].det.open] : s \in OpenStreams(str)}

Booked ==
    /\ openEvents = EventsOf(streams)
    /\ outstanding = Cardinality(OpenStreams(streams))

(* What a decision says of the episode is what became of it: it is kept,   *)
(* began, is over, or began and is over at once.                           *)
Tells(dec, old, new) ==
    \/ ~dec.opened /\ ~dec.closed /\ new = old /\ (dec.updated => old # Never /\ dec.event = old)
    \/ dec.opened /\ ~dec.closed /\ old = Never /\ new # Never /\ dec.event = new
    \/ ~dec.opened /\ dec.closed /\ old # Never /\ dec.event = old /\ new = Never
    \/ dec.opened /\ dec.closed /\ old = Never /\ new = Never

(* A detector that holds an episode or an onset run has evaluated.         *)
HasEvaluated(d, now) == d.open # Never \/ d.run # Never => d.eval = now

(* A first evaluation tells what became of the episode; an idle detector   *)
(* without an onset run opens none.                                        *)
LEMMA AfreshTells ==
    ASSUME NEW d \in DetectorState, NEW now \in Tick, NEW out \in Afresh(d, now)
    PROVE  /\ Tells(out.decision, d.open, out.det.open)
           /\ d.open = Never /\ d.run = Never => out.det.open = Never
<1> DEFINE e == [d EXCEPT !.eval = now]
<1>0. out \in IF d.open = Never THEN Quiet(e, now) \cup Openings(e, now)
                                ELSE Continuations(e, now)
  BY DEF Afresh
<1>1. e \in DetectorState /\ e.open = d.open /\ e.run = d.run
  BY DEF DetectorState, When
<1> HIDE DEF e
<1>2. CASE d.open = Never /\ out \in Quiet(e, now)
  <2>1. PICK r : out = Outcome([e EXCEPT !.run = r], Silent(now, Never))
    BY <1>2 DEF Quiet
  <2>2. out.det.open = Never
    BY <1>1, <1>2, <2>1 DEF Outcome, DetectorState
  <2> QED
    BY <1>2, <2>1, <2>2 DEF Outcome, Silent, Tells
<1>3. CASE d.open = Never /\ out \in Openings(e, now)
  <2>1. e.run # Never
    BY <1>3 DEF Openings
  <2> DEFINE dec == [Silent(now, e.run) EXCEPT !.opened = TRUE, !.updated = TRUE]
             opened == [dec EXCEPT !.positive = TRUE]
             closed == [dec EXCEPT !.closed = TRUE]
             begun == [e EXCEPT !.run = Never, !.open = e.run]
  <2>2. \/ out = Outcome(begun, opened)
        \/ out = Outcome(Ended(e), closed)
    BY <1>3, Zenon DEF Openings
  <2>3. /\ opened.opened /\ ~opened.closed /\ opened.event = e.run
        /\ closed.opened /\ closed.closed
    BY DEF Silent
  <2>4. begun.open = e.run /\ Ended(e).open = Never
    BY <1>1 DEF DetectorState, Ended
  <2> HIDE DEF opened, closed, begun
  <2>5. CASE out = Outcome(begun, opened)
    <3>1. out.det = begun /\ out.decision = opened
      BY <2>5 DEF Outcome
    <3> QED
      BY <1>1, <1>3, <2>1, <2>3, <2>4, <3>1 DEF Tells
  <2>6. CASE out = Outcome(Ended(e), closed)
    <3>1. out.det = Ended(e) /\ out.decision = closed
      BY <2>6 DEF Outcome
    <3> QED
      BY <1>3, <2>3, <2>4, <3>1 DEF Tells
  <2> QED
    BY <1>1, <2>1, <2>2, <2>5, <2>6
<1>4. CASE d.open # Never
  <2> DEFINE none == Silent(now, e.open)
  <2>1. out \in Continuations(e, now)
    BY <1>0, <1>4
  <2>2. \/ out = Outcome(e, none)
        \/ out = Outcome(e, [none EXCEPT !.updated = TRUE])
        \/ out = Outcome(e, [none EXCEPT !.updated = TRUE, !.positive = TRUE])
        \/ out = Outcome(Ended(e), [none EXCEPT !.updated = TRUE, !.closed = TRUE])
        \/ out = Outcome(Ended(e), [none EXCEPT !.closed = TRUE, !.fenced = TRUE])
    BY <2>1, Zenon DEF Continuations
  <2> DEFINE kept == {none, [none EXCEPT !.updated = TRUE],
                      [none EXCEPT !.updated = TRUE, !.positive = TRUE]}
             over == {[none EXCEPT !.updated = TRUE, !.closed = TRUE],
                      [none EXCEPT !.closed = TRUE, !.fenced = TRUE]}
  <2>3. /\ \A y \in kept : ~y.opened /\ ~y.closed /\ y.event = e.open
        /\ \A y \in over : ~y.opened /\ y.closed /\ y.event = e.open
    BY DEF Silent
  <2>4. \/ out.det = e /\ out.decision \in kept
        \/ out.det = Ended(e) /\ out.decision \in over
    <3> HIDE DEF none
    <3> QED
      BY <2>2 DEF Outcome
  <2>5. Ended(e).open = Never
    BY <1>1 DEF DetectorState, Ended
  <2> HIDE DEF kept, over
  <2> QED
    BY <1>1, <1>4, <2>3, <2>4, <2>5 DEF Tells
<1> QED
  BY <1>0, <1>2, <1>3, <1>4
(* So does a sample at a tick its detector has not evaluated.              *)
LEMMA SampleTells ==
    ASSUME NEW s \in Streams, streams[s].det \in DetectorState,
           NEW tick \in Tick, NEW g \in Generation, NEW out \in SampleOutcomes(s, tick, g),
           ~Repeats(streams[s].det, tick)
    PROVE  /\ out.det \in DetectorState
           /\ out.decision \in Decision
           /\ out.decision.tick = tick
           /\ NamesEpisode(out.decision)
           /\ Tells(out.decision, streams[s].det.open, out.det.open)
           /\ HasEvaluated(out.det, tick)
<1> DEFINE d == streams[s].det
           e == [d EXCEPT !.gen = IF g = Unset THEN @ ELSE g]
           dec == [Silent(tick, d.open) EXCEPT !.closed = TRUE, !.fenced = TRUE]
<1>1. PICK last \in LastDecisions(d) : out \in Samples(d, last, tick, g)
  BY DEF SampleOutcomes
<1>2. /\ e \in DetectorState
      /\ e.eval = d.eval /\ e.open = d.open /\ e.run = d.run
  BY DEF DetectorState, Generation
<1>3. d.open \in When /\ ~Repeats(e, tick)
  BY <1>2 DEF DetectorState, Repeats
<1>4. out \in IF Regenerated(d, g) /\ d.open # Never THEN {Outcome(Ended(e), dec)}
              ELSE Evaluations(e, last, tick)
  BY <1>1 DEF Samples
<1> HIDE DEF e, d
<1>5. CASE Regenerated(d, g) /\ d.open # Never
  <2>1. /\ dec \in Decision /\ dec.tick = tick /\ dec.event = d.open /\ dec.event \in Tick
        /\ ~dec.opened /\ dec.closed
    BY <1>3, <1>5 DEF Silent, Decision, When
  <2>2. out.det = Ended(e) /\ out.decision = dec
    BY <1>4, <1>5 DEF Outcome
  <2>3. Ended(e) \in DetectorState /\ Ended(e).open = Never /\ Ended(e).run = Never
    BY <1>2 DEF Ended, DetectorState, When
  <2> HIDE DEF dec
  <2> QED
    BY <1>5, <2>1, <2>2, <2>3 DEF NamesEpisode, Tells, HasEvaluated, d
<1>6. CASE ~(Regenerated(d, g) /\ d.open # Never)
  <2>1. out \in Afresh(e, tick)
    BY <1>3, <1>4, <1>6 DEF Evaluations
  <2>2. /\ out.det \in DetectorState /\ out.det.eval = tick
        /\ out.decision \in Decision /\ out.decision.tick = tick
        /\ NamesEpisode(out.decision)
    BY <1>2, <2>1, AfreshOutcome
  <2>3. Tells(out.decision, e.open, out.det.open)
    BY <1>2, <2>1, AfreshTells
  <2> QED
    BY <1>2, <2>2, <2>3 DEF HasEvaluated, d
<1> QED
  BY <1>5, <1>6

(* Processing a decision that tells what became of the episode keeps the   *)
(* books.                                                                  *)
LEMMA ProcessedIsBooked ==
    ASSUME TypeOK, Booked, NEW s \in Streams, NEW out, out.decision \in Decision,
           Tells(out.decision, streams[s].det.open, out.det.open), ProcessDecision(s, out)
    PROVE  Booked'
<1> DEFINE dec == out.decision
           old == streams[s].det.open
           new == out.det.open
           event == [stream |-> s, onset |-> dec.event]
<1>1. /\ streams'[s].det.open = new
      /\ \A t \in Streams \ {s} : streams'[t] = streams[t]
  BY DEF ProcessDecision, TypeOK
<1>2. /\ openEvents' = OpenAfter(s, dec)
      /\ outstanding' = outstanding + Count(dec.opened) - Count(dec.closed)
      /\ EventOf(s, dec) = event
  BY DEF ProcessDecision, EventOf
<1>3. IsFiniteSet(OpenStreams(streams)) /\ Cardinality(OpenStreams(streams)) \in Nat
  BY GovernorAssumption, FS_Subset, FS_CardinalityType DEF OpenStreams
<1>4. dec.opened \in BOOLEAN /\ dec.closed \in BOOLEAN /\ dec.updated \in BOOLEAN
  BY DEF Decision
<1>5. openEvents = EventsOf(streams) /\ outstanding = Cardinality(OpenStreams(streams))
  BY DEF Booked
<1>6. /\ Cardinality(OpenStreams(streams) \cup {s}) =
            IF s \in OpenStreams(streams) THEN Cardinality(OpenStreams(streams))
                                          ELSE Cardinality(OpenStreams(streams)) + 1
      /\ Cardinality(OpenStreams(streams) \ {s}) =
            IF s \in OpenStreams(streams) THEN Cardinality(OpenStreams(streams)) - 1
                                          ELSE Cardinality(OpenStreams(streams))
  BY <1>3, FS_AddElement, FS_RemoveElement
<1>7. s \in OpenStreams(streams) <=> old # Never
  BY DEF OpenStreams
<1> HIDE DEF dec, old, new
<1>8. CASE /\ ~dec.opened /\ ~dec.closed /\ new = old
           /\ (dec.updated => old # Never /\ dec.event = old)
  <2>1. OpenStreams(streams') = OpenStreams(streams) /\ EventsOf(streams') = EventsOf(streams)
    BY <1>1, <1>8 DEF OpenStreams, EventsOf, old
  <2>2. dec.updated => event \in openEvents
    BY <1>5, <1>7, <1>8 DEF EventsOf, old
  <2>3. openEvents' = openEvents
    BY <1>2, <1>4, <1>8, <2>2 DEF OpenAfter
  <2>4. outstanding' = outstanding
    BY <1>2, <1>3, <1>5, <1>8 DEF Count
  <2> QED
    BY <1>5, <2>1, <2>3, <2>4 DEF Booked
<1>9. CASE dec.opened /\ ~dec.closed /\ old = Never /\ new # Never /\ dec.event = new
  <2>1. OpenStreams(streams') = OpenStreams(streams) \cup {s}
    BY <1>1, <1>9 DEF OpenStreams
  <2>2. EventsOf(streams') = EventsOf(streams) \cup {event}
    BY <1>1, <1>7, <1>9, <2>1 DEF EventsOf, OpenStreams
  <2>3. openEvents' = openEvents \cup {event}
    BY <1>2, <1>4, <1>9 DEF OpenAfter
  <2>4. outstanding' = Cardinality(OpenStreams(streams'))
    BY <1>2, <1>3, <1>5, <1>6, <1>7, <1>9, <2>1 DEF Count
  <2> QED
    BY <1>5, <2>2, <2>3, <2>4 DEF Booked
<1>10. CASE ~dec.opened /\ dec.closed /\ old # Never /\ dec.event = old /\ new = Never
  <2>1. OpenStreams(streams') = OpenStreams(streams) \ {s}
    BY <1>1, <1>10 DEF OpenStreams
  <2>2. EventsOf(streams') = EventsOf(streams) \ {event}
    BY <1>1, <1>7, <1>10, <2>1 DEF EventsOf, OpenStreams, old
  <2>3. openEvents' = openEvents \ {event}
    BY <1>2, <1>10 DEF OpenAfter
  <2>4. outstanding' = Cardinality(OpenStreams(streams'))
    BY <1>2, <1>3, <1>5, <1>6, <1>7, <1>10, <2>1 DEF Count
  <2> QED
    BY <1>5, <2>2, <2>3, <2>4 DEF Booked
<1>11. CASE dec.opened /\ dec.closed /\ old = Never /\ new = Never
  <2>1. OpenStreams(streams') = OpenStreams(streams) /\ EventsOf(streams') = EventsOf(streams)
    BY <1>1, <1>11 DEF OpenStreams, EventsOf, old
  <2>2. event \notin openEvents
    BY <1>5, <1>7, <1>11 DEF EventsOf
  <2>3. openEvents' = openEvents
    BY <1>2, <1>11, <2>2 DEF OpenAfter
  <2>4. outstanding' = outstanding
    BY <1>2, <1>3, <1>5, <1>11 DEF Count
  <2> QED
    BY <1>5, <2>1, <2>3, <2>4 DEF Booked
<1> QED
  BY <1>8, <1>9, <1>10, <1>11 DEF Tells, dec, old, new
(* Rearming detectors takes the episodes they held off the books.          *)
LEMMA RearmIsBooked ==
    ASSUME TypeOK, Booked, NEW which \in SUBSET Streams, RearmStreams(which)
    PROVE  Booked'
<1> DEFINE fenced == {s \in which : streams[s].det.open # Never}
           gone == {[stream |-> s, onset |-> streams[s].det.open] : s \in fenced}
<1>1. /\ \A s \in which : streams'[s].det.open = Never
      /\ \A s \in Streams \ which : streams'[s] = streams[s]
  <2>1. \A s \in Streams : streams[s] \in Stream /\ streams[s].det \in DetectorState
    BY DEF TypeOK, Stream
  <2>2. streams' = [s \in Streams |->
            IF s \in which THEN [streams[s] EXCEPT !.det = Rearmed(@)] ELSE streams[s]]
    BY DEF RearmStreams
  <2>3. \A s \in Streams : Rearmed(streams[s].det).open = Never
    BY <2>1 DEF DetectorState, Rearmed, Ended
  <2>4. \A s \in which : streams'[s].det = Rearmed(streams[s].det)
    BY <2>1, <2>2 DEF Stream
  <2>5. \A s \in Streams \ which : streams'[s] = streams[s]
    BY <2>2
  <2> QED
    BY <2>3, <2>4, <2>5
<1>2. fenced = OpenStreams(streams) \cap fenced
  BY DEF OpenStreams
<1>3. OpenStreams(streams') = OpenStreams(streams) \ fenced
  BY <1>1 DEF OpenStreams
<1>4. EventsOf(streams') = EventsOf(streams) \ gone
  <2>1. \A s \in OpenStreams(streams') : streams'[s] = streams[s]
    BY <1>1 DEF OpenStreams
  <2>2. EventsOf(streams') =
            {[stream |-> s, onset |-> streams[s].det.open] : s \in OpenStreams(streams')}
    BY <2>1 DEF EventsOf
  <2> HIDE DEF fenced
  <2> QED
    BY <1>3, <2>2 DEF EventsOf
<1>5. openEvents' = openEvents \ gone /\ outstanding' = outstanding - Cardinality(fenced)
  BY DEF RearmStreams
<1>6. IsFiniteSet(OpenStreams(streams))
  BY GovernorAssumption, FS_Subset DEF OpenStreams
<1> HIDE DEF fenced
<1>7. Cardinality(OpenStreams(streams')) = Cardinality(OpenStreams(streams)) - Cardinality(fenced)
  <2>1. Cardinality(OpenStreams(streams) \ fenced)
            = Cardinality(OpenStreams(streams)) - Cardinality(OpenStreams(streams) \cap fenced)
    BY <1>6, FS_Difference
  <2> QED
    BY <1>2, <1>3, <2>1
<1> QED
  BY <1>4, <1>5, <1>7 DEF Booked

(* No decision a stream processed is ahead of the clock: the tick of the   *)
(* advance in progress, or else the last tick.                             *)
Clock == IF sweep.on THEN sweep.now ELSE lastTick

Timely ==
    /\ sweep.on => lastTick <= sweep.now
    /\ \A s \in Streams : streams[s].processed # Never => streams[s].processed <= Clock

(* A detector that holds an episode or an onset run has evaluated, and the *)
(* governor has processed nothing since.                                   *)
Watched(st) ==
    st.det.open # Never \/ st.det.run # Never =>
        st.det.eval # Never /\ st.processed # Never /\ st.processed <= st.det.eval

(* An advance has streams to visit only while it lasts, and only such that *)
(* have not been evaluated at its tick.                                    *)
SweepOrderly ==
    /\ ~sweep.on => sweep.pending = {}
    /\ \A s \in sweep.pending : ~Repeats(streams[s].det, sweep.now)

BooksInv ==
    /\ Booked
    /\ Timely
    /\ \A s \in Streams : Watched(streams[s])
    /\ SweepOrderly

(* The constructor starts with empty books.                                *)
LEMMA BooksInit == Init => BooksInv
<1> SUFFICES ASSUME Init PROVE BooksInv
  OBVIOUS
<1>1. \A s \in Streams : /\ streams[s].det.open = Never /\ streams[s].det.run = Never
                         /\ streams[s].processed = Never
  BY DEF Init, NewStream, NewDetector
<1>2. OpenStreams(streams) = {} /\ EventsOf(streams) = {}
  BY <1>1 DEF OpenStreams, EventsOf
<1>3. Booked
  BY <1>2, FS_EmptySet DEF Init, Booked
<1>4. Timely
  BY <1>1 DEF Init, Timely, NoSweep
<1>5. \A s \in Streams : Watched(streams[s])
  BY <1>1 DEF Watched
<1>6. SweepOrderly
  BY DEF Init, SweepOrderly, NoSweep
<1> QED
  BY <1>3, <1>4, <1>5, <1>6 DEF BooksInv

(* When a stream's ticks advance, its sample is new and has not been       *)
(* evaluated.                                                              *)
LEMMA SampleIsNew ==
    ASSUME IInv, MaxLate = 0, NEW s \in Streams, NEW tick \in Tick, Presents(s, tick)
    PROVE  /\ ~Repeats(streams[s].det, tick)
           /\ \A dec : dec.tick = tick => IsNew(s, dec)
<1> DEFINE done == streams[s].processed
           eval == streams[s].det.eval
<1>1. done \in Past /\ eval \in Past /\ tick \in Past \ {Never}
  BY ProtocolAssumption DEF IInv, WithinHorizon, Presents, Past
<1>2. eval # Never => done # Never /\ ~TickAfter(done, eval)
  BY DEF IInv, DecisionProcessedOnce
<1>3. ~IsNew(s, Silent(tick, Never)) => done - tick < 0
  BY DEF Presents
<1>4. IsNew(s, Silent(tick, Never)) <=> (done # Never => TickAfter(done, tick))
  BY DEF IsNew, Silent
<1> HIDE DEF done, eval
<1>5. done # Never => TickAfter(done, tick)
  <2> SUFFICES ASSUME done # Never, ~TickAfter(done, tick) PROVE FALSE
    OBVIOUS
  <2>1. tick <= done
    BY <1>1, OrderBeforeWrap DEF Past, Tick
  <2> QED
    BY <1>1, <1>3, <1>4, <2>1 DEF Past, Tick
<1>6. eval # Never => TickAfter(eval, tick)
  <2> SUFFICES ASSUME eval # Never PROVE TickAfter(eval, tick)
    OBVIOUS
  <2>1. done \in Past \ {Never} /\ eval \in Past \ {Never}
    BY <1>1, <1>2
  <2>2. eval <= done /\ done < tick
    BY <1>1, <1>2, <1>5, <2>1, OrderBeforeWrap DEF Past, Tick
  <2> QED
    BY <1>1, <2>1, <2>2, OrderBeforeWrap DEF Past, Tick
<1> QED
  BY <1>5, <1>6 DEF Repeats, IsNew, done, eval
(* The steps of ingest(), advance() and a policy change keep the books.    *)
LEMMA IngestBooks ==
    ASSUME IInv, BooksInv, MaxLate = 0, NEW s \in Streams, NEW tick \in Tick,
           NEW g \in Generation, Ingest(s, tick, g)
    PROVE  BooksInv'
<1>0. /\ TypeOK /\ WithinHorizon /\ streams[s].det \in DetectorState
      /\ Booked /\ Timely /\ SweepOrderly /\ \A t \in Streams : Watched(streams[t])
  BY DEF IInv, BooksInv, TypeOK, Stream
<1>1. ~sweep.on /\ sweep' = sweep /\ Presents(s, tick)
  BY DEF Ingest, Unlocked
<1>2. PICK out \in SampleOutcomes(s, tick, g) : IngestProcesses(s, out) \/ IngestSkips(s, out)
  BY DEF Ingest
<1>3. ~Repeats(streams[s].det, tick) /\ \A dec : dec.tick = tick => IsNew(s, dec)
  BY <1>1, SampleIsNew
<1>4. /\ out.decision \in Decision /\ out.decision.tick = tick
      /\ Tells(out.decision, streams[s].det.open, out.det.open)
      /\ HasEvaluated(out.det, tick)
  BY <1>0, <1>3, SampleTells
<1>5. ProcessDecision(s, out) /\ lastTick' = Later(tick)
  BY <1>2, <1>3, <1>4 DEF IngestProcesses, IngestSkips
<1>6. /\ streams'[s].det = out.det /\ streams'[s].processed = tick
      /\ \A t \in Streams \ {s} : streams'[t] = streams[t]
  BY <1>0, <1>4, <1>5 DEF ProcessDecision, TypeOK
<1>7. Booked'
  BY <1>0, <1>4, <1>5, ProcessedIsBooked
<1>8. Timely'
  <2>1. lastTick' >= lastTick /\ lastTick' >= tick /\ lastTick \in Int /\ lastTick' \in Int
    BY <1>0, <1>5 DEF Later, TypeOK, Tick
  <2>2. \A t \in Streams : streams[t].processed # Never =>
            streams[t].processed <= lastTick /\ streams[t].processed \in Int
    BY <1>0, <1>1 DEF Timely, Clock, TypeOK, Stream, When, Tick
  <2>3. tick \in Int
    BY DEF Tick
  <2> QED
    BY <1>1, <1>6, <2>1, <2>2, <2>3 DEF Timely, Clock
<1>9. \A t \in Streams : Watched(streams'[t])
  <2>1. Watched(streams'[s])
    BY <1>4, <1>6, ProtocolAssumption DEF Watched, HasEvaluated, Tick
  <2> QED
    BY <1>0, <1>6, <2>1
<1>10. SweepOrderly'
  BY <1>0, <1>1 DEF SweepOrderly
<1> QED
  BY <1>7, <1>8, <1>9, <1>10 DEF BooksInv, Watched

(* An advance skips no stream that holds an episode or an onset run.       *)
LEMMA VisitBooks ==
    ASSUME IInv, BooksInv, NEW s \in Streams, VisitStream(s)
    PROVE  BooksInv'
<1> DEFINE now == sweep.now
           d == streams[s].det
           done == streams[s].processed
<1>0. /\ TypeOK /\ WithinHorizon /\ d \in DetectorState
      /\ Booked /\ Timely /\ SweepOrderly /\ \A t \in Streams : Watched(streams[t])
  BY DEF IInv, BooksInv, TypeOK, Stream
<1>1. /\ sweep.on /\ s \in sweep.pending /\ lastTick' = lastTick
      /\ sweep' = [sweep EXCEPT !.pending = @ \ {s}]
  BY DEF VisitStream
<1>2. /\ sweep'.on /\ sweep'.now = now /\ sweep'.pending = sweep.pending \ {s}
      /\ sweep.pending \subseteq Streams
  BY <1>0, <1>1 DEF TypeOK
<1>3. now \in Tick /\ now \in Past \ {Never} /\ done \in Past /\ d.eval \in Past
  BY <1>0, ProtocolAssumption DEF TypeOK, WithinHorizon
<1>4. PICK out \in Afresh(d, now) :
          \/ IsNew(s, out.decision) /\ ProcessDecision(s, out)
          \/ ~IsNew(s, out.decision) /\ SkipDecision(s, out)
  BY DEF VisitStream
<1>5. /\ out.decision \in Decision /\ out.decision.tick = now /\ out.det.eval = now
      /\ Tells(out.decision, d.open, out.det.open)
      /\ d.open = Never /\ d.run = Never => out.det.open = Never
  BY <1>0, <1>3, <1>4, AfreshOutcome, AfreshTells
<1>6. /\ streams'[s].det = out.det
      /\ streams'[s].processed \in {now, done}
      /\ \A t \in Streams \ {s} : streams'[t] = streams[t]
  BY <1>0, <1>4, <1>5 DEF ProcessDecision, SkipDecision, TypeOK, Stream
<1>7. done # Never => done \in Int /\ done <= now
  BY <1>0, <1>1, <1>3 DEF Timely, Clock, Past, Tick
<1>8. now \in Int /\ now # Never
  BY <1>3 DEF Tick
<1> HIDE DEF now, d, done
<1>9. ASSUME ~IsNew(s, out.decision) PROVE d.open = Never /\ d.run = Never /\ done # Never
  <2>1. done # Never /\ ~TickAfter(done, now)
    BY <1>5, <1>9 DEF IsNew, done
  <2>2. now <= done
    BY <1>3, <2>1, OrderBeforeWrap DEF Past, Tick
  <2>3. d.eval # Never => TickAfter(d.eval, now)
    BY <1>0, <1>1 DEF SweepOrderly, Repeats, d, now
  <2>4. d.eval # Never => d.eval < now /\ d.eval \in Int
    BY <1>3, <2>3, OrderBeforeWrap DEF Past, Tick
  <2>5. d.open # Never \/ d.run # Never => d.eval # Never /\ done <= d.eval
    BY <1>0 DEF Watched, d, done
  <2> QED
    BY <1>7, <1>8, <2>1, <2>2, <2>4, <2>5
<1>10. Booked'
  <2>1. CASE IsNew(s, out.decision) /\ ProcessDecision(s, out)
    BY <1>0, <1>5, <2>1, ProcessedIsBooked DEF d
  <2>2. CASE ~IsNew(s, out.decision) /\ SkipDecision(s, out)
    <3>1. d.open = Never /\ out.det.open = Never
      BY <1>5, <1>9, <2>2
    <3>2. OpenStreams(streams') = OpenStreams(streams)
      BY <1>6, <3>1 DEF OpenStreams, d
    <3>3. EventsOf(streams') = EventsOf(streams)
      BY <1>6, <3>1, <3>2 DEF EventsOf, OpenStreams, d
    <3>4. UNCHANGED << openEvents, outstanding >>
      BY <2>2 DEF SkipDecision
    <3> QED
      BY <1>0, <3>2, <3>3, <3>4 DEF Booked
  <2> QED
    BY <1>4, <2>1, <2>2
<1>11. Timely'
  <2>1. streams'[s].processed # Never => streams'[s].processed <= now
    BY <1>6, <1>7, <1>8
  <2> QED
    BY <1>0, <1>1, <1>2, <1>6, <2>1 DEF Timely, Clock, now
<1>12. \A t \in Streams : Watched(streams'[t])
  <2>1. Watched(streams'[s])
    <3>1. CASE IsNew(s, out.decision) /\ ProcessDecision(s, out)
      <4>1. streams'[s].processed = now
        BY <1>0, <1>5, <3>1 DEF ProcessDecision, TypeOK
      <4> QED
        BY <1>5, <1>6, <1>8, <4>1 DEF Watched
    <3>2. CASE ~IsNew(s, out.decision) /\ SkipDecision(s, out)
      <4>1. done # Never
        BY <1>9, <3>2
      <4> QED
        BY <1>5, <1>6, <1>7, <1>8, <4>1 DEF Watched
    <3> QED
      BY <1>4, <3>1, <3>2
  <2> QED
    BY <1>0, <1>6, <2>1
<1>13. SweepOrderly'
  BY <1>0, <1>2, <1>6 DEF SweepOrderly, now
<1> QED
  BY <1>10, <1>11, <1>12, <1>13 DEF BooksInv, Watched

(* A policy change takes fenced episodes off the books.                    *)
LEMMA PolicyBooks ==
    ASSUME IInv, BooksInv, NEW set, NEW which \in SUBSET known, ChangePolicies(set, which)
    PROVE  BooksInv'
<1>0. /\ TypeOK /\ which \subseteq Streams
      /\ Booked /\ Timely /\ SweepOrderly /\ \A t \in Streams : Watched(streams[t])
  BY DEF IInv, BooksInv, TypeOK
<1>1. RearmStreams(which) /\ ~sweep.on /\ UNCHANGED << lastTick, sweep >>
  BY DEF ChangePolicies, Unlocked
<1>2. \A s \in Streams : streams[s] \in Stream /\ streams[s].det \in DetectorState
  BY <1>0 DEF TypeOK, Stream
<1>3. streams' = [s \in Streams |->
          IF s \in which THEN [streams[s] EXCEPT !.det = Rearmed(@)] ELSE streams[s]]
  BY <1>1 DEF RearmStreams
<1>4. Booked'
  BY <1>0, <1>1, RearmIsBooked
<1>5. \A s \in Streams : streams'[s].processed = streams[s].processed
  BY <1>2, <1>3 DEF Stream
<1>6. Timely'
  BY <1>0, <1>1, <1>5 DEF Timely, Clock
<1>7. \A s \in Streams : Watched(streams'[s])
  <2>1. \A s \in Streams : LET d == Rearmed(streams[s].det) IN d.open = Never /\ d.run = Never
    BY <1>2 DEF DetectorState, Rearmed, Ended
  <2>2. \A s \in which : streams'[s].det = Rearmed(streams[s].det)
    BY <1>0, <1>2, <1>3 DEF Stream
  <2>3. \A s \in Streams \ which : streams'[s] = streams[s]
    BY <1>3
  <2> QED
    BY <1>0, <2>1, <2>2, <2>3 DEF Watched
<1>8. SweepOrderly'
  BY <1>0, <1>1 DEF SweepOrderly
<1> QED
  BY <1>4, <1>6, <1>7, <1>8 DEF BooksInv, Watched

(* Every step keeps the books where ticks advance.                         *)
LEMMA BooksStep == MaxLate = 0 /\ IInv /\ BooksInv /\ [Next]_vars => BooksInv'
<1> SUFFICES ASSUME MaxLate = 0, IInv, BooksInv, [Next]_vars PROVE BooksInv'
  OBVIOUS
<1>0. /\ TypeOK /\ WithinHorizon
      /\ Booked /\ Timely /\ SweepOrderly /\ \A t \in Streams : Watched(streams[t])
  BY DEF IInv, BooksInv
<1>1. ASSUME UNCHANGED << streams, openEvents, outstanding, lastTick, sweep >> PROVE BooksInv'
  BY <1>0, <1>1
  DEF BooksInv, Booked, OpenStreams, EventsOf, Timely, Clock, Watched, SweepOrderly
<1>2. ASSUME NEW set, NEW which \in SUBSET known, ChangePolicies(set, which) PROVE BooksInv'
  BY <1>2, PolicyBooks
<1>3. ASSUME NEW s \in Streams, NEW tick \in Tick, NEW g \in Generation, Ingest(s, tick, g)
      PROVE  BooksInv'
  BY <1>3, IngestBooks
<1>4. ASSUME NEW s \in Streams, VisitStream(s) PROVE BooksInv'
  BY <1>4, VisitBooks
<1>5. ASSUME NEW now \in Tick, BeginAdvance(now) PROVE BooksInv'
  <2>1. /\ now >= lastTick /\ ~sweep.on
        /\ sweep' = [on |-> TRUE, now |-> now,
                     pending |-> {s \in known : ~Repeats(streams[s].det, now)}]
        /\ UNCHANGED << streams, openEvents, outstanding, lastTick >>
    BY <1>0, <1>5 DEF BeginAdvance, Unlocked, TypeOK, Tick
  <2>2. \A s \in Streams : streams[s].processed # Never => streams[s].processed <= now
    BY <1>0, <2>1 DEF Timely, Clock, TypeOK, Stream, When, Tick
  <2>3. Timely'
    BY <2>1, <2>2 DEF Timely, Clock
  <2> QED
    BY <1>0, <2>1, <2>3 DEF BooksInv, Booked, OpenStreams, EventsOf, Watched, SweepOrderly
<1>6. ASSUME FinishAdvance PROVE BooksInv'
  <2>1. /\ sweep.on /\ sweep' = NoSweep /\ lastTick' = Later(sweep.now)
        /\ UNCHANGED << streams, openEvents, outstanding >>
    BY <1>6 DEF FinishAdvance
  <2>2. lastTick' = sweep.now
    BY <1>0, <2>1 DEF Timely, Later, TypeOK, Tick
  <2>3. Timely'
    BY <1>0, <2>1, <2>2 DEF Timely, Clock, NoSweep
  <2> QED
    BY <1>0, <2>1, <2>3
    DEF BooksInv, Booked, OpenStreams, EventsOf, Watched, SweepOrderly, NoSweep
<1>7. ASSUME NEW p \in Policies, InstallPolicy(p) PROVE BooksInv'
  BY <1>2, <1>7 DEF InstallPolicy
<1>8. ASSUME NEW r \in Resources, NEW p \in Policies, SetResourcePolicy(r, p) PROVE BooksInv'
  <2>1. {s \in known : ResourceOf[s] = r} \in SUBSET known
    OBVIOUS
  <2> QED
    BY <1>2, <1>8, <2>1 DEF SetResourcePolicy
<1>9. ASSUME NEW r \in Resources, RemoveResourcePolicy(r) PROVE BooksInv'
  BY <1>2, <1>9 DEF RemoveResourcePolicy
<1>10. ASSUME NEW e \in Epochs, NEW i \in Incarnations \cup {Unset},
              NEW b \in Boots \cup {Unset}, BindAuthority(e, i, b)
       PROVE  BooksInv'
  BY <1>1, <1>10 DEF BindAuthority, evidence
<1>11. ASSUME NEW r \in Resources, NEW g \in Generation, SetResourceGeneration(r, g)
       PROVE  BooksInv'
  BY <1>1, <1>11 DEF SetResourceGeneration, evidence
<1>12. ASSUME NEW on \in BOOLEAN, SetInterventionsEnabled(on) PROVE BooksInv'
  BY <1>1, <1>12 DEF SetInterventionsEnabled, evidence
<1>13. ASSUME UNCHANGED vars PROVE BooksInv'
  BY <1>1, <1>13 DEF vars
<1> QED
  BY <1>3, <1>4, <1>5, <1>6, <1>7, <1>8, <1>9, <1>10, <1>11, <1>12, <1>13 DEF Next

(* An episode on the books is counted once.                                *)
LEMMA EventsAreCounted ==
    Cardinality(EventsOf(streams)) = Cardinality(OpenStreams(streams))
<1> DEFINE S == OpenStreams(streams)
           T == EventsOf(streams)
           f == [s \in S |-> [stream |-> s, onset |-> streams[s].det.open]]
<1>1. IsFiniteSet(S)
  BY GovernorAssumption, FS_Subset DEF OpenStreams
<1>2. f \in Surjection(S, T)
  BY DEF EventsOf, Surjection
<1>3. f \in Injection(S, T)
  <2>1. \A s \in S : f[s].stream = s
    OBVIOUS
  <2>2. f \in [S -> T]
    BY DEF EventsOf
  <2> HIDE DEF f
  <2> QED
    BY <2>1, <2>2 DEF Injection, IsInjective
<1> HIDE DEF S, T, f
<1> QED
  BY <1>1, <1>2, <1>3, FS_Surjection DEF S, T

(* Where each stream's ticks advance, the open episodes of the governor    *)
(* are those of its detectors and are counted right, whatever streams,     *)
(* policies, fences and interleaved advances there are.                    *)
THEOREM BooksAreRight == ASSUME MaxLate = 0 PROVE Spec => []EpisodesAccounted
<1>1. BooksInv => EpisodesAccounted
  BY EventsAreCounted DEF BooksInv, Booked, EventsOf, OpenStreams, EpisodesAccounted
<1>2. IInv /\ BooksInv /\ [Next]_vars => BooksInv'
  BY BooksStep
<1> QED
  BY <1>1, <1>2, BooksInit, Invariance, PTL DEF Spec
=============================================================================
