------------------------------ MODULE Governor ------------------------------
(***************************************************************************)
(* The governor: streams and their detectors, the episodes it holds open,  *)
(* the intervention intents in force and the authority they rest on.       *)
(*                                                                         *)
(* Every public call runs under one mutex, so a call is one step, except   *)
(* advance(): its loop over the streams is one step per stream, with the   *)
(* mutex held in between (sweep.on).  A detector is what EpisodeProtocol   *)
(* says of it.  Severity magnitudes, statistics, emissions and the durable *)
(* journal are left out.                                                   *)
(***************************************************************************)
EXTENDS Episodes, FiniteSets

CONSTANTS
    Streams,            \* stream keys, numbered in the order of std::map
    Resources,
    ResourceOf,         \* the resource of each stream
    Kinds,              \* intervention kinds, numbered in enumeration order
    Severities,         \* severity classes, numbered in their order
    Policies,           \* the intervention part of validated policies
    NoPolicy,           \* no override
    Epochs, Incarnations, Boots,
    MaxStreams,         \* kMaxStreams
    Horizon,            \* last tick the environment presents, before any wrap
    MaxLate,            \* how far a stream's sample may lie at or before its last
    MaxPolicyGeneration

KindLimit == [enabled : BOOLEAN, severity : Severities, ttl : Nat \ {0}]

Policy == [kinds : [Kinds -> KindLimit], authoritative : BOOLEAN,
           perStream : Nat \ {0}, total : Nat \ {0}]

ASSUME GovernorAssumption ==
    /\ Streams \subseteq Nat /\ Kinds \subseteq Nat /\ Severities \subseteq Nat
    /\ IsFiniteSet(Streams)
    /\ ResourceOf \in [Streams -> Resources]
    /\ Policies \subseteq Policy /\ Policies # {} /\ NoPolicy \notin Policies
    /\ \A p \in Policies : p.perStream <= p.total
    /\ Unset \notin Epochs \cup Incarnations \cup Boots
    /\ MaxStreams \in Nat /\ MaxLate \in Nat
    /\ Horizon \in Nat /\ 2 * Horizon < TickModulus
    /\ MaxPolicyGeneration \in Nat

Event == [stream : Streams, onset : Tick]

Context == [policy : Nat, epoch : Epochs, incarnation : Incarnations \cup {Unset},
            boot : Boots \cup {Unset}]

(* authority is what the intent was issued under.                          *)
Intent == [event : Event, kind : Kinds, authority : Context, resGen : Generation,
           issued : Tick, expiry : Tick]

(* The identity of an intent is a hash of these three.                     *)
Id(i) == << i.event, i.kind, i.issued >>

Stream == [det : DetectorState, processed : When]

VARIABLES
    policies,       \* policies_: fallback, overrides, generation
    context,        \* context_
    resGen,         \* resource_generations_
    enabled,        \* config_.enable_interventions
    known,          \* the keys of streams_
    streams,        \* streams_: detector, last_processed
    openEvents,     \* the keys of open_events_
    outstanding,    \* episodes opened less episodes closed and fenced, as counted
    live,           \* interventions_
    lastTick,       \* last_tick_
    sweep,          \* the loop of advance(): its tick, the streams still to visit
    asOf            \* history: the tick of the last full authority refresh

vars == << policies, context, resGen, enabled, known, streams, openEvents,
            outstanding, live, lastTick, sweep, asOf >>

evidence == << known, streams, outstanding, lastTick, sweep >>

NewStream == [det |-> NewDetector, processed |-> Never]
NoSweep   == [on |-> FALSE, now |-> 0, pending |-> {}]

(* The constructor: policy generation 1 belongs to the built-in defaults.  *)
Init ==
    /\ \E p \in Policies :
          policies = [fallback |-> p, overrides |-> [r \in Resources |-> NoPolicy],
                      generation |-> 2]
    /\ context \in [policy : {2}, epoch : Epochs, incarnation : Incarnations \cup {Unset},
                    boot : Boots \cup {Unset}]
    /\ resGen = [r \in Resources |-> Unset]
    /\ enabled \in BOOLEAN
    /\ known = {}
    /\ streams = [s \in Streams |-> NewStream]
    /\ openEvents = {}
    /\ outstanding = 0
    /\ live = {}
    /\ lastTick = 0
    /\ sweep = NoSweep
    /\ asOf = 0

Unlocked == ~sweep.on

-----------------------------------------------------------------------------
(* Authority.                                                              *)

(* An unset identity on either side is not compared.                       *)
Agree(a, b) == a = Unset \/ b = Unset \/ a = b

(* evaluate_authority() and the episode check: the verdict is kValid.      *)
InForce(i, ctx, gens, open, now) ==
    /\ ~TickAfter(now, i.issued)
    /\ Agree(i.authority.boot, ctx.boot)
    /\ Agree(i.authority.incarnation, ctx.incarnation)
    /\ Agree(i.authority.epoch, ctx.epoch)
    /\ i.authority.policy = ctx.policy
    /\ Agree(gens[ResourceOf[i.event.stream]], i.resGen)
    /\ TickAfter(now, i.expiry)
    /\ i.event \in open

(* refresh_authority_locked() over every intent, in the state a call       *)
(* leaves.  Mutant: in the state it found.                                 *)
RefreshAuthorityBefore(intents, now) ==
    /\ live' = {i \in intents : InForce(i, context, resGen, openEvents', now)}
    /\ asOf' = now

RefreshAuthority(intents, now) ==
    /\ live' = {i \in intents : InForce(i, context', resGen', openEvents', now)}
    /\ asOf' = now

-----------------------------------------------------------------------------
(* Policies.                                                               *)

Resolve(set, r) == IF set.overrides[r] = NoPolicy THEN set.fallback ELSE set.overrides[r]

(* A policy change rearms the detectors of some streams at the last tick;  *)
(* each open episode is fenced, erased and recorded.  Mutant: the books    *)
(* still hold it open.                                                     *)
RearmStreamsQuietly(which) ==
    /\ streams' = [s \in Streams |->
          IF s \in which THEN [streams[s] EXCEPT !.det = Rearmed(@)] ELSE streams[s]]
    /\ UNCHANGED << openEvents, outstanding >>

RearmStreams(which) ==
    LET fenced == {s \in which : streams[s].det.open # Never}
    IN  /\ streams' = [s \in Streams |->
              IF s \in which THEN [streams[s] EXCEPT !.det = Rearmed(@)] ELSE streams[s]]
        /\ openEvents' = openEvents \
              {[stream |-> s, onset |-> streams[s].det.open] : s \in fenced}
        /\ outstanding' = outstanding - Cardinality(fenced)

ChangePolicies(set, which) ==
    /\ Unlocked
    /\ policies.generation < MaxPolicyGeneration
    /\ policies' = [set EXCEPT !.generation = policies.generation + 1]
    /\ context' = [context EXCEPT !.policy = policies.generation + 1]
    /\ RearmStreams(which)
    /\ UNCHANGED << resGen, enabled, known, lastTick, sweep >>
    /\ RefreshAuthority(live, lastTick)

InstallPolicy(p) == ChangePolicies([policies EXCEPT !.fallback = p], known)

SetResourcePolicy(r, p) ==
    ChangePolicies([policies EXCEPT !.overrides[r] = p],
                   {s \in known : ResourceOf[s] = r})

(* Removing an override rearms no detector.                                *)
RemoveResourcePolicy(r) ==
    /\ policies.overrides[r] # NoPolicy
    /\ ChangePolicies([policies EXCEPT !.overrides[r] = NoPolicy], {})

-----------------------------------------------------------------------------
(* Authority changes.                                                      *)

BindAuthority(epoch, incarnation, boot) ==
    /\ Unlocked
    /\ context' = [context EXCEPT !.epoch = epoch, !.incarnation = incarnation,
                                  !.boot = boot]
    /\ UNCHANGED << policies, resGen, enabled, openEvents, evidence >>
    /\ RefreshAuthority(live, lastTick)

SetResourceGeneration(r, g) ==
    /\ Unlocked
    /\ resGen' = [resGen EXCEPT ![r] = g]
    /\ UNCHANGED << policies, context, enabled, openEvents, evidence >>
    /\ RefreshAuthority(live, lastTick)

(* Mutant: disabling only keeps new intents from being issued.             *)
SetInterventionsEnabledLater(on) ==
    /\ Unlocked
    /\ enabled' = on
    /\ UNCHANGED << policies, context, resGen, openEvents, evidence, live, asOf >>

SetInterventionsEnabled(on) ==
    /\ Unlocked
    /\ enabled' = on
    /\ live' = IF enabled /\ ~on THEN {} ELSE live
    /\ UNCHANGED << policies, context, resGen, openEvents, evidence, asOf >>

-----------------------------------------------------------------------------
(* Decisions.                                                              *)

EventOf(s, dec) == [stream |-> s, onset |-> dec.event]

(* Only a decision after the last one processed is processed.  Mutant: a   *)
(* decision of the same tick is, too.                                      *)
IsNewOrSame(s, dec) ==
    streams[s].processed # Never => ~TickAfter(dec.tick, streams[s].processed)

IsNew(s, dec) ==
    streams[s].processed # Never => TickAfter(streams[s].processed, dec.tick)

(* Mutant: every decision that does not close an episode is recorded.      *)
OpenAfterAny(s, dec) == IF dec.closed THEN openEvents \ {EventOf(s, dec)}
                                      ELSE openEvents \cup {EventOf(s, dec)}

OpenAfter(s, dec) ==
    CASE dec.closed -> openEvents \ {EventOf(s, dec)}
      [] ~dec.closed /\ (dec.opened \/ dec.updated) -> openEvents \cup {EventOf(s, dec)}
      [] OTHER -> openEvents

Count(b) == IF b THEN 1 ELSE 0

(* A closing episode revokes its own intents at that instant.              *)
LiveAfterClose(s, dec, now) ==
    IF dec.closed
    THEN {i \in live : i.event = EventOf(s, dec) =>
                            InForce(i, context, resGen', openEvents', now)}
    ELSE live

(* The evidence of a positive decision: how severe, how authoritative.     *)
Grade == [severity : Severities, degraded : BOOLEAN]

Wanted(p, grade) ==
    {k \in Kinds : /\ p.kinds[k].enabled
                   /\ grade.severity >= p.kinds[k].severity
                   /\ p.authoritative => ~grade.degraded}

OfStream(intents, s) == {i \in intents : i.event.stream = s}

(* New intents are granted in the order of the kinds while both the        *)
(* stream and the governor have room.  Mutants: the limits are off by one; *)
(* a kind the episode holds is granted again.                              *)
GrantedOneTooMany(p, wanted, intents, s, e) ==
    LET new == wanted \ {i.kind : i \in {j \in intents : j.event = e}}
        before(k) == Cardinality({j \in new : j < k})
    IN  {k \in new : /\ Cardinality(OfStream(intents, s)) + before(k) <= p.perStream
                     /\ Cardinality(intents) + before(k) <= p.total}

GrantedAgain(p, wanted, intents, s, e) ==
    {k \in wanted : /\ Cardinality(OfStream(intents, s)) < p.perStream
                    /\ Cardinality(intents) < p.total}

Granted(p, wanted, intents, s, e) ==
    LET new == wanted \ {i.kind : i \in {j \in intents : j.event = e}}
        before(k) == Cardinality({j \in new : j < k})
    IN  {k \in new : /\ Cardinality(OfStream(intents, s)) + before(k) < p.perStream
                     /\ Cardinality(intents) + before(k) < p.total}

(* An intent of the same episode and kind is refreshed, not repeated.      *)
(* Mutant: each refresh adds a time to live to what was left.              *)
RequestedExtends(s, e, grade, intents, now) ==
    LET p      == Resolve(policies, ResourceOf[s])
        wanted == Wanted(p, grade)
        until(from, k) == AddTicksSaturating(from, p.kinds[k].ttl)
    IN  {IF i.event = e /\ i.kind \in wanted
         THEN [i EXCEPT !.expiry = until(@, i.kind)] ELSE i : i \in intents}
        \cup
        {[event |-> e, kind |-> k, authority |-> context,
          resGen |-> resGen'[ResourceOf[s]], issued |-> now, expiry |-> until(now, k)] :
              k \in Granted(p, wanted, intents, s, e)}

Requested(s, e, grade, intents, now) ==
    LET p      == Resolve(policies, ResourceOf[s])
        wanted == Wanted(p, grade)
        until(k) == AddTicksSaturating(now, p.kinds[k].ttl)
    IN  {IF i.event = e /\ i.kind \in wanted THEN [i EXCEPT !.expiry = until(i.kind)]
                                            ELSE i : i \in intents}
        \cup
        {[event |-> e, kind |-> k, authority |-> context,
          resGen |-> resGen'[ResourceOf[s]], issued |-> now, expiry |-> until(k)] :
              k \in Granted(p, wanted, intents, s, e)}

LiveAfterDecision(s, dec, grade, now) ==
    IF dec.positive /\ enabled
    THEN Requested(s, EventOf(s, dec), grade, LiveAfterClose(s, dec, now), now)
    ELSE LiveAfterClose(s, dec, now)

(* process_decision_locked(), but for the intents.  Mutant: that it was    *)
(* processed is not remembered.                                            *)
ProcessDecisionForgets(s, out) ==
    /\ streams' = [streams EXCEPT ![s].det = out.det]
    /\ openEvents' = OpenAfter(s, out.decision)
    /\ outstanding' = outstanding + Count(out.decision.opened) - Count(out.decision.closed)

ProcessDecision(s, out) ==
    /\ streams' = [streams EXCEPT ![s] = [det |-> out.det, processed |-> out.decision.tick]]
    /\ openEvents' = OpenAfter(s, out.decision)
    /\ outstanding' = outstanding + Count(out.decision.opened) - Count(out.decision.closed)

SkipDecision(s, out) ==
    /\ streams' = [streams EXCEPT ![s].det = out.det]
    /\ UNCHANGED << openEvents, outstanding >>

Later(t) == IF t > lastTick THEN t ELSE lastTick

-----------------------------------------------------------------------------
(* ingest().                                                               *)

(* What a detector may hold of its last evaluation.                        *)
LastDecisions(d) ==
    IF d.eval = Never THEN {Silent(0, Never)}
    ELSE [tick : {d.eval}, event : {d.open}, opened : {FALSE}, updated : {TRUE},
          closed : BOOLEAN, fenced : {FALSE}, positive : BOOLEAN]

Presents(s, tick) ==
    /\ tick <= Horizon
    /\ ~IsNew(s, Silent(tick, Never)) => streams[s].processed - tick < MaxLate

SampleOutcomes(s, tick, g) ==
    UNION {Samples(streams[s].det, last, tick, g) : last \in LastDecisions(streams[s].det)}

IngestProcesses(s, out) ==
    /\ IsNew(s, out.decision)
    /\ ProcessDecision(s, out)
    /\ lastTick' = Later(out.decision.tick)
    /\ \E grade \in Grade :
          RefreshAuthority(LiveAfterDecision(s, out.decision, grade, out.decision.tick),
                           out.decision.tick)

IngestSkips(s, out) ==
    /\ ~IsNew(s, out.decision)
    /\ SkipDecision(s, out)
    /\ UNCHANGED lastTick
    /\ RefreshAuthority(live, out.decision.tick)

(* A new stream is configured on its first sample, unless there are too    *)
(* many; its resource generation is noted before the detector sees it.     *)
Ingest(s, tick, g) ==
    /\ Unlocked
    /\ Presents(s, tick)
    /\ s \in known \/ Cardinality(known) < MaxStreams
    /\ known' = known \cup {s}
    /\ resGen' = IF g = Unset THEN resGen ELSE [resGen EXCEPT ![ResourceOf[s]] = g]
    /\ UNCHANGED << policies, context, enabled, sweep >>
    /\ \E out \in SampleOutcomes(s, tick, g) :
          IngestProcesses(s, out) \/ IngestSkips(s, out)

-----------------------------------------------------------------------------
(* advance().                                                              *)

BeginAdvance(now) ==
    /\ Unlocked
    /\ now <= Horizon /\ now + MaxLate >= lastTick
    /\ sweep' = [on |-> TRUE, now |-> now,
                 pending |-> {s \in known : ~Repeats(streams[s].det, now)}]
    /\ UNCHANGED << policies, context, resGen, enabled, known, streams, openEvents,
                    outstanding, live, lastTick, asOf >>

(* The streams are visited in the order of their keys.                     *)
VisitStream(s) ==
    /\ sweep.on /\ s \in sweep.pending
    /\ \A t \in sweep.pending : s <= t
    /\ sweep' = [sweep EXCEPT !.pending = @ \ {s}]
    /\ UNCHANGED << policies, context, resGen, enabled, known, lastTick, asOf >>
    /\ \E out \in Afresh(streams[s].det, sweep.now) :
          \/ /\ IsNew(s, out.decision)
             /\ ProcessDecision(s, out)
             /\ \E grade \in Grade :
                   live' = LiveAfterDecision(s, out.decision, grade, sweep.now)
          \/ /\ ~IsNew(s, out.decision)
             /\ SkipDecision(s, out)
             /\ UNCHANGED live

(* Mutant: advance() expires nothing.                                      *)
FinishAdvanceOnly ==
    /\ sweep.on /\ sweep.pending = {}
    /\ sweep' = NoSweep
    /\ lastTick' = Later(sweep.now)
    /\ asOf' = sweep.now
    /\ UNCHANGED << policies, context, resGen, enabled, known, streams, openEvents,
                    outstanding, live >>

FinishAdvance ==
    /\ sweep.on /\ sweep.pending = {}
    /\ sweep' = NoSweep
    /\ lastTick' = Later(sweep.now)
    /\ UNCHANGED << policies, context, resGen, enabled, known, streams, openEvents,
                    outstanding >>
    /\ RefreshAuthority(live, sweep.now)

-----------------------------------------------------------------------------
Next ==
    \/ \E p \in Policies : InstallPolicy(p)
    \/ \E r \in Resources, p \in Policies : SetResourcePolicy(r, p)
    \/ \E r \in Resources : RemoveResourcePolicy(r)
    \/ \E e \in Epochs, i \in Incarnations \cup {Unset}, b \in Boots \cup {Unset} :
          BindAuthority(e, i, b)
    \/ \E r \in Resources, g \in Generation : SetResourceGeneration(r, g)
    \/ \E on \in BOOLEAN : SetInterventionsEnabled(on)
    \/ \E s \in Streams, tick \in Tick, g \in Generation : Ingest(s, tick, g)
    \/ \E now \in Tick : BeginAdvance(now)
    \/ \E s \in Streams : VisitStream(s)
    \/ FinishAdvance

Spec == Init /\ [][Next]_vars

-----------------------------------------------------------------------------
(* Properties.                                                             *)

(* Every variable stays in its range; a decision is only processed for a   *)
(* stream that exists.                                                     *)
TypeOK ==
    /\ policies \in [fallback : Policies, overrides : [Resources -> Policies \cup {NoPolicy}],
                     generation : Nat]
    /\ context \in Context
    /\ resGen \in [Resources -> Generation]
    /\ enabled \in BOOLEAN
    /\ known \subseteq Streams
    /\ streams \in [Streams -> Stream]
    /\ \A s \in Streams \ known : streams[s] = NewStream
    /\ openEvents \subseteq Event
    /\ outstanding \in Int
    /\ live \subseteq Intent
    /\ lastTick \in Tick
    /\ sweep \in [on : BOOLEAN, now : Tick, pending : SUBSET known]
    /\ asOf \in Tick

(* No intent silently survives a stale authority: whenever no call is in   *)
(* progress, every live intent is in force under the policy, epoch,        *)
(* incarnation, boot and resource generation of the moment, is not expired *)
(* at the last refresh, and belongs to an episode the governor holds open. *)
AuthoritySound ==
    Unlocked => \A i \in live : InForce(i, context, resGen, openEvents, asOf)

(* The operator's mandate: no intent is live while interventions are       *)
(* disabled, not even in the middle of an advance.                         *)
MandateRequired == enabled \/ live = {}

(* Intents stay within the concurrency limits of the policies in force,    *)
(* whichever streams and policy changes they were requested through.       *)
ConcurrencyBounded ==
    /\ \A s \in Streams :
          Cardinality(OfStream(live, s)) <= Resolve(policies, ResourceOf[s]).perStream
    /\ live # {} => \E r \in Resources : Cardinality(live) <= Resolve(policies, r).total

(* One episode never holds two live intents of the same kind.              *)
OneIntentPerKind ==
    \A i, j \in live : (i.event = j.event /\ i.kind = j.kind) => i = j

(* An intent lives at most its time to live past the last decision of its  *)
(* stream that was processed, and was not issued after it.                 *)
ExpiryBounded ==
    \A i \in live :
        LET s == i.event.stream
        IN  /\ streams[s].processed # Never
            /\ ~TickAfter(streams[s].processed, i.issued)
            /\ i.expiry <= streams[s].processed
                              + Resolve(policies, ResourceOf[s]).kinds[i.kind].ttl

(* A decision is processed at most once: the last one a detector holds has *)
(* always been dealt with, so returning it again has no effect.            *)
DecisionProcessedOnce ==
    \A s \in Streams : streams[s].det.eval # Never =>
        /\ streams[s].processed # Never
        /\ ~TickAfter(streams[s].processed, streams[s].det.eval)

(* An identity is issued once: a new intent is issued after every decision *)
(* its stream has processed, so no retired identity comes back.            *)
IdentityIssuedOnce ==
    [][\A j \in live' : Id(j) \notin {Id(i) : i \in live} =>
          LET p == streams[j.event.stream].processed
          IN  p # Never => TickAfter(p, j.issued)]_vars

(* When each stream's ticks advance, the governor's open episodes are      *)
(* those of its detectors and none is counted twice or lost, through every *)
(* rearm, fence and close.                                                 *)
EpisodesAccounted ==
    /\ openEvents = {[stream |-> s, onset |-> streams[s].det.open] :
                         s \in {t \in Streams : streams[t].det.open # Never}}
    /\ outstanding = Cardinality(openEvents)

(* Claimed: a revoked or expired intent is never silently resurrected, so  *)
(* an intent is not refreshed at a tick at which it has expired.           *)
ExpiredStaysExpired ==
    [][\A i \in live, j \in live' :
          (Id(i) = Id(j) /\ i.expiry # j.expiry) =>
              TickAfter(streams'[i.event.stream].processed, i.expiry)]_vars
=============================================================================
