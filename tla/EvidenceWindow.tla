--------------------------- MODULE EvidenceWindow ---------------------------
(***************************************************************************)
(* The evidence window of one stream: a ring of the last Capacity accepted *)
(* samples, the tick source that decides which samples are accepted, and   *)
(* the figures admissibility is judged on.                                 *)
(*                                                                         *)
(* A sample keeps its tick and its buffer capacity (0: not reported); the  *)
(* depth and the counters it also carries do not decide acceptance.        *)
(***************************************************************************)
EXTENDS Ticks, Sequences, FiniteSets, FiniteSetsExt

CONSTANTS
    Capacity,           \* window_capacity
    ReorderTolerance,   \* reorder_tolerance_ticks
    MaxSampleGap,       \* max_sample_gap_ticks
    NominalInterval,    \* nominal_sample_interval_ticks
    BufferSizes         \* the capacity_bytes a sample may report, 0 unknown

ASSUME WindowAssumption ==
    /\ Capacity \in Nat /\ Capacity >= 2
    /\ ReorderTolerance \in Nat
    /\ NominalInterval \in Nat \ {0}
    /\ MaxSampleGap \in Nat /\ MaxSampleGap >= NominalInterval
    /\ BufferSizes \subseteq Nat

VARIABLES
    ring,               \* samples_
    head,               \* head_
    size,               \* size_
    source,             \* tick_source_: has_observation_ and last_
    capacityChanges,    \* capacity_changes_ # 0
    inStep              \* history: accepted samples in a row without a gap

vars == << ring, head, size, source, capacityChanges, inStep >>

Sample == [tick : Tick, bytes : BufferSizes]
Blank  == [tick |-> 0, bytes |-> 0]

Slots == 0 .. Capacity - 1

-----------------------------------------------------------------------------
(* The tick source.                                                        *)

(* Mutant: a tick equal to the last one counts as an advance.              *)
ObserveTakesDuplicates(src, tick) ==
    CASE ~src.has -> "first"
      [] src.has /\ TickDelta(src.last, tick) >= 0 -> "advance"
      [] OTHER -> "discontinuity"

Observe(src, tick) ==
    LET delta == TickDelta(src.last, tick)
    IN  CASE ~src.has    -> "first"
          [] src.has /\ delta > 0 -> "advance"
          [] src.has /\ delta = 0 -> "duplicate"
          [] src.has /\ TakenForRollover(src.last, tick, ReorderTolerance) -> "rollover"
          [] src.has /\ delta < 0 /\ ~TakenForRollover(src.last, tick, ReorderTolerance)
               /\ Backwards(src.last, tick) <= ReorderTolerance -> "reorder"
          [] OTHER       -> "discontinuity"

Accepting == {"first", "advance", "rollover"}

(* The forward distance a step reports, which is what gaps are made of.    *)
ForwardTicks(src, tick) ==
    CASE Observe(src, tick) = "advance"  -> TickDelta(src.last, tick)
      [] Observe(src, tick) = "rollover" ->
            Backwards(src.last, tick) - DistanceToWrap(src.last)
      [] OTHER -> 0

-----------------------------------------------------------------------------
(* The ring.                                                               *)

At(i) == ring[(head + i) % Capacity]

(* The retained samples, oldest first.                                     *)
Retained == [i \in 1 .. size |-> At(i - 1)]

Oldest == At(0)
Newest == At(size - 1)

Steps == 2 .. size
StepOf(i) == TickDelta(Retained[i - 1].tick, Retained[i].tick)

Init ==
    /\ ring = [i \in Slots |-> Blank]
    /\ head = 0
    /\ size = 0
    /\ source = [has |-> FALSE, last |-> 0]
    /\ capacityChanges = FALSE
    /\ inStep = 0

(* reset(): the detector clears its window when it is rearmed or when its  *)
(* resource is reconfigured.                                               *)
Reset ==
    /\ ring' = [i \in Slots |-> Blank]
    /\ head' = 0
    /\ size' = 0
    /\ source' = [has |-> FALSE, last |-> 0]
    /\ capacityChanges' = FALSE
    /\ inStep' = 0

(* A declared capacity change counts even when the sample is then refused. *)
Declares(declared) == declared /\ size > 0

Refuse(sample, declared) ==
    /\ Observe(source, sample.tick) \notin Accepting
    /\ capacityChanges' = (capacityChanges \/ Declares(declared))
    /\ UNCHANGED << ring, head, size, source, inStep >>

(* Mutant: a full ring overwrites its oldest slot but keeps its start.     *)
StoreSampleKeepsHead(sample) ==
    /\ ring' = [ring EXCEPT ![(head + size) % Capacity] = sample]
    /\ size' = IF size = Capacity THEN size ELSE size + 1
    /\ UNCHANGED head

(* Mutant: a full ring keeps growing.                                      *)
StoreSampleGrows(sample) ==
    /\ ring' = [ring EXCEPT ![(head + size) % Capacity] = sample]
    /\ size' = size + 1
    /\ UNCHANGED head

StoreSample(sample) ==
    IF size = Capacity
    THEN /\ ring' = [ring EXCEPT ![head] = sample]
         /\ head' = (head + 1) % Capacity
         /\ UNCHANGED size
    ELSE /\ ring' = [ring EXCEPT ![(head + size) % Capacity] = sample]
         /\ size' = size + 1
         /\ UNCHANGED head

BytesDiffer(a, b) == a # 0 /\ b # 0 /\ a # b

Accept(sample, declared) ==
    /\ Observe(source, sample.tick) \in Accepting
    /\ source' = [has |-> TRUE, last |-> sample.tick]
    /\ StoreSample(sample)
    /\ capacityChanges' = \/ capacityChanges
                          \/ Declares(declared)
                          \/ size > 0 /\ BytesDiffer(Newest.bytes, sample.bytes)
    /\ inStep' = IF ForwardTicks(source, sample.tick) > MaxSampleGap THEN 1
                 ELSE IF inStep = Capacity THEN inStep ELSE inStep + 1

Offer(sample, declared) == Accept(sample, declared) \/ Refuse(sample, declared)

Next ==
    \/ Reset
    \/ \E sample \in Sample, declared \in BOOLEAN : Offer(sample, declared)

Spec == Init /\ [][Next]_vars

-----------------------------------------------------------------------------
(* The figures of metrics().                                               *)

SpanTicks == (Newest.tick - Oldest.tick) % TickModulus

(* Mutant: only the newest gap is looked at.                               *)
MaxGapNewest == IF size < 2 THEN 0 ELSE StepOf(size)

MaxGap == Max({0} \cup {StepOf(i) : i \in Steps})

(* Expected samples at the nominal cadence, bounded so that a long span    *)
(* cannot inflate the denominator.                                         *)
(* Mutant: the samples at both ends of the span are counted twice.         *)
ExpectedSamplesOffByOne ==
    Min({SpanTicks \div NominalInterval + 2, 64 * Capacity})

ExpectedSamples == Min({SpanTicks \div NominalInterval + 1, 64 * Capacity})

Completeness == Min({1000, (1000 * size) \div ExpectedSamples})

GapsOk == size > 0 => MaxGap <= MaxSampleGap

-----------------------------------------------------------------------------
(* Properties.                                                             *)

(* Every variable stays in its range: slots hold samples, the ring never   *)
(* claims more than its capacity.                                          *)
TypeOK ==
    /\ ring \in [Slots -> Sample \cup {Blank}]
    /\ head \in Slots
    /\ size \in 0 .. Capacity
    /\ source \in [has : BOOLEAN, last : Tick]
    /\ capacityChanges \in BOOLEAN
    /\ inStep \in 0 .. Capacity

(* The modular indexing of samples_, head_ and size_ implements a bounded  *)
(* log of the most recent accepted samples, through every wrap of the ring *)
(* and every reset.                                                        *)
Log == INSTANCE BoundedLog WITH log <- Retained, Entries <- Sample
RingIsBoundedLog == Log!Spec

(* Away from the wrap: a tick from which no step back reaches past it.     *)
Early(tick) == tick \in 1 .. TickModulus \div 2

(* Evidence is only accepted when ticks advance: each retained sample is   *)
(* strictly after the one retained before it (offer() and observe()).      *)
(* Late in the tick range, a tick further back than the wrap is ahead      *)
(* passes for a rollover, so the statement is about ticks before that.     *)
EvidenceAdvances == \A i \in Steps : Early(Retained[i - 1].tick) => StepOf(i) > 0

(* When the largest retained gap is admissible and the policy's gaps fit   *)
(* in half the tick range, the samples are in order pairwise, not only     *)
(* neighbour by neighbour, and the span is what the gaps allow.            *)
GapBoundsSpan ==
    (/\ size > 0 /\ GapsOk /\ (Capacity - 1) * MaxSampleGap < TickModulus \div 2
     /\ \A i \in Steps : Early(Retained[i - 1].tick))
        => /\ \A i, j \in 1 .. size :
                 i < j => TickAfter(Retained[i].tick, Retained[j].tick)
           /\ SpanTicks <= (size - 1) * MaxSampleGap

(* One historical gap cannot poison the stream: once Capacity samples in a *)
(* row arrived without a gap, the gap has aged out of the figures.         *)
GapForgotten == inStep = Capacity => GapsOk

(* A window whose samples all arrived at the nominal cadence is judged     *)
(* complete.                                                               *)
CadenceIsComplete ==
    (size > 0 /\ \A i \in Steps : StepOf(i) \in 1 .. NominalInterval)
        => Completeness = 1000
=============================================================================
