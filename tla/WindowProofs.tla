---------------------------- MODULE WindowProofs ----------------------------
(***************************************************************************)
(* What EvidenceWindow guarantees for every capacity, tolerance and tick   *)
(* range.  The ring is first shown to be a log that grows at its end and   *)
(* loses its oldest sample when full; the rest is about the log.           *)
(***************************************************************************)
EXTENDS EvidenceWindow, NumberProofs, SequenceTheorems

Stored == Sample \cup {Blank}

(* The tick source remembers the newest sample.                            *)
Sourced ==
    /\ source.has <=> size > 0
    /\ size > 0 => source.last = Retained[size].tick
    /\ inStep <= size

(* The samples that arrived in a row without a gap show none.              *)
RecentSteps ==
    \A i \in Steps : i + inStep > size + 1 => StepOf(i) <= MaxSampleGap

IInv == TypeOK /\ Sourced /\ RecentSteps /\ EvidenceAdvances

-----------------------------------------------------------------------------
(* Distances of ticks.                                                      *)

(* Half of an even modulus.                                                *)
LEMMA HalfIs ==
    TickModulus \div 2 \in Nat /\ 2 * (TickModulus \div 2) = TickModulus
BY TickModulusAssumption

(* The signed and the unsigned distance of two ticks (tick_delta()).       *)
LEMMA DeltaIs ==
    ASSUME NEW a \in Tick, NEW b \in Tick
    PROVE  /\ (b - a) % TickModulus = IF b >= a THEN b - a ELSE b - a + TickModulus
           /\ (b - a) % TickModulus \in 0 .. TickModulus - 1
           /\ TickDelta(a, b) \in Int
           /\ TickDelta(a, b) = IF 2 * ((b - a) % TickModulus) < TickModulus
                                THEN (b - a) % TickModulus
                                ELSE ((b - a) % TickModulus) - TickModulus
<1> DEFINE d == (b - a) % TickModulus
           h == TickModulus \div 2
<1>1. h \in Nat /\ 2 * h = TickModulus
  BY HalfIs
<1>2. d = (IF b >= a THEN b - a ELSE b - a + TickModulus) /\ d \in 0 .. TickModulus - 1
  BY DifferenceOf, TickModulusAssumption DEF Tick
<1>3. TickDelta(a, b) = IF d < h THEN d ELSE d - TickModulus
  BY DEF TickDelta
<1> HIDE DEF d, h
<1>4. /\ TickDelta(a, b) \in Int
      /\ TickDelta(a, b) = IF 2 * d < TickModulus THEN d ELSE d - TickModulus
  BY <1>1, <1>2, <1>3, TickModulusAssumption
<1> QED
  BY <1>2, <1>4 DEF d

-----------------------------------------------------------------------------
(* The ring is a log.                                                      *)

(* The slot of an index that has gone round at most once.                  *)
LEMMA SlotIs ==
    ASSUME NEW a \in 0 .. 2 * Capacity - 1
    PROVE  a % Capacity = IF a < Capacity THEN a ELSE a - Capacity
BY WindowAssumption

(* The retained samples are a sequence of the ring's size.                 *)
LEMMA RetainedIs ==
    ASSUME TypeOK
    PROVE  /\ Retained \in Seq(Stored) /\ Len(Retained) = size
           /\ \A i \in 1 .. size : /\ Retained[i] = ring[(head + i - 1) % Capacity]
                                   /\ Retained[i] \in Stored /\ Retained[i].tick \in Tick
<1>1. /\ size \in Nat /\ head \in Slots /\ ring \in [Slots -> Stored]
      /\ Capacity \in Nat /\ size <= Capacity
  BY WindowAssumption DEF TypeOK, Stored
<1>2. ASSUME NEW i \in 1 .. size
      PROVE  /\ (head + (i - 1)) % Capacity \in Slots
             /\ head + (i - 1) = head + i - 1
  <2>1. head + (i - 1) \in 0 .. 2 * Capacity - 1
    BY <1>1 DEF Slots
  <2> QED
    BY <1>1, <2>1, SlotIs DEF Slots
<1>3. \A i \in 1 .. size : Retained[i] = ring[(head + i - 1) % Capacity] /\ Retained[i] \in Stored
  BY <1>1, <1>2 DEF Retained, At
<1>4. \A x \in Stored : x.tick \in Tick
  BY TickModulusAssumption DEF Stored, Sample, Blank, Tick
<1>5. Retained \in [1 .. size -> Stored]
  BY <1>3 DEF Retained
<1> QED
  BY <1>1, <1>3, <1>4, <1>5, LenProperties, IsASeq

Shift == IF size = Capacity THEN 1 ELSE 0

(* Storing a sample appends it, and drops the oldest when there is no room.*)
LEMMA StoreIs ==
    ASSUME TypeOK, NEW sample \in Sample, StoreSample(sample)
    PROVE  /\ ring' \in [Slots -> Stored] /\ head' \in Slots /\ size' \in 1 .. Capacity
           /\ size' = size + 1 - Shift
           /\ Retained'[size'] = sample
           /\ \A i \in 1 .. size' - 1 :
                  i + Shift \in 1 .. size /\ Retained'[i] = Retained[i + Shift]
<1>1. /\ size \in Nat /\ head \in Nat /\ head < Capacity /\ ring \in [Slots -> Stored]
      /\ Capacity \in Nat /\ size <= Capacity /\ Capacity >= 2 /\ sample \in Stored
  BY WindowAssumption DEF TypeOK, Stored, Slots
<1>2. ASSUME NEW i \in 1 .. size'
      PROVE  Retained'[i] = ring'[(head' + (i - 1)) % Capacity]
  BY DEF Retained, At
<1>3. ASSUME NEW i \in 1 .. size
      PROVE  Retained[i] = ring[(head + (i - 1)) % Capacity]
  BY DEF Retained, At
<1>4. CASE size = Capacity
  <2>1. /\ ring' = [ring EXCEPT ![head] = sample] /\ head' = (head + 1) % Capacity /\ size' = size
        /\ Shift = 1
    BY <1>4 DEF StoreSample, Shift
  <2>2. head' = IF head + 1 < Capacity THEN head + 1 ELSE 0
    BY <1>1, <2>1, SlotIs
  <2>3. head \in Slots /\ ring' \in [Slots -> Stored] /\ head' \in Slots
    BY <1>1, <2>1, <2>2 DEF Slots
  <2>4. (head' + (Capacity - 1)) % Capacity = head
    <3>1. head' + (Capacity - 1) \in 0 .. 2 * Capacity - 1
      BY <1>1, <2>2
    <3> QED
      BY <1>1, <2>2, <3>1, SlotIs
  <2>5. Retained'[size'] = sample
    BY <1>1, <1>2, <1>4, <2>1, <2>3, <2>4
  <2>6. ASSUME NEW i \in 1 .. size' - 1
        PROVE  i + Shift \in 1 .. size /\ Retained'[i] = Retained[i + Shift]
    <3> DEFINE from == head' + (i - 1)
               to   == head + i
    <3>1. /\ i \in 1 .. size' /\ i + 1 \in 1 .. size /\ from = head' + i - 1 /\ to = head + i
          /\ from \in 0 .. 2 * Capacity - 1 /\ to \in 0 .. 2 * Capacity - 1
          /\ i \in Nat /\ i >= 1 /\ i < Capacity
      BY <1>1, <1>4, <2>1, <2>2
    <3>2. Retained'[i] = ring'[from % Capacity]
      BY <1>2, <3>1
    <3>3. Retained[i + 1] = ring[to % Capacity]
      <4>1. Retained[i + 1] = ring[(head + (i + 1 - 1)) % Capacity] /\ i + 1 - 1 = i
        BY <1>3, <3>1
      <4> QED
        BY <4>1
    <3> HIDE DEF from, to
    <3>4. from % Capacity = IF from < Capacity THEN from ELSE from - Capacity
      BY <3>1, SlotIs
    <3>5. to % Capacity = IF to < Capacity THEN to ELSE to - Capacity
      BY <3>1, SlotIs
    <3>6. from % Capacity = to % Capacity /\ to % Capacity # head /\ to % Capacity \in Slots
      BY <1>1, <2>2, <3>1, <3>4, <3>5 DEF Slots
    <3> QED
      BY <1>1, <2>1, <3>1, <3>2, <3>3, <3>6
  <2> QED
    BY <1>1, <1>4, <2>1, <2>3, <2>5, <2>6
<1>5. CASE size # Capacity
  <2> DEFINE slot == (head + size) % Capacity
  <2>1. /\ ring' = [ring EXCEPT ![slot] = sample] /\ head' = head /\ size' = size + 1 /\ Shift = 0
    BY <1>5 DEF StoreSample, Shift
  <2>2. /\ slot = IF head + size < Capacity THEN head + size ELSE head + size - Capacity
        /\ slot \in Slots
    <3> DEFINE after == head + size
    <3>1. after \in 0 .. 2 * Capacity - 1 /\ after = head + size
      BY <1>1, <1>5
    <3>2. slot = after % Capacity
      OBVIOUS
    <3> HIDE DEF after, slot
    <3>3. slot = IF after < Capacity THEN after ELSE after - Capacity
      BY <3>1, <3>2, SlotIs
    <3> QED
      BY <1>1, <1>5, <3>1, <3>3 DEF Slots
  <2>3. ring' \in [Slots -> Stored] /\ head' \in Slots
    BY <1>1, <2>1, <2>2 DEF Slots
  <2>4. Retained'[size'] = sample
    <3>1. size' \in 1 .. size' /\ size' - 1 = size /\ head' + (size' - 1) = head + size
      BY <1>1, <2>1
    <3> HIDE DEF slot
    <3>2. (head' + (size' - 1)) % Capacity = slot
      BY <3>1 DEF slot
    <3> QED
      BY <1>1, <1>2, <2>1, <2>2, <3>1, <3>2
  <2>5. ASSUME NEW i \in 1 .. size' - 1
        PROVE  i + Shift \in 1 .. size /\ Retained'[i] = Retained[i + Shift]
    <3> DEFINE at == head + (i - 1)
    <3>1. /\ i \in 1 .. size' /\ i \in 1 .. size /\ i + Shift = i /\ at = head + i - 1
          /\ at \in 0 .. 2 * Capacity - 1 /\ i \in Nat /\ i >= 1 /\ i <= size
      BY <1>1, <2>1
    <3>2. Retained'[i] = ring'[at % Capacity] /\ Retained[i] = ring[at % Capacity]
      BY <1>2, <1>3, <2>1, <3>1
    <3> HIDE DEF at, slot
    <3>3. at % Capacity = IF at < Capacity THEN at ELSE at - Capacity
      BY <3>1, SlotIs
    <3>4. at % Capacity # slot /\ at % Capacity \in Slots
      BY <1>1, <1>5, <2>2, <3>1, <3>3 DEF Slots
    <3> QED
      BY <1>1, <2>1, <3>1, <3>2, <3>4
  <2> QED
    BY <1>1, <1>5, <2>1, <2>3, <2>4, <2>5
<1> QED
  BY <1>4, <1>5

-----------------------------------------------------------------------------
(* How far apart the samples can be.                                       *)

(* Multiplying by a natural number keeps the order.                        *)
LEMMA TimesKeepsOrder ==
    ASSUME NEW a \in Nat, NEW b \in Nat, a <= b, NEW g \in Nat
    PROVE  a * g \in Nat /\ b * g \in Nat /\ a * g <= b * g
<1>1. b = a + (b - a) /\ b - a \in Nat
  OBVIOUS
<1>2. b * g = a * g + (b - a) * g /\ (b - a) * g \in Nat /\ a * g \in Nat
  BY <1>1
<1> QED
  BY <1>2

(* The unsigned distance from one retained sample to another.              *)
Span(i, j) == (Retained[j].tick - Retained[i].tick) % TickModulus

(* Distances add up, as long as they do not turn the tick range.           *)
LEMMA SpansAdd ==
    ASSUME NEW a \in Tick, NEW b \in Tick, NEW c \in Tick, TickDelta(b, c) > 0
    PROVE  LET d == (b - a) % TickModulus
               e == (c - a) % TickModulus
           IN  /\ d \in Nat /\ e \in Nat
               /\ e <= d + TickDelta(b, c)
               /\ d + TickDelta(b, c) < TickModulus => e = d + TickDelta(b, c)
<1>1. /\ (b - a) % TickModulus = IF b >= a THEN b - a ELSE b - a + TickModulus
      /\ (c - a) % TickModulus = IF c >= a THEN c - a ELSE c - a + TickModulus
      /\ (c - b) % TickModulus = IF c >= b THEN c - b ELSE c - b + TickModulus
      /\ TickDelta(b, c) = IF 2 * ((c - b) % TickModulus) < TickModulus
                           THEN (c - b) % TickModulus
                           ELSE ((c - b) % TickModulus) - TickModulus
  BY DeltaIs
<1>2. a \in Nat /\ b \in Nat /\ c \in Nat /\ TickModulus \in Nat
      /\ a < TickModulus /\ b < TickModulus /\ c < TickModulus
  BY TickModulusAssumption DEF Tick
<1> HIDE DEF TickDelta
<1> QED
  BY <1>1, <1>2

(* Where every step between two samples is forward and at most g, they are *)
(* no further apart than the steps allow; nor closer than their number,    *)
(* unless that many steps could turn half the tick range.                  *)
LEMMA Paced ==
    ASSUME TypeOK, NEW g \in Nat, NEW i \in 1 .. size, NEW j \in i .. size,
           \A k \in i + 1 .. j : StepOf(k) \in 1 .. g
    PROVE  /\ Span(i, j) \in Nat
           /\ Span(i, j) <= (j - i) * g
           /\ 2 * ((j - i) * g) < TickModulus => Span(i, j) >= j - i
<1> DEFINE Far(d) == /\ Span(i, i + d) \in Nat
                     /\ Span(i, i + d) <= d * g
                     /\ 2 * (d * g) < TickModulus => Span(i, i + d) >= d
           T == {d \in Nat : i + d <= j => Far(d)}
<1>1. size \in Nat /\ i \in Nat /\ j \in Nat /\ TickModulus \in Nat /\ TickModulus > 1
  BY TickModulusAssumption, WindowAssumption DEF TypeOK
<1>2. \A k \in 1 .. size : Retained[k].tick \in Tick
  BY RetainedIs
<1>3. 0 \in T
  <2>1. i + 0 = i /\ Retained[i].tick \in Tick
    BY <1>1, <1>2
  <2>2. Span(i, i) = 0
    BY <2>1, DeltaIs DEF Span, Tick
  <2>3. 0 * g = 0
    OBVIOUS
  <2> QED
    BY <2>1, <2>2, <2>3
<1>4. ASSUME NEW d \in T
      PROVE  d + 1 \in T
  <2> SUFFICES ASSUME i + (d + 1) <= j PROVE Far(d + 1)
    OBVIOUS
  <2> DEFINE k == i + d
             a == Retained[i].tick
             b == Retained[k].tick
             c == Retained[k + 1].tick
  <2>1. /\ d \in Nat /\ k \in 1 .. size /\ k + 1 \in 1 .. size /\ k + 1 \in i + 1 .. j
        /\ i + (d + 1) = k + 1 /\ k + 1 - 1 = k
    BY <1>1
  <2>2. a \in Tick /\ b \in Tick /\ c \in Tick
    BY <1>2, <2>1
  <2>3. TickDelta(b, c) \in 1 .. g
    <3>1. StepOf(k + 1) \in 1 .. g
      BY <2>1
    <3> QED
      BY <2>1, <3>1 DEF StepOf
  <2>4. Far(d)
    BY <1>1
  <2>5. Span(i, k) = (b - a) % TickModulus /\ Span(i, k + 1) = (c - a) % TickModulus
    BY DEF Span
  <2> HIDE DEF a, b, c
  <2>6. /\ Span(i, k) \in Nat /\ Span(i, k + 1) \in Nat
        /\ Span(i, k + 1) <= Span(i, k) + TickDelta(b, c)
        /\ Span(i, k) + TickDelta(b, c) < TickModulus
             => Span(i, k + 1) = Span(i, k) + TickDelta(b, c)
    BY <2>2, <2>3, <2>5, SpansAdd
  <2>7. (d + 1) * g = d * g + g /\ d * g \in Nat
    BY <2>1
  <2> DEFINE dg == d * g
             eg == (d + 1) * g
             s  == Span(i, k)
             t  == Span(i, k + 1)
  <2>8. s <= dg /\ (2 * dg < TickModulus => s >= d)
    BY <2>4
  <2>9. eg = dg + g /\ dg \in Nat
    BY <2>7
  <2>10. /\ s \in Nat /\ t \in Nat /\ t <= s + TickDelta(b, c)
         /\ s + TickDelta(b, c) < TickModulus => t = s + TickDelta(b, c)
    BY <2>6
  <2>11. Span(i, i + (d + 1)) = t /\ (d + 1) * g = eg
    BY <2>1
  <2> HIDE DEF dg, eg, s, t
  <2>12. t \in Nat /\ t <= eg /\ (2 * eg < TickModulus => t >= d + 1)
    BY <1>1, <2>1, <2>3, <2>8, <2>9, <2>10
  <2> QED
    BY <2>11, <2>12
<1> HIDE DEF Far
<1>5. T = Nat
  BY <1>3, <1>4, AllNaturals
<1>6. j - i \in Nat /\ i + (j - i) = j
  BY <1>1
<1>7. Far(j - i)
  BY <1>1, <1>5, <1>6
<1> QED
  BY <1>6, <1>7 DEF Far

-----------------------------------------------------------------------------
(* What is accepted lies ahead.                                            *)

(* An accepted tick is no further ahead than the gap it is charged with,   *)
(* and ahead of an early tick.                                             *)
LEMMA AcceptedIsAhead ==
    ASSUME NEW src, src.has, src.last \in Tick, NEW tick \in Tick,
           Observe(src, tick) \in Accepting
    PROVE  /\ TickDelta(src.last, tick) \in Int
           /\ TickDelta(src.last, tick) <= ForwardTicks(src, tick)
           /\ Early(src.last) => TickDelta(src.last, tick) > 0
<1> DEFINE last  == src.last
           delta == TickDelta(last, tick)
           back  == Backwards(last, tick)
           wrap  == DistanceToWrap(last)
<1>1. delta \in Int /\ back = -delta /\ 2 * back <= TickModulus
  <2>1. /\ delta \in Int /\ (tick - last) % TickModulus \in Nat
        /\ delta = IF 2 * ((tick - last) % TickModulus) < TickModulus
                   THEN (tick - last) % TickModulus
                   ELSE ((tick - last) % TickModulus) - TickModulus
    <3>1. last \in Tick
      OBVIOUS
    <3> HIDE DEF last
    <3> QED
      BY <3>1, DeltaIs
  <2> HIDE DEF delta
  <2> QED
    BY <2>1, TickModulusAssumption DEF Backwards, delta
<1>2. wrap \in Nat /\ (Early(last) => 2 * wrap >= TickModulus)
  <2>1. last \in Nat /\ last < TickModulus /\ TickModulus \in Nat
    BY TickModulusAssumption DEF Tick
  <2>2. CASE last = 0
    BY <2>1, <2>2, TickModulusAssumption DEF DistanceToWrap, Early
  <2>3. CASE last # 0
    <3>1. wrap = TickModulus - last
      BY <2>1, <2>3 DEF DistanceToWrap
    <3> QED
      BY <2>1, <3>1, HalfIs DEF Early
  <2> QED
    BY <2>2, <2>3
<1>3. \/ delta > 0 /\ ForwardTicks(src, tick) = delta
      \/ delta < 0 /\ back > wrap /\ ForwardTicks(src, tick) = back - wrap
  <2>1. CASE Observe(src, tick) = "advance"
    <3>1. delta > 0
      BY <1>1, <2>1 DEF Observe
    <3> QED
      BY <2>1, <3>1 DEF ForwardTicks
  <2>2. CASE Observe(src, tick) = "rollover"
    <3>1. TakenForRollover(last, tick, ReorderTolerance)
      BY <2>2, Zenon DEF Observe
    <3>2. delta < 0 /\ back > wrap
      BY <1>1, <3>1 DEF TakenForRollover
    <3> QED
      BY <2>2, <3>2 DEF ForwardTicks
  <2>3. Observe(src, tick) # "first"
    BY DEF Observe
  <2> QED
    BY <2>1, <2>2, <2>3 DEF Accepting
<1> HIDE DEF delta, back, wrap, last
<1>4. delta \in Int /\ delta <= ForwardTicks(src, tick) /\ (Early(last) => delta > 0)
  BY <1>1, <1>2, <1>3, TickModulusAssumption
<1> QED
  BY <1>4 DEF delta, last

-----------------------------------------------------------------------------
(* The inductive invariant.                                                *)

(* A gap is a number.                                                      *)
LEMMA ForwardIsInt ==
    ASSUME NEW src, src.has, src.last \in Tick, NEW tick \in Tick
    PROVE  ForwardTicks(src, tick) \in Int
<1>1. TickDelta(src.last, tick) \in Int
  BY DeltaIs
<1>2. Backwards(src.last, tick) \in Int
  BY <1>1 DEF Backwards
<1>3. DistanceToWrap(src.last) \in Int
  BY TickModulusAssumption DEF DistanceToWrap, Tick
<1> QED
  BY <1>1, <1>2, <1>3 DEF ForwardTicks

(* What accepting a sample does to the steps between the samples.          *)
LEMMA AcceptSteps ==
    ASSUME TypeOK, NEW sample \in Sample, StoreSample(sample)
    PROVE  /\ \A i \in 1 .. size' : Retained'[i] \in Stored
           /\ \A i \in 2 .. size' - 1 : /\ i + Shift \in Steps
                                        /\ Retained'[i - 1] = Retained[(i + Shift) - 1]
                                        /\ StepOf(i)' = StepOf(i + Shift)
           /\ size' >= 2 => /\ size > 0
                            /\ Retained'[size' - 1] = Retained[size]
                            /\ TickDelta(Retained'[size' - 1].tick, Retained'[size'].tick)
                                 = TickDelta(Retained[size].tick, sample.tick)
<1>1. /\ size \in Nat /\ Capacity \in Nat /\ Capacity >= 2 /\ size <= Capacity /\ Shift \in {0, 1}
      /\ Shift = 1 => size = Capacity
      /\ sample \in Stored
  BY WindowAssumption DEF TypeOK, Shift, Stored
<1>2. /\ size' = size + 1 - Shift /\ size' \in Nat
      /\ Retained'[size'] = sample
      /\ \A i \in 1 .. size' - 1 : i + Shift \in 1 .. size /\ Retained'[i] = Retained[i + Shift]
  BY <1>1, StoreIs
<1>3. ASSUME NEW i \in 1 .. size'
      PROVE  Retained'[i] \in Stored
  <2>1. CASE i = size'
    BY <1>1, <1>2, <2>1
  <2>2. CASE i # size'
    <3>1. i + Shift \in 1 .. size /\ Retained'[i] = Retained[i + Shift]
      BY <1>2, <2>2
    <3> QED
      BY <3>1, RetainedIs
  <2> QED
    BY <2>1, <2>2
<1>4. ASSUME NEW i \in 2 .. size' - 1
      PROVE  /\ i + Shift \in Steps
             /\ Retained'[i - 1] = Retained[(i + Shift) - 1]
             /\ StepOf(i)' = StepOf(i + Shift)
  <2>1. /\ i - 1 \in 1 .. size' - 1 /\ i \in 1 .. size' - 1 /\ (i - 1) + Shift = (i + Shift) - 1
        /\ i + Shift \in Steps
    BY <1>1, <1>2 DEF Steps
  <2>2. Retained'[i - 1] = Retained[(i - 1) + Shift]
    BY <1>2, <2>1
  <2>3. Retained'[i] = Retained[i + Shift]
    BY <1>2, <2>1
  <2>4. Retained'[i - 1] = Retained[(i + Shift) - 1]
    BY <2>1, <2>2
  <2>5. StepOf(i)' = TickDelta(Retained'[i - 1].tick, Retained'[i].tick)
    BY DEF StepOf
  <2> DEFINE k == i + Shift
  <2>6. StepOf(k) = TickDelta(Retained[k - 1].tick, Retained[k].tick)
    BY DEF StepOf
  <2>7. StepOf(i)' = StepOf(k)
    <3>1. Retained'[i - 1] = Retained[k - 1] /\ Retained'[i] = Retained[k]
      BY <2>3, <2>4
    <3> HIDE DEF k
    <3> QED
      BY <2>5, <2>6, <3>1
  <2> QED
    BY <2>1, <2>4, <2>7
<1>5. ASSUME size' >= 2
      PROVE  size > 0 /\ Retained'[size' - 1] = Retained[size]
  <2>1. size' - 1 \in 1 .. size' - 1 /\ size' - 1 + Shift = size /\ size > 0
    BY <1>1, <1>2, <1>5
  <2>2. Retained'[size' - 1] = Retained[size' - 1 + Shift]
    BY <1>2, <2>1
  <2> QED
    BY <2>1, <2>2
<1> QED
  BY <1>2, <1>3, <1>4, <1>5

(* An empty window.                                                        *)
LEMMA EmptyIs ==
    ASSUME Init
    PROVE  IInv
<1>1. Slots # {} /\ 0 \in Slots /\ Capacity \in Nat /\ 0 \in Tick
  BY WindowAssumption, TickModulusAssumption DEF Slots, Tick
<1>2. TypeOK
  <2>1. ring \in [Slots -> Sample \cup {Blank}]
    BY DEF Init
  <2>2. source \in [has : BOOLEAN, last : Tick] /\ capacityChanges \in BOOLEAN
    BY <1>1 DEF Init
  <2>3. head \in Slots /\ size \in 0 .. Capacity /\ inStep \in 0 .. Capacity
    BY <1>1 DEF Init
  <2> QED
    BY <2>1, <2>2, <2>3 DEF TypeOK
<1>3. Sourced
  BY DEF Init, Sourced
<1>4. RecentSteps /\ EvidenceAdvances
  BY DEF Init, RecentSteps, EvidenceAdvances, Steps
<1> QED
  BY <1>2, <1>3, <1>4 DEF IInv

(* A rearmed or reconfigured window is empty again.                        *)
LEMMA ResetKeeps ==
    ASSUME Reset
    PROVE  IInv'
<1>1. Slots # {} /\ 0 \in Slots /\ Capacity \in Nat /\ 0 \in Tick
  BY WindowAssumption, TickModulusAssumption DEF Slots, Tick
<1>2. TypeOK'
  <2>1. ring' \in [Slots -> Sample \cup {Blank}]
    BY DEF Reset
  <2>2. source' \in [has : BOOLEAN, last : Tick] /\ capacityChanges' \in BOOLEAN
    BY <1>1 DEF Reset
  <2>3. head' \in Slots /\ size' \in 0 .. Capacity /\ inStep' \in 0 .. Capacity
    BY <1>1 DEF Reset
  <2> QED
    BY <2>1, <2>2, <2>3 DEF TypeOK
<1>3. Sourced'
  BY DEF Reset, Sourced
<1>4. RecentSteps' /\ EvidenceAdvances'
  BY DEF Reset, RecentSteps, EvidenceAdvances, Steps
<1> QED
  BY <1>2, <1>3, <1>4 DEF IInv

(* Nothing but the declared capacity change moves.                         *)
LEMMA UntouchedKeeps ==
    ASSUME IInv, UNCHANGED << ring, head, size, source, inStep >>, capacityChanges' \in BOOLEAN
    PROVE  IInv'
<1>1. TypeOK'
  BY DEF IInv, TypeOK
<1>2. Sourced' /\ RecentSteps' /\ EvidenceAdvances'
  BY DEF IInv, Sourced, RecentSteps, EvidenceAdvances, Steps, StepOf, Retained, At
<1> QED
  BY <1>1, <1>2 DEF IInv

(* An accepted sample.                                                     *)
LEMMA AcceptKeeps ==
    ASSUME IInv, NEW sample \in Sample, NEW declared \in BOOLEAN, Accept(sample, declared)
    PROVE  IInv'
<1>1. /\ TypeOK /\ Sourced /\ RecentSteps /\ EvidenceAdvances
      /\ StoreSample(sample) /\ Observe(source, sample.tick) \in Accepting
      /\ source' = [has |-> TRUE, last |-> sample.tick]
  BY DEF IInv, Accept
<1>2. /\ size \in Nat /\ Capacity \in Nat /\ Capacity >= 2 /\ size <= Capacity /\ Shift \in {0, 1}
      /\ Shift = IF size = Capacity THEN 1 ELSE 0
      /\ inStep \in Nat /\ inStep <= Capacity /\ sample.tick \in Tick /\ MaxSampleGap \in Nat
      /\ inStep <= size
  BY <1>1, WindowAssumption DEF TypeOK, Shift, Sample, Sourced
<1>3. /\ ring' \in [Slots -> Stored] /\ head' \in Slots /\ size' \in 1 .. Capacity
      /\ size' = size + 1 - Shift /\ size' \in Nat /\ size' > 0
      /\ Retained'[size'] = sample
  BY <1>1, <1>2, StoreIs
<1>4. /\ \A i \in 2 .. size' - 1 : /\ i + Shift \in Steps
                                   /\ Retained'[i - 1] = Retained[(i + Shift) - 1]
                                   /\ StepOf(i)' = StepOf(i + Shift)
      /\ size' >= 2 => /\ size > 0
                       /\ Retained'[size' - 1] = Retained[size]
                       /\ TickDelta(Retained'[size' - 1].tick, Retained'[size'].tick)
                            = TickDelta(Retained[size].tick, sample.tick)
  BY <1>1, AcceptSteps
<1>5. /\ inStep' \in 1 .. Capacity /\ inStep' <= size' /\ inStep' <= inStep + 1
      /\ ForwardTicks(source, sample.tick) > MaxSampleGap => inStep' = 1
  BY <1>2, <1>3 DEF Accept
<1>6. TypeOK'
  <2>1. capacityChanges' \in BOOLEAN
    BY DEF Accept
  <2>2. source' \in [has : BOOLEAN, last : Tick]
    BY <1>1, <1>2
  <2> QED
    BY <1>3, <1>5, <2>1, <2>2 DEF TypeOK, Stored
<1>7. Sourced'
  BY <1>1, <1>3, <1>5 DEF Sourced
<1>8. ASSUME size' >= 2
      PROVE  LET step == TickDelta(Retained[size].tick, sample.tick)
             IN  /\ step \in Int /\ step <= ForwardTicks(source, sample.tick)
                 /\ Early(Retained[size].tick) => step > 0
  <2>1. source.has /\ source.last \in Tick /\ source.last = Retained[size].tick
    BY <1>1, <1>4, <1>8 DEF Sourced, TypeOK
  <2>2. LET step == TickDelta(source.last, sample.tick)
        IN  /\ step \in Int /\ step <= ForwardTicks(source, sample.tick)
            /\ Early(source.last) => step > 0
    BY <1>1, <1>2, <2>1, AcceptedIsAhead
  <2> QED
    BY <2>1, <2>2
<1>9. ASSUME NEW i \in 2 .. size', i = size'
      PROVE  /\ StepOf(i)' = TickDelta(Retained[size].tick, sample.tick)
             /\ Retained'[i - 1] = Retained[size]
  BY <1>3, <1>4, <1>9 DEF StepOf
<1>10. RecentSteps'
  <2> SUFFICES ASSUME NEW i \in 2 .. size', i + inStep' > size' + 1
               PROVE  StepOf(i)' <= MaxSampleGap
    BY DEF RecentSteps, Steps
  <2>1. CASE i = size'
    <3>1. inStep' # 1
      BY <1>3, <1>5, <2>1
    <3>2. /\ ForwardTicks(source, sample.tick) <= MaxSampleGap
          /\ ForwardTicks(source, sample.tick) \in Int
      <4>1. ForwardTicks(source, sample.tick) \in Int
        <5>1. size' >= 2
          BY <1>3
        <5>2. source.has /\ source.last \in Tick
          BY <1>1, <1>4, <5>1 DEF Sourced, TypeOK
        <5> QED
          BY <1>2, <5>2, ForwardIsInt
      <4> QED
        BY <1>2, <1>5, <3>1, <4>1
    <3> DEFINE step == TickDelta(Retained[size].tick, sample.tick)
               ahead == ForwardTicks(source, sample.tick)
    <3>3. StepOf(i)' = step /\ step \in Int /\ step <= ahead
      <4>1. size' >= 2
        BY <1>3
      <4>2. step \in Int /\ step <= ahead
        BY <1>8, <4>1
      <4>3. StepOf(i)' = step
        BY <1>9, <2>1
      <4> QED
        BY <4>2, <4>3
    <3>4. ahead <= MaxSampleGap /\ ahead \in Int
      BY <3>2
    <3> HIDE DEF step, ahead
    <3> QED
      BY <1>2, <3>3, <3>4
  <2>2. CASE i # size'
    <3>1. i \in 2 .. size' - 1
      BY <1>3, <2>2
    <3>2. i + Shift \in Steps /\ StepOf(i)' = StepOf(i + Shift)
      BY <1>4, <3>1
    <3> DEFINE k == i + Shift
    <3>3. k + inStep > size + 1
      <4>1. /\ size \in Nat /\ inStep \in Nat /\ Shift \in {0, 1} /\ i \in Int
            /\ size' = size + 1 - Shift /\ inStep' \in Nat /\ inStep' <= inStep + 1
        BY <1>2, <1>3, <1>5
      <4>2. i + inStep' > size' + 1
        OBVIOUS
      <4> DEFINE m == inStep'
                 n == size'
                 h == Shift
      <4>3. /\ size \in Nat /\ inStep \in Nat /\ h \in {0, 1} /\ i \in Int /\ k = i + h
            /\ n = size + 1 - h /\ m \in Nat /\ m <= inStep + 1 /\ i + m > n + 1
        BY <4>1, <4>2
      <4> HIDE DEF k, m, n, h
      <4> QED
        BY <4>3
    <3>4. k \in Steps /\ StepOf(i)' = StepOf(k)
      BY <3>2
    <3> HIDE DEF k
    <3> QED
      BY <1>1, <3>3, <3>4 DEF RecentSteps
  <2> QED
    BY <2>1, <2>2
<1>11. EvidenceAdvances'
  <2> SUFFICES ASSUME NEW i \in 2 .. size', Early(Retained'[i - 1].tick)
               PROVE  StepOf(i)' > 0
    BY DEF EvidenceAdvances, Steps, Early
  <2>1. CASE i = size'
    BY <1>3, <1>8, <1>9, <2>1
  <2>2. CASE i # size'
    <3>1. i \in 2 .. size' - 1
      BY <1>3, <2>2
    <3>2. i + Shift \in Steps /\ StepOf(i)' = StepOf(i + Shift)
          /\ Retained'[i - 1] = Retained[(i + Shift) - 1]
      BY <1>4, <3>1
    <3> DEFINE k == i + Shift
    <3>3. k \in Steps /\ StepOf(i)' = StepOf(k)
      BY <3>2
    <3>4. Retained'[i - 1] = Retained[k - 1]
      BY <3>2
    <3>5. Early(Retained[k - 1].tick)
      BY <3>4
    <3> HIDE DEF k
    <3> QED
      BY <1>1, <3>3, <3>5 DEF EvidenceAdvances
  <2> QED
    BY <2>1, <2>2
<1> QED
  BY <1>6, <1>7, <1>10, <1>11 DEF IInv

(* Every step.                                                             *)
LEMMA StepKeeps ==
    ASSUME IInv, [Next]_vars
    PROVE  IInv'
<1>1. CASE Reset
  BY <1>1, ResetKeeps
<1>2. ASSUME NEW sample \in Sample, NEW declared \in BOOLEAN, Refuse(sample, declared)
      PROVE  IInv'
  <2>1. UNCHANGED << ring, head, size, source, inStep >> /\ capacityChanges' \in BOOLEAN
    BY <1>2 DEF Refuse
  <2> QED
    BY <2>1, UntouchedKeeps
<1>3. ASSUME NEW sample \in Sample, NEW declared \in BOOLEAN, Accept(sample, declared)
      PROVE  IInv'
  BY <1>3, AcceptKeeps
<1>4. CASE UNCHANGED vars
  <2>1. UNCHANGED << ring, head, size, source, inStep >> /\ capacityChanges' \in BOOLEAN
    BY <1>4 DEF vars, IInv, TypeOK
  <2> QED
    BY <2>1, UntouchedKeeps
<1> QED
  BY <1>1, <1>2, <1>3, <1>4 DEF Next, Offer

(* The invariant holds always.                                             *)
LEMMA Invariant == Spec => []IInv
BY EmptyIs, StepKeeps, PTL DEF Spec
-----------------------------------------------------------------------------
(* What follows.                                                           *)

(* The ring, the tick source and the counters stay in their ranges.        *)
THEOREM TypeCorrect == Spec => []TypeOK
<1>1. IInv => TypeOK
  BY DEF IInv
<1> QED
  BY <1>1, Invariant, PTL

(* Evidence is only accepted when ticks advance: offer() and observe() let *)
(* no sample in that is not strictly after the newest, away from the wrap. *)
THEOREM AcceptedEvidenceAdvances == Spec => []EvidenceAdvances
<1>1. IInv => EvidenceAdvances
  BY DEF IInv
<1> QED
  BY <1>1, Invariant, PTL

(* The largest gap bounds every step, and nothing else is reported.        *)
LEMMA MaxGapIs ==
    ASSUME TypeOK
    PROVE  /\ \A i \in Steps : StepOf(i) \in Int /\ StepOf(i) <= MaxGap
           /\ \/ MaxGap = 0
              \/ \E i \in Steps : MaxGap = StepOf(i)
           /\ MaxGap \in Int
<1> DEFINE S == {0} \cup {StepOf(i) : i \in Steps}
<1>1. size \in Nat /\ TickModulus \in Nat
  BY WindowAssumption, TickModulusAssumption DEF TypeOK
<1>2. ASSUME NEW i \in Steps
      PROVE  StepOf(i) \in Int /\ StepOf(i) <= TickModulus
  <2> DEFINE a == Retained[i - 1].tick
             b == Retained[i].tick
             k == i - 1
  <2>1. i \in 1 .. size /\ k \in 1 .. size /\ k = i - 1
    BY <1>1 DEF Steps
  <2>2. a \in Tick /\ b \in Tick
    BY <2>1, RetainedIs
  <2>3. StepOf(i) = TickDelta(a, b)
    BY DEF StepOf
  <2> HIDE DEF a, b
  <2>4. /\ (b - a) % TickModulus \in 0 .. TickModulus - 1
        /\ TickDelta(a, b) \in Int
        /\ TickDelta(a, b) = IF 2 * ((b - a) % TickModulus) < TickModulus
                             THEN (b - a) % TickModulus
                             ELSE ((b - a) % TickModulus) - TickModulus
    BY <2>2, DeltaIs
  <2> QED
    BY <1>1, <2>3, <2>4
<1>3. S \in SUBSET Int /\ S # {} /\ \A x \in S : x <= TickModulus
  BY <1>1, <1>2
<1>4. Max(S) \in S /\ \A x \in S : x <= Max(S)
  <2> HIDE DEF S
  <2>1. S \in SUBSET Int /\ S # {} /\ TickModulus \in Int /\ \A x \in S : x <= TickModulus
    BY <1>1, <1>3
  <2> QED
    BY <2>1, LargestOf, Zenon
<1>5. MaxGap = Max(S)
  BY DEF MaxGap
<1> HIDE DEF MaxGap
<1>6. \A i \in Steps : StepOf(i) \in S
  OBVIOUS
<1>7. MaxGap \in S /\ \A i \in Steps : StepOf(i) <= MaxGap
  BY <1>4, <1>5, <1>6
<1> QED
  BY <1>2, <1>3, <1>7

(* Capacity samples in a row without a gap push every older gap out, so    *)
(* that a past gap cannot keep the evidence inadmissible (metrics()).      *)
THEOREM GapsAgeOut == Spec => []GapForgotten
<1>1. ASSUME IInv PROVE GapForgotten
  <2> SUFFICES ASSUME inStep = Capacity PROVE MaxGap <= MaxSampleGap
    BY DEF GapForgotten, GapsOk
  <2>1. /\ TypeOK /\ size \in Nat /\ size = Capacity /\ Capacity \in Nat
        /\ MaxSampleGap \in Nat
    BY <1>1, WindowAssumption DEF IInv, Sourced, TypeOK
  <2>2. ASSUME NEW i \in Steps
        PROVE  StepOf(i) <= MaxSampleGap
    <3>1. i + inStep > size + 1
      BY <2>1 DEF Steps
    <3> QED
      BY <1>1, <3>1 DEF IInv, RecentSteps
  <2>3. MaxGap = 0 \/ \E i \in Steps : MaxGap = StepOf(i)
    BY <2>1, MaxGapIs
  <2> QED
    BY <2>1, <2>2, <2>3
<1> QED
  BY <1>1, Invariant, PTL

(* The oldest and the newest sample are the ends of the log.               *)
LEMMA EndsAre ==
    ASSUME TypeOK, size > 0
    PROVE  Oldest = Retained[1] /\ Newest = Retained[size] /\ SpanTicks = Span(1, size)
<1>1. size \in Nat /\ 1 \in 1 .. size /\ size \in 1 .. size /\ 1 - 1 = 0
  BY WindowAssumption DEF TypeOK
<1>2. Oldest = Retained[1] /\ Newest = Retained[size]
  BY <1>1 DEF Oldest, Newest, Retained
<1> QED
  BY <1>2 DEF SpanTicks, Span

(* With admissible gaps that fit in half the tick range, the samples are   *)
(* in order pairwise and the span is what the gaps allow (metrics()).      *)
THEOREM SpanIsBoundedByGaps == Spec => []GapBoundsSpan
<1>1. ASSUME IInv PROVE GapBoundsSpan
  <2> DEFINE G == MaxSampleGap
  <2> SUFFICES ASSUME size > 0, GapsOk, (Capacity - 1) * G < TickModulus \div 2,
                      \A i \in Steps : Early(Retained[i - 1].tick)
               PROVE  /\ \A i, j \in 1 .. size :
                            i < j => TickAfter(Retained[i].tick, Retained[j].tick)
                      /\ SpanTicks <= (size - 1) * G
    BY DEF GapBoundsSpan
  <2>1. /\ TypeOK /\ EvidenceAdvances /\ size \in Nat /\ Capacity \in Nat /\ size <= Capacity
        /\ G \in Nat
    BY <1>1, WindowAssumption DEF IInv, TypeOK
  <2>2. ASSUME NEW k \in Steps
        PROVE  StepOf(k) \in 1 .. G
    <3>1. StepOf(k) > 0
      BY <2>1 DEF EvidenceAdvances
    <3>2. StepOf(k) \in Int /\ StepOf(k) <= MaxGap /\ MaxGap \in Int
      BY <2>1, MaxGapIs
    <3>3. MaxGap <= G
      BY DEF GapsOk
    <3> QED
      BY <2>1, <3>1, <3>2, <3>3
  <2>3. ASSUME NEW i \in 1 .. size, NEW j \in i .. size
        PROVE  /\ Span(i, j) \in Nat
               /\ Span(i, j) <= (j - i) * G
               /\ 2 * ((j - i) * G) < TickModulus => Span(i, j) >= j - i
    <3>1. \A k \in i + 1 .. j : k \in Steps
      BY <2>1 DEF Steps
    <3>2. \A k \in i + 1 .. j : StepOf(k) \in 1 .. G
      BY <2>2, <3>1
    <3> QED
      BY <2>1, <3>2, Paced
  <2>4. ASSUME NEW i \in 1 .. size, NEW j \in 1 .. size, i < j
        PROVE  TickAfter(Retained[i].tick, Retained[j].tick)
    <3> DEFINE a == Retained[i].tick
               b == Retained[j].tick
               d == j - i
               c == Capacity - 1
               dg == d * G
               cg == c * G
               s  == (b - a) % TickModulus
    <3>1. d \in Nat /\ c \in Nat /\ d <= c /\ d > 0 /\ j \in i .. size
      BY <2>1, <2>4
    <3>2. a \in Tick /\ b \in Tick /\ s = Span(i, j)
      BY <2>1, RetainedIs DEF Span
    <3>3. s \in Nat /\ s <= dg /\ (2 * dg < TickModulus => s >= d)
      BY <2>3, <3>1, <3>2
    <3>4. dg \in Nat /\ cg \in Nat /\ dg <= cg
      <4> HIDE DEF d, c
      <4> QED
        BY <2>1, <3>1, TimesKeepsOrder
    <3>5. cg < TickModulus \div 2
      OBVIOUS
    <3> HIDE DEF a, b, d, c, dg, cg
    <3>6. TickDelta(a, b) = IF 2 * s < TickModulus THEN s ELSE s - TickModulus
      BY <3>2, DeltaIs
    <3> HIDE DEF s
    <3>7. TickDelta(a, b) > 0
      BY <3>1, <3>3, <3>4, <3>5, <3>6, HalfIs, TickModulusAssumption
    <3> QED
      BY <3>7 DEF TickAfter, a, b
  <2>5. SpanTicks <= (size - 1) * G
    <3>1. 1 \in 1 .. size /\ size \in 1 .. size
      BY <2>1
    <3> QED
      BY <2>1, <2>3, <3>1, EndsAre
  <2> QED
    BY <2>4, <2>5
<1> QED
  BY <1>1, Invariant, PTL

(* A quotient is below a number when the dividend is below its multiple.   *)
LEMMA QuotientIs ==
    ASSUME NEW s \in Nat, NEW n \in Nat \ {0}
    PROVE  /\ s \div n \in Nat
           /\ \A q \in Nat : s <= q * n => s \div n <= q
           /\ \A q \in Nat : q * n <= s => q <= s \div n
<1> DEFINE p == s \div n
<1>1. p \in Nat /\ n * p <= s /\ s < n * p + n
  OBVIOUS
<1>2. ASSUME NEW q \in Nat, s <= q * n
      PROVE  p <= q
  <2> HIDE DEF p
  <2> SUFFICES ASSUME q + 1 <= p PROVE FALSE
    BY <1>1
  <2>1. (q + 1) * n <= p * n /\ (q + 1) * n = q * n + n
    BY <1>1, TimesKeepsOrder
  <2> QED
    BY <1>1, <1>2, <2>1
<1>3. ASSUME NEW q \in Nat, q * n <= s
      PROVE  q <= p
  <2> HIDE DEF p
  <2> SUFFICES ASSUME p + 1 <= q PROVE FALSE
    BY <1>1
  <2>1. (p + 1) * n <= q * n /\ (p + 1) * n = p * n + n
    BY <1>1, TimesKeepsOrder
  <2> QED
    BY <1>1, <1>3, <2>1
<1> QED
  BY <1>1, <1>2, <1>3

(* Evidence that arrives at the nominal cadence is judged complete, for    *)
(* every interval and however full the ring is (completeness in metrics()).*)
THEOREM NominalCadenceIsComplete == Spec => []CadenceIsComplete
<1>1. ASSUME IInv PROVE CadenceIsComplete
  <2> DEFINE N == NominalInterval
  <2> SUFFICES ASSUME size > 0, \A i \in Steps : StepOf(i) \in 1 .. N
               PROVE  Completeness = 1000
    BY DEF CadenceIsComplete
  <2>1. TypeOK /\ size \in Nat /\ Capacity \in Nat /\ Capacity >= 2 /\ N \in Nat \ {0}
    BY <1>1, WindowAssumption DEF IInv, TypeOK
  <2>2. SpanTicks \in Nat /\ SpanTicks <= (size - 1) * N
    <3>1. 1 \in 1 .. size /\ size \in 1 .. size
      BY <2>1
    <3>2. \A k \in 1 + 1 .. size : StepOf(k) \in 1 .. N
      BY <2>1 DEF Steps
    <3>3. Span(1, size) \in Nat /\ Span(1, size) <= (size - 1) * N
      BY <2>1, <3>1, <3>2, Paced
    <3> QED
      BY <2>1, <3>3, EndsAre
  <2> DEFINE q == SpanTicks \div N
             expected == ExpectedSamples
             ratio == (1000 * size) \div expected
  <2>3. q \in Nat /\ q <= size - 1
    <3> DEFINE s == SpanTicks
               m == size - 1
    <3>1. s \in Nat /\ m \in Nat /\ s <= m * N /\ N \in Nat \ {0}
      BY <2>1, <2>2
    <3> HIDE DEF s, m
    <3>2. s \div N \in Nat /\ s \div N <= m
      BY <3>1, QuotientIs
    <3> QED
      BY <3>2 DEF s, m
  <2>4. expected \in Nat \ {0} /\ expected <= size
    <3> DEFINE a == q + 1
               b == 64 * Capacity
    <3>1. a \in Nat /\ b \in Nat /\ a >= 1 /\ b >= 1 /\ a <= size
      BY <2>1, <2>3
    <3>2. expected = Min({a, b})
      BY DEF ExpectedSamples
    <3> HIDE DEF a, b, expected
    <3>3. Min({a, b}) = IF a <= b THEN a ELSE b
      BY <3>1, MinIs
    <3> QED
      BY <2>1, <3>1, <3>2, <3>3
  <2>5. Completeness = Min({1000, ratio})
    BY DEF Completeness
  <2>6. ratio \in Nat /\ 1000 <= ratio
    <3> DEFINE whole == 1000 * size
    <3> HIDE DEF expected
    <3>1. whole \in Nat /\ 1000 * expected <= whole
      BY <2>1, <2>4
    <3> HIDE DEF whole
    <3>2. whole \div expected \in Nat /\ 1000 <= whole \div expected
      BY <2>4, <3>1, QuotientIs
    <3> QED
      BY <3>2 DEF whole
  <2> HIDE DEF ratio
  <2>7. Min({1000, ratio}) = IF 1000 <= ratio THEN 1000 ELSE ratio
    BY <2>6, MinIs
  <2> QED
    BY <2>5, <2>6, <2>7
<1> QED
  BY <1>1, Invariant, PTL
-----------------------------------------------------------------------------
(* The ring implements the bounded log.                                    *)

(* Storing a sample is appending to the log.                               *)
LEMMA StoreAppends ==
    ASSUME TypeOK, NEW sample \in Sample, StoreSample(sample)
    PROVE  Retained' = IF Len(Retained) = Capacity THEN Append(Tail(Retained), sample)
                       ELSE Append(Retained, sample)
<1> DEFINE old == Retained
           new == Retained'
           n   == size'
<1>1. /\ size \in Nat /\ Capacity \in Nat /\ Capacity >= 2 /\ size <= Capacity /\ sample \in Stored
  BY WindowAssumption DEF TypeOK, Stored
<1>2. old \in Seq(Stored) /\ Len(old) = size
  BY RetainedIs
<1>3. /\ n \in Nat /\ n = size + 1 - Shift /\ new[n] = sample
      /\ \A i \in 1 .. n - 1 : i + Shift \in 1 .. size /\ new[i] = old[i + Shift]
  BY <1>1, StoreIs
<1>4. \A i \in 1 .. n : new[i] \in Stored
  BY AcceptSteps
<1>5. new \in Seq(Stored) /\ Len(new) = n
  <2>1. new = [i \in 1 .. n |-> new[i]]
    BY DEF Retained
  <2>2. new \in [1 .. n -> Stored]
    <3> HIDE DEF new
    <3> QED
      BY <1>4, <2>1
  <2> HIDE DEF new, n
  <2> QED
    BY <1>3, <2>2, LenProperties, IsASeq
<1>6. CASE size = Capacity
  <2> DEFINE rest == Tail(old)
             log  == Append(rest, sample)
  <2>1. Shift = 1 /\ n = size
    BY <1>1, <1>3, <1>6 DEF Shift
  <2> HIDE DEF new, n, old
  <2>2. old # << >>
    BY <1>1, <1>2, <1>6, EmptySeq
  <2>3. /\ rest \in Seq(Stored) /\ Len(rest) = size - 1
        /\ \A i \in 1 .. size - 1 : rest[i] = old[i + 1]
    BY <1>2, <2>2, HeadTailProperties
  <2> HIDE DEF rest
  <2>4. log \in Seq(Stored) /\ Len(log) = (size - 1) + 1 /\ log[(size - 1) + 1] = sample
        /\ \A i \in 1 .. size - 1 : log[i] = rest[i]
    BY <1>1, <2>3, AppendProperties
  <2> HIDE DEF log
  <2>5. ASSUME NEW i \in 1 .. n
        PROVE  new[i] = log[i]
    <3>1. CASE i = n
      BY <1>1, <1>3, <2>1, <2>4, <3>1
    <3>2. CASE i # n
      BY <1>1, <1>3, <2>1, <2>3, <2>4, <3>2
    <3> QED
      BY <3>1, <3>2
  <2>6. Len(log) = n
    BY <1>1, <2>1, <2>4
  <2>7. new = log
    BY <1>5, <2>4, <2>5, <2>6, SeqEqual
  <2> QED
    BY <1>2, <1>6, <2>7 DEF log, rest, old, new
<1>7. CASE size # Capacity
  <2> DEFINE log == Append(old, sample)
  <2>1. Shift = 0 /\ n = size + 1
    BY <1>1, <1>3, <1>7 DEF Shift
  <2> HIDE DEF new, n, old
  <2>2. log \in Seq(Stored) /\ Len(log) = size + 1 /\ log[size + 1] = sample
        /\ \A i \in 1 .. size : log[i] = old[i]
    BY <1>1, <1>2, AppendProperties
  <2> HIDE DEF log
  <2>3. ASSUME NEW i \in 1 .. n
        PROVE  new[i] = log[i]
    <3>1. CASE i = n
      BY <1>1, <1>3, <2>1, <2>2, <3>1
    <3>2. CASE i # n
      BY <1>1, <1>3, <2>1, <2>2, <3>2
    <3> QED
      BY <3>1, <3>2
  <2>4. Len(log) = n
    BY <1>1, <2>1, <2>2
  <2>5. new = log
    BY <1>5, <2>2, <2>3, <2>4, SeqEqual
  <2> QED
    BY <1>2, <1>7, <2>5 DEF log, old, new
<1> QED
  BY <1>6, <1>7

(* The modular indexing of samples_, head_ and size_ implements a bounded  *)
(* log of the most recent accepted samples, through every wrap and reset.  *)
THEOREM RingImplementsLog == Spec => RingIsBoundedLog
<1>1. size = 0 => Retained = << >>
  BY DEF Retained
<1>2. Init => Log!Init
  BY <1>1 DEF Init, Log!Init
<1>3. IInv /\ [Next]_vars => [Log!Next]_Retained
  <2> SUFFICES ASSUME IInv, [Next]_vars PROVE [Log!Next]_Retained
    OBVIOUS
  <2>1. CASE Reset
    <3>1. size' = 0
      BY <2>1 DEF Reset
    <3>2. Retained' = << >>
      BY <3>1 DEF Retained
    <3> QED
      BY <3>2 DEF Log!Next, Log!Clear
  <2>2. ASSUME NEW sample \in Sample, NEW declared \in BOOLEAN, Refuse(sample, declared)
        PROVE  Retained' = Retained
    <3>1. UNCHANGED << ring, head, size >>
      BY <2>2 DEF Refuse
    <3> QED
      BY <3>1 DEF Retained, At
  <2>3. ASSUME NEW sample \in Sample, NEW declared \in BOOLEAN, Accept(sample, declared)
        PROVE  Log!Accept(sample)
    <3>1. TypeOK /\ StoreSample(sample)
      BY <2>3 DEF IInv, Accept
    <3> QED
      BY <3>1, StoreAppends DEF Log!Accept
  <2>4. CASE UNCHANGED vars
    <3>1. UNCHANGED << ring, head, size >>
      BY <2>4 DEF vars
    <3>2. Retained' = Retained
      BY <3>1 DEF Retained, At
    <3> QED
      BY <3>2
  <2> QED
    BY <2>1, <2>2, <2>3, <2>4 DEF Next, Offer, Log!Next
<1> QED
  BY <1>2, <1>3, Invariant, PTL DEF Spec, RingIsBoundedLog, Log!Spec
=============================================================================
