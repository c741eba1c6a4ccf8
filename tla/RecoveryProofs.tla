--------------------------- MODULE RecoveryProofs ---------------------------
(***************************************************************************)
(* What Recovery guarantees for every set of episodes and policies, every  *)
(* limit of the journal and number of processes, with writes that fail and *)
(* without.  A restart folds over the journal: the fold is first shown to  *)
(* apply the records one after the other.                                  *)
(***************************************************************************)
EXTENDS Recovery, NumberProofs, SequenceTheorems, FiniteSetTheorems

-----------------------------------------------------------------------------
(* What a restart computes.                                                *)

After(covered, state, r) == IF r.seq > covered THEN Accumulate(state, r.entry) ELSE state

Replay(covered, base, j) ==
    LET Apply(state, r) == After(covered, state, r) IN FoldLeft(Apply, base, j)

(* A state stays one, whatever record is applied.                          *)
LEMMA AccumulatedIsState ==
    ASSUME NEW state \in State, NEW entry \in Entry
    PROVE  Accumulate(state, entry) \in State
<1>1. CASE entry.type = "policy"
  BY <1>1 DEF Accumulate, State, Entry
<1>2. CASE entry.type = "opened"
  BY <1>2 DEF Accumulate, State, Entry
<1>3. CASE entry.type = "closed"
  <2>1. entry.of \in Episodes
    BY <1>3 DEF Entry
  <2>2. [state.closed EXCEPT ![entry.of] = @ + 1] \in [Episodes -> Nat]
    BY <2>1 DEF State
  <2>3. Accumulate(state, entry) =
            [state EXCEPT !.open = state.open \ {entry.of},
                          !.closed = [state.closed EXCEPT ![entry.of] = @ + 1]]
    BY <1>3 DEF Accumulate, State
  <2> QED
    BY <2>2, <2>3 DEF State
<1>4. CASE entry.type \notin {"policy", "opened", "closed"}
  BY <1>4 DEF Accumulate
<1> QED
  BY <1>1, <1>2, <1>3, <1>4

LEMMA AfterIsState ==
    ASSUME NEW covered, NEW state \in State, NEW r \in Record
    PROVE  After(covered, state, r) \in State
BY AccumulatedIsState DEF After, Record

(* A restart applies the records one after the other.                      *)
LEMMA ReplayRuns ==
    ASSUME NEW covered, NEW base \in State, NEW j \in Seq(Record)
    PROVE  \E run \in [0 .. Len(j) -> State] :
              /\ run[0] = base
              /\ \A k \in 1 .. Len(j) : run[k] = After(covered, run[k - 1], j[k])
              /\ Replay(covered, base, j) = run[Len(j)]
<1> DEFINE n == Len(j)
           step == [k \in 1 .. n |-> [state \in State |-> After(covered, state, j[k])]]
           Iterates(iter) == iter = [s \in SUBSET (1 .. n) |->
               IF s = {} THEN base ELSE After(covered, iter[s \ {Max(s)}], j[Max(s)])]
<1>1. n \in Nat /\ DOMAIN j = 1 .. n /\ \A k \in 1 .. n : j[k] \in Record
  OBVIOUS
<1>2. Replay(covered, base, j) = (CHOOSE iter : Iterates(iter))[1 .. n]
  BY <1>1, Zenon DEF Replay, FoldLeft, MapThenFoldSet
<1> HIDE DEF n
<1>3. \E iter : Iterates(iter)
  <2>1. step \in [1 .. n -> [State -> State]]
    BY <1>1, AfterIsState
  <2>2. PICK g \in [SUBSET (1 .. n) -> State] : IsFold(g, base, step, n)
    <3> HIDE DEF step
    <3> QED
      BY <1>1, <2>1, FoldExists
  <2>3. ASSUME NEW s \in SUBSET (1 .. n), s # {}
        PROVE  g[s] = After(covered, g[s \ {Max(s)}], j[Max(s)])
    <3>1. Max(s) \in 1 .. n
      <4>1. s \in SUBSET Int /\ \A x \in s : x <= n
        BY <1>1
      <4>2. n \in Int /\ s # {}
        BY <1>1, <2>3
      <4>3. Max(s) \in s
        BY <4>1, <4>2, LargestOf
      <4> QED
        BY <4>3
    <3>2. s \ {Max(s)} \in SUBSET (1 .. n)
      OBVIOUS
    <3> QED
      BY <2>2, <2>3, <3>1, <3>2 DEF IsFold
  <2>4. \A s \in SUBSET (1 .. n) :
            g[s] = IF s = {} THEN base ELSE After(covered, g[s \ {Max(s)}], j[Max(s)])
    BY <2>2, <2>3 DEF IsFold
  <2>5. g = [s \in SUBSET (1 .. n) |->
               IF s = {} THEN base ELSE After(covered, g[s \ {Max(s)}], j[Max(s)])]
    BY <2>4
  <2> QED
    BY <2>5
<1>4. PICK iter : Iterates(iter) /\ Replay(covered, base, j) = iter[1 .. n]
  <2> HIDE DEF Iterates
  <2> QED
    BY <1>2, <1>3
<1>5. iter[{}] = base
  BY <1>4
<1>6. ASSUME NEW k \in 1 .. n
      PROVE  iter[1 .. k] = After(covered, iter[1 .. (k - 1)], j[k])
  <2>1. k \in 1 .. k /\ k \in Nat /\ \A i \in 1 .. k : i \in 1 .. n
    BY <1>1
  <2>2. Max(1 .. k) = k
    BY <2>1, LastOf
  <2>3. (1 .. k) \ {k} = 1 .. (k - 1)
    BY <2>1
  <2> QED
    BY <1>4, <2>1, <2>2, <2>3, 1 .. k \in SUBSET (1 .. n)
<1> DEFINE run == [k \in 0 .. n |-> iter[1 .. k]]
           T == {k \in Nat : k <= n => iter[1 .. k] \in State}
<1>7. T = Nat
  <2>1. 0 \in T
    <3>1. 1 .. 0 = {}
      OBVIOUS
    <3> QED
      BY <1>5, <3>1
  <2>2. ASSUME NEW k \in T PROVE k + 1 \in T
    <3> SUFFICES ASSUME k + 1 <= n PROVE iter[1 .. k + 1] \in State
      OBVIOUS
    <3> DEFINE m == k + 1
    <3>1. m \in 1 .. n /\ m - 1 = k /\ iter[1 .. k] \in State
      BY <1>1
    <3> HIDE DEF m
    <3>2. iter[1 .. m] = After(covered, iter[1 .. (m - 1)], j[m])
      BY <1>6, <3>1
    <3>3. iter[1 .. m] \in State
      BY <1>1, <3>1, <3>2, AfterIsState
    <3> QED
      BY <3>3 DEF m
  <2>3. T \in SUBSET Nat
    OBVIOUS
  <2> HIDE DEF T
  <2> QED
    BY <2>1, <2>2, <2>3, AllNaturals
<1>8. run \in [0 .. n -> State]
  <2>1. \A k \in 0 .. n : iter[1 .. k] \in State
    BY <1>1, <1>7
  <2> QED
    BY <2>1
<1>9. run[0] = base /\ run[n] = iter[1 .. n]
  BY <1>1, <1>5
<1>10. ASSUME NEW k \in 1 .. n PROVE run[k] = After(covered, run[k - 1], j[k])
  <2>1. k \in 0 .. n /\ k - 1 \in 0 .. n
    BY <1>1
  <2> QED
    BY <1>6, <2>1
<1> HIDE DEF run
<1> QED
  BY <1>4, <1>8, <1>9, <1>10 DEF n
(* The run of a longer journal begins like that of a shorter one.          *)
LEMMA ReplayAppends ==
    ASSUME NEW covered, NEW base \in State, NEW j \in Seq(Record), NEW r \in Record
    PROVE  /\ Replay(covered, base, j) \in State
           /\ Replay(covered, base, Append(j, r)) = After(covered, Replay(covered, base, j), r)
<1> DEFINE n == Len(j)
           jr == Append(j, r)
<1>1. /\ n \in Nat /\ jr \in Seq(Record) /\ Len(jr) = n + 1
      /\ jr[n + 1] = r /\ \A k \in 1 .. n : jr[k] = j[k]
  OBVIOUS
<1>2. PICK run \in [0 .. n -> State] :
          /\ run[0] = base
          /\ \A k \in 1 .. n : run[k] = After(covered, run[k - 1], j[k])
          /\ Replay(covered, base, j) = run[n]
  BY ReplayRuns
<1> HIDE DEF jr
<1>3. PICK longer \in [0 .. Len(jr) -> State] :
          /\ longer[0] = base
          /\ \A k \in 1 .. Len(jr) : longer[k] = After(covered, longer[k - 1], jr[k])
          /\ Replay(covered, base, jr) = longer[Len(jr)]
  BY <1>1, ReplayRuns
<1> HIDE DEF n
<1> DEFINE T == {k \in Nat : k <= n => longer[k] = run[k]}
<1>4. T = Nat
  <2>1. 0 \in T
    BY <1>2, <1>3
  <2>2. ASSUME NEW k \in T PROVE k + 1 \in T
    <3> SUFFICES ASSUME k + 1 <= n PROVE longer[k + 1] = run[k + 1]
      OBVIOUS
    <3> DEFINE m == k + 1
    <3>1. m \in 1 .. n /\ m \in 1 .. Len(jr) /\ m - 1 = k /\ longer[k] = run[k]
      BY <1>1
    <3> HIDE DEF m
    <3>2. longer[m] = run[m]
      BY <1>1, <1>2, <1>3, <3>1
    <3> QED
      BY <3>2 DEF m
  <2>3. T \in SUBSET Nat
    OBVIOUS
  <2> HIDE DEF T
  <2> QED
    BY <2>1, <2>2, <2>3, AllNaturals
<1>5. longer[n] = run[n] /\ run[n] \in State
  BY <1>1, <1>4
<1>6. longer[n + 1] = After(covered, longer[n], r)
  <2> DEFINE m == n + 1
  <2>1. m \in 1 .. Len(jr) /\ m - 1 = n /\ jr[m] = r
    BY <1>1
  <2> HIDE DEF m
  <2>2. longer[m] = After(covered, longer[n], r)
    BY <1>3, <2>1
  <2> QED
    BY <2>2 DEF m
<1> QED
  BY <1>1, <1>2, <1>3, <1>5, <1>6 DEF jr

(* Records that the snapshot covers change nothing.                        *)
LEMMA ReplayCovered ==
    ASSUME NEW covered, NEW base \in State, NEW j \in Seq(Record),
           \A i \in DOMAIN j : ~(j[i].seq > covered)
    PROVE  Replay(covered, base, j) = base
<1> DEFINE n == Len(j)
<1>1. n \in Nat /\ DOMAIN j = 1 .. n
  OBVIOUS
<1>2. PICK run \in [0 .. n -> State] :
          /\ run[0] = base
          /\ \A k \in 1 .. n : run[k] = After(covered, run[k - 1], j[k])
          /\ Replay(covered, base, j) = run[n]
  BY ReplayRuns
<1> HIDE DEF n
<1>3. \A k \in 1 .. n : run[k] = run[k - 1]
  BY <1>1, <1>2 DEF After
<1> DEFINE T == {k \in Nat : k <= n => run[k] = base}
<1>4. T = Nat
  <2>1. 0 \in T
    BY <1>2
  <2>2. ASSUME NEW k \in T PROVE k + 1 \in T
    <3> SUFFICES ASSUME k + 1 <= n PROVE run[k + 1] = base
      OBVIOUS
    <3> DEFINE m == k + 1
    <3>1. m \in 1 .. n /\ m - 1 = k /\ run[k] = base
      BY <1>1
    <3> HIDE DEF m
    <3>2. run[m] = base
      BY <1>3, <3>1
    <3> QED
      BY <3>2 DEF m
  <2>3. T \in SUBSET Nat
    OBVIOUS
  <2> HIDE DEF T
  <2> QED
    BY <2>1, <2>2, <2>3, AllNaturals
<1> QED
  BY <1>1, <1>2, <1>4

(* What can be read of a journal is whole, and all of it when nothing is   *)
(* torn; a record torn at its end is not read.                             *)
LEMMA ReadableIs ==
    ASSUME NEW j \in Seq(Record)
    PROVE  /\ Readable(j) \in Seq(Record)
           /\ \A i \in DOMAIN Readable(j) : Readable(j)[i].whole
           /\ (\A i \in DOMAIN j : j[i].whole) => Readable(j) = j
<1> DEFINE torn == {i \in DOMAIN j : ~j[i].whole}
<1>1. CASE torn = {}
  BY <1>1 DEF Readable
<1>2. CASE torn # {}
  <2> DEFINE m == Min(torn)
  <2>1. torn \in SUBSET Nat /\ torn \subseteq 1 .. Len(j)
    OBVIOUS
  <2>2. m \in torn /\ \A i \in torn : m <= i
    <3>1. \E x \in torn : \A i \in torn : x <= i
      BY <1>2, <2>1, SmallestOf
    <3> HIDE DEF torn
    <3> QED
      BY <3>1 DEF Min
  <2>3. m \in 1 .. Len(j) /\ m - 1 \in 0 .. Len(j)
    BY <2>1, <2>2
  <2>4. Readable(j) = SubSeq(j, 1, m - 1)
    BY <1>2 DEF Readable
  <2> HIDE DEF m
  <2>5. /\ SubSeq(j, 1, m - 1) \in Seq(Record)
        /\ DOMAIN SubSeq(j, 1, m - 1) = 1 .. (m - 1)
        /\ \A i \in 1 .. (m - 1) : SubSeq(j, 1, m - 1)[i] = j[i]
    BY <2>3
  <2>6. \A i \in 1 .. (m - 1) : j[i].whole
    BY <2>2, <2>3
  <2> QED
    BY <1>2, <2>4, <2>5, <2>6
<1> QED
  BY <1>1, <1>2
LEMMA TornIsNotRead ==
    ASSUME NEW j \in Seq(Record), \A i \in DOMAIN j : j[i].whole,
           NEW r \in Record, ~r.whole
    PROVE  Readable(Append(j, r)) = j
<1> DEFINE jr == Append(j, r)
           n == Len(j)
           torn == {i \in DOMAIN jr : ~jr[i].whole}
<1>1. /\ n \in Nat /\ DOMAIN jr = 1 .. (n + 1) /\ jr[n + 1] = r
      /\ \A i \in 1 .. n : jr[i] = j[i] /\ j[i].whole
  OBVIOUS
<1> HIDE DEF jr
<1>2. torn = {n + 1}
  BY <1>1
<1>3. Min(torn) = n + 1
  BY <1>1, <1>2 DEF Min
<1>4. Readable(jr) = SubSeq(jr, 1, (n + 1) - 1)
  BY <1>2, <1>3 DEF Readable
<1>5. (n + 1) - 1 = n
  BY <1>1
<1>6. SubSeq(Append(j, r), 1, n) = j
  OBVIOUS
<1> QED
  BY <1>4, <1>5, <1>6 DEF jr

(* What would be recovered, in a state and in the next.                    *)
LEMMA RecoveredIs ==
    Recovered = Replay(snapshot.covered, snapshot.state, Readable(journal))
BY Zenon DEF Recovered, Replay, After

LEMMA RecoveredNextIs ==
    (Recovered = Replay(snapshot.covered, snapshot.state, Readable(journal)))'
BY RecoveredIs, PTL

-----------------------------------------------------------------------------
(* The inductive invariant.                                                *)

(* While nothing was torn by a failing write, the only record that is not  *)
(* whole is one at which the process ended.                                *)
TearsLast ==
    ~harmed.torn =>
        \A i \in DOMAIN journal :
            ~journal[i].whole => ~up /\ i = Len(journal) /\ ~journal[i].acked

(* Only a record that was refused before a compaction is written with a    *)
(* sequence that the snapshot covers.                                      *)
Sequenced ==
    /\ up => recordSeq >= snapshot.covered
    /\ io \in {"renamed", "retry"} => recordSeq = snapshot.covered

(* The record of a closing that is written again is of an episode that the *)
(* snapshot has in its history.                                            *)
ClosingOnce ==
    io \in {"renamed", "retry"} /\ pending # << >> /\ Head(pending).type = "closed" =>
        harmed.closing = {}

Plus(state, episodes) == [state EXCEPT !.open = @ \cup episodes]

(* Until the journal is emptied, the snapshot alone is what was promised,  *)
(* and what a restart gives if it covers the journal.                      *)
Replaced ==
    io = "renamed" =>
        /\ stable = Plus(snapshot.state, harmed.closing)
        /\ ~harmed.overtaken => \A i \in DOMAIN journal : journal[i].seq <= snapshot.covered

(* Out of the windows, the disk holds what was promised but for an episode *)
(* whose closing is on its way.                                            *)
Kept == ~harmed.torn /\ ~harmed.overtaken => stable = Plus(Recovered, harmed.closing)

IInv ==
    /\ TypeOK /\ IsFiniteSet(memory.open)
    /\ TearsLast /\ Sequenced /\ ClosingOnce /\ Replaced /\ Kept

(* A record applies alike to a state and to one with more episodes open,   *)
(* except that it closes one of these, too.                                *)
LEMMA AccumulatePlus ==
    ASSUME NEW state \in State, NEW episodes \in SUBSET Episodes, NEW entry \in Entry
    PROVE  Accumulate(Plus(state, episodes), entry) =
               Plus(Accumulate(state, entry),
                    IF entry.type = "closed" THEN episodes \ {entry.of} ELSE episodes)
<1>0. Plus(state, episodes) \in State
  BY DEF Plus, State
<1>1. CASE entry.type = "policy"
  BY <1>1 DEF Accumulate, Plus, State
<1>2. CASE entry.type = "opened"
  BY <1>2 DEF Accumulate, Plus, State
<1>3. CASE entry.type = "closed"
  BY <1>3 DEF Accumulate, Plus, State
<1>4. CASE entry.type \notin {"policy", "opened", "closed"}
  BY <1>4 DEF Accumulate
<1> QED
  BY <1>1, <1>2, <1>3, <1>4

LEMMA InitInvariant == Init => IInv
<1> SUFFICES ASSUME Init PROVE IInv
  OBVIOUS
<1>1. Blank \in State
  BY RecoveryAssumption DEF Blank, State
<1>2. journal \in Seq(Record) /\ pending \in Seq(Entry)
  BY DEF Init
<1>3. TypeOK
  <2>1. snapshot \in [covered : Nat, state : State] /\ memory \in State /\ stable \in State
    BY <1>1 DEF Init
  <2>2. NoHarm \in Harm
    BY DEF Harm, NoHarm
  <2>3. 0 \in 0 .. MaxLives
    BY RecoveryAssumption
  <2> QED
    BY <1>2, <2>1, <2>2, <2>3 DEF Init, TypeOK
<1>4. IsFiniteSet(memory.open)
  BY FS_EmptySet DEF Init, Blank
<1>5. TearsLast /\ Sequenced /\ ClosingOnce /\ Replaced
  BY DEF Init, TearsLast, Sequenced, ClosingOnce, Replaced
<1>6. Kept
  <2>1. Readable(journal) = << >>
    BY DEF Init, Readable
  <2>2. Replay(0, Blank, << >>) = Blank
    <3>1. << >> \in Seq(Record) /\ \A i \in DOMAIN << >> : ~(<< >>[i].seq > 0)
      OBVIOUS
    <3> QED
      BY <1>1, <3>1, ReplayCovered
  <2>3. Recovered = Blank
    BY <2>1, <2>2, RecoveredIs DEF Init
  <2>4. Plus(Blank, {}) = Blank
    BY DEF Plus, Blank
  <2> QED
    BY <2>3, <2>4 DEF Init, Kept, NoHarm
<1> QED
  BY <1>3, <1>4, <1>5, <1>6 DEF IInv
-----------------------------------------------------------------------------
(* The calls.                                                              *)

(* The parts of the invariant do not depend on what a call changes.        *)
LEMMA SameDisk ==
    ASSUME IInv, UNCHANGED << disk, stable, harmed >>
    PROVE  Recovered' = Recovered /\ Kept'
<1>1. Recovered' = Recovered
  BY RecoveredIs, RecoveredNextIs DEF disk
<1> QED
  BY <1>1 DEF IInv, Kept

LEMMA CallStep ==
    ASSUME IInv, NEW mem \in State, IsFiniteSet(mem.open), NEW intents \in SUBSET mem.open,
           NEW entries \in Seq(Entry), Call(mem, intents, entries), (used \subseteq Episodes)'
    PROVE  IInv'
<1>1. /\ memory' = mem /\ live' = intents /\ pending' = entries /\ io = "idle"
      /\ UNCHANGED << disk, up, recordSeq, bytes, handle, io, lives, stable, harmed >>
  BY DEF Call, Idle
<1>2. TypeOK'
  BY <1>1 DEF IInv, TypeOK, disk
<1>3. Kept'
  BY <1>1, SameDisk
<1>4. TearsLast' /\ Sequenced' /\ ClosingOnce' /\ Replaced'
  BY <1>1 DEF IInv, TearsLast, Sequenced, ClosingOnce, Replaced, disk
<1> QED
  BY <1>1, <1>2, <1>3, <1>4 DEF IInv

(* The entries that a call leaves are entries.                             *)
LEMMA EntriesAre ==
    ASSUME NEW e \in Episodes
    PROVE  /\ Entries("opened", e) \in Seq(Entry)
           /\ Entries("closed", e) \in Seq(Entry)
           /\ Entries("intent", e) \in Seq(Entry)
BY DEF Entries, Entry

LEMMA PolicyEntriesAre ==
    /\ \A p \in Policies : Entries("policy", p) \in Seq(Entry)
    /\ Entries("authority", None) \in Seq(Entry)
BY DEF Entries, Entry

(* Intents are retired in some order.                                      *)
LEMMA RetiredAre ==
    ASSUME NEW intents \in SUBSET Episodes, IsFiniteSet(intents)
    PROVE  Retired(intents) \in Seq(Entry)
<1> DEFINE S == [type : {"intent"}, of : intents]
           f == [e \in intents |-> [type |-> "intent", of |-> e]]
<1>1. f \in Surjection(intents, S)
  <2>1. ASSUME NEW y \in S PROVE \E e \in intents : f[e] = y
    <3>1. y.of \in intents /\ f[y.of] = y
      OBVIOUS
    <3> QED
      BY <3>1
  <2>2. f \in [intents -> S]
    OBVIOUS
  <2> QED
    BY <2>1, <2>2 DEF Surjection
<1>2. IsFiniteSet(S) /\ Cardinality(S) \in Nat
  <2> HIDE DEF f, S
  <2> QED
    BY <1>1, FS_Surjection, FS_CardinalityType
<1>3. S \subseteq Entry
  BY DEF Entry
<1> HIDE DEF S
<1>4. \E g \in [1 .. Cardinality(S) -> S] : IsInjective(g)
  <2>1. ExistsBijection(1 .. Cardinality(S), S)
    BY <1>2, FS_NatBijection, FS_CountingElements
  <2> QED
    BY <2>1 DEF ExistsBijection, Bijection, Injection
<1>5. SetToSeq(S) \in [1 .. Cardinality(S) -> S]
  BY <1>4 DEF SetToSeq
<1>6. SetToSeq(S) \in Seq(Entry)
  BY <1>2, <1>3, <1>5
<1> QED
  BY <1>6 DEF Retired, S
(* Fencing closes every episode.                                           *)
LEMMA FencedOfIsState ==
    ASSUME NEW state \in State, NEW gone \in SUBSET Episodes
    PROVE  FencedOf(state, gone) \in State /\ FencedOf(state, gone).open = state.open \ gone
<1> DEFINE counts == [e \in Episodes |-> IF e \in gone THEN state.closed[e] + 1
                                                       ELSE state.closed[e]]
<1>1. counts \in [Episodes -> Nat]
  BY DEF State
<1>2. FencedOf(state, gone) = [state EXCEPT !.open = state.open \ gone, !.closed = counts]
  BY DEF FencedOf
<1> HIDE DEF counts
<1> QED
  BY <1>1, <1>2 DEF State

(* A state with all its episodes fenced is a state with none open.         *)
LEMMA FencedIsState ==
    ASSUME NEW state \in State
    PROVE  Fenced(state) \in State /\ Fenced(state).open = {}
<1>1. state.open \in SUBSET Episodes
  BY DEF State
<1> QED
  BY <1>1, FencedOfIsState DEF Fenced

(* Every call keeps the invariant.                                         *)
LEMMA CallsKeep ==
    ASSUME IInv,
           \/ \E e \in Episodes : Open(e) \/ Close(e) \/ Request(e)
           \/ \E p \in Policies : InstallPolicy(p)
           \/ SetResourcePolicy \/ BindAuthority \/ Expire
    PROVE  IInv'
<1>0. /\ TypeOK /\ memory \in State /\ IsFiniteSet(memory.open)
      /\ live \subseteq memory.open /\ memory.open \subseteq Episodes
      /\ IsFiniteSet(live) /\ \A gone \in SUBSET live : IsFiniteSet(gone)
  <2>1. TypeOK /\ memory \in State /\ IsFiniteSet(memory.open) /\ live \subseteq memory.open
    BY DEF IInv, TypeOK
  <2>2. IsFiniteSet(live)
    BY <2>1, FS_Subset
  <2> QED
    BY <2>1, <2>2, FS_Subset DEF State
<1>1. ASSUME NEW e \in Episodes, Open(e) PROVE IInv'
  <2> DEFINE mem == [memory EXCEPT !.open = @ \cup {e}]
  <2>1. Call(mem, live, Entries("opened", e)) /\ used' = used \cup {e}
    BY <1>1 DEF Open
  <2>2. mem \in State /\ mem.open = memory.open \cup {e}
    BY <1>0 DEF State
  <2>3. IsFiniteSet(mem.open) /\ live \in SUBSET mem.open
    BY <1>0, <2>2, FS_AddElement
  <2>4. used' \subseteq Episodes
    BY <1>0, <2>1 DEF TypeOK
  <2> HIDE DEF mem
  <2> QED
    BY <2>1, <2>2, <2>3, <2>4, EntriesAre, CallStep
<1>2. ASSUME NEW e \in Episodes, Close(e) PROVE IInv'
  <2> DEFINE mem == [memory EXCEPT !.open = @ \ {e}]
             entries == Retired(live \cap {e}) \o Entries("closed", e)
  <2>1. Call(mem, live \ {e}, entries) /\ used' = used
    BY <1>2 DEF Close
  <2>2. mem \in State /\ mem.open = memory.open \ {e}
    BY <1>0 DEF State
  <2>3. IsFiniteSet(mem.open) /\ live \ {e} \in SUBSET mem.open
    BY <1>0, <2>2, FS_RemoveElement
  <2>4. entries \in Seq(Entry)
    <3>1. Retired(live \cap {e}) \in Seq(Entry)
      <4> DEFINE gone == live \cap {e}
      <4>1. gone \in SUBSET Episodes /\ IsFiniteSet(gone)
        BY <1>0
      <4> HIDE DEF gone
      <4>2. Retired(gone) \in Seq(Entry)
        BY <4>1, RetiredAre
      <4> QED
        BY <4>2 DEF gone
    <3> QED
      BY <3>1, EntriesAre
  <2>5. used' \subseteq Episodes
    BY <1>0, <2>1 DEF TypeOK
  <2> HIDE DEF mem, entries
  <2> QED
    BY <2>1, <2>2, <2>3, <2>4, <2>5, CallStep
<1>3. ASSUME NEW e \in Episodes, Request(e) PROVE IInv'
  <2>1. /\ Call(memory, live \cup {e}, Entries("intent", e)) /\ used' = used
        /\ live \cup {e} \in SUBSET memory.open
    BY <1>0, <1>3 DEF Request
  <2>2. used' \subseteq Episodes
    BY <1>0, <2>1 DEF TypeOK
  <2> QED
    BY <1>0, <2>1, <2>2, EntriesAre, CallStep
<1>4. ASSUME NEW p \in Policies, InstallPolicy(p) PROVE IInv'
  <2> DEFINE mem == [Fenced(memory) EXCEPT !.fallback = p]
             entries == Retired(live) \o Entries("policy", p)
  <2>1. Call(mem, {}, entries) /\ used' = used
    BY <1>4 DEF InstallPolicy
  <2>2. mem \in State /\ mem.open = {}
    <3>1. Fenced(memory) \in State /\ Fenced(memory).open = {}
      BY <1>0, FencedIsState
    <3> QED
      BY <3>1 DEF State
  <2>3. IsFiniteSet(mem.open) /\ {} \in SUBSET mem.open
    BY <2>2, FS_EmptySet
  <2>4. entries \in Seq(Entry)
    <3>1. Retired(live) \in Seq(Entry)
      BY <1>0, RetiredAre
    <3> QED
      BY <3>1, PolicyEntriesAre
  <2>5. used' \subseteq Episodes
    BY <1>0, <2>1 DEF TypeOK
  <2> HIDE DEF mem, entries
  <2> QED
    BY <2>1, <2>2, <2>3, <2>4, <2>5, CallStep
<1>5. ASSUME BindAuthority PROVE IInv'
  <2>1. PICK gone \in SUBSET live :
            Call(memory, live \ gone, Retired(gone) \o Entries("authority", None))
    BY <1>5 DEF BindAuthority
  <2> DEFINE entries == Retired(gone) \o Entries("authority", None)
  <2>2. entries \in Seq(Entry)
    <3>1. Retired(gone) \in Seq(Entry)
      BY <1>0, RetiredAre
    <3> QED
      BY <3>1, PolicyEntriesAre
  <2>3. used' \subseteq Episodes /\ live \ gone \in SUBSET memory.open
    BY <1>0, <1>5 DEF TypeOK, BindAuthority
  <2> HIDE DEF entries
  <2> QED
    BY <1>0, <2>1, <2>2, <2>3, CallStep DEF entries
<1>6. ASSUME Expire PROVE IInv'
  <2>1. PICK gone \in SUBSET live : Call(memory, live \ gone, Retired(gone))
    BY <1>6 DEF Expire
  <2>2. Retired(gone) \in Seq(Entry)
    BY <1>0, RetiredAre
  <2>3. used' \subseteq Episodes /\ live \ gone \in SUBSET memory.open
    BY <1>0, <1>6 DEF TypeOK, Expire
  <2> QED
    BY <1>0, <2>1, <2>2, <2>3, CallStep
<1>7. ASSUME SetResourcePolicy PROVE IInv'
  <2>1. PICK gone \in SUBSET memory.open : Call(FencedOf(memory, gone), {}, Retired(live))
    BY <1>7 DEF SetResourcePolicy
  <2> DEFINE mem == FencedOf(memory, gone)
  <2>2. mem \in State /\ mem.open = memory.open \ gone
    BY <1>0, FencedOfIsState
  <2>3. IsFiniteSet(mem.open) /\ {} \in SUBSET mem.open
    BY <1>0, <2>2, FS_Subset
  <2>4. Retired(live) \in Seq(Entry)
    BY <1>0, RetiredAre
  <2>5. used' \subseteq Episodes
    BY <1>0, <1>7 DEF TypeOK, SetResourcePolicy
  <2> HIDE DEF mem
  <2> QED
    BY <2>1, <2>2, <2>3, <2>4, <2>5, CallStep DEF mem
<1> QED
  BY <1>1, <1>2, <1>3, <1>4, <1>5, <1>6, <1>7
-----------------------------------------------------------------------------
(* Appending.                                                              *)

(* The state and the record of an append are well formed.                  *)
LEMMA AppendTypes ==
    ASSUME IInv, Appending
    PROVE  /\ Head(pending) \in Entry /\ Tail(pending) \in Seq(Entry)
           /\ NextSeq \in Nat
           /\ \A whole, acked \in BOOLEAN : Written(whole, acked) \in Record
           /\ Entering \in State /\ Entering.open = memory.open
           /\ Promised \in State /\ Healed \in Harm
           /\ NextSeq >= snapshot.covered
           /\ ~(NextSeq > snapshot.covered) => io = "retry"
<1>0. /\ TypeOK /\ Sequenced /\ pending \in Seq(Entry) /\ pending # << >>
      /\ recordSeq \in Nat /\ memory \in State /\ stable \in State /\ harmed \in Harm
      /\ up /\ io \in {"idle", "retry"} /\ snapshot.covered \in Nat
  BY DEF IInv, TypeOK, Appending
<1>1. Head(pending) \in Entry /\ Tail(pending) \in Seq(Entry)
  BY <1>0
<1>2. NextSeq \in Nat
  BY <1>0 DEF NextSeq
<1>3. \A whole, acked \in BOOLEAN : Written(whole, acked) \in Record
  BY <1>1, <1>2 DEF Written, Record
<1>4. Entering \in State /\ Entering.open = memory.open
  <2>1. CASE Head(pending).type = "closed" /\ io = "idle"
    <3> DEFINE e == Head(pending).of
               counts == [memory.closed EXCEPT ![e] = @ + 1]
    <3>1. e \in Episodes
      BY <1>1, <2>1 DEF Entry
    <3>2. counts \in [Episodes -> Nat]
      BY <1>0, <3>1 DEF State
    <3>3. Entering = [memory EXCEPT !.closed = counts]
      BY <1>0, <2>1 DEF Entering, State
    <3> HIDE DEF counts
    <3> QED
      BY <1>0, <3>2, <3>3 DEF State
  <2>2. CASE ~(Head(pending).type = "closed" /\ io = "idle")
    BY <1>0, <2>2 DEF Entering
  <2> QED
    BY <2>1, <2>2
<1>5. Promised \in State
  BY <1>0, <1>1, AccumulatedIsState DEF Promised
<1>6. Healed \in Harm
  BY <1>0 DEF Healed, Harm
<1>7. NextSeq >= snapshot.covered /\ (~(NextSeq > snapshot.covered) => io = "retry")
  BY <1>0 DEF Sequenced, NextSeq
<1> QED
  BY <1>1, <1>2, <1>3, <1>4, <1>5, <1>6, <1>7

(* A record that is written keeps the promise, acknowledged or not: a      *)
(* restart applies it as it is promised, or neither does.                  *)
LEMMA WrittenIsKept ==
    ASSUME IInv, Appending, NEW acked \in BOOLEAN,
           journal' = Append(journal, Written(TRUE, acked)), UNCHANGED snapshot,
           stable' = Promised, harmed' = Healed
    PROVE  Kept'
<1> DEFINE entry == Head(pending)
           r == Written(TRUE, acked)
           covered == snapshot.covered
           closing == harmed.closing
<1>0. /\ TypeOK /\ journal \in Seq(Record) /\ stable \in State /\ harmed \in Harm
      /\ snapshot.state \in State /\ covered \in Nat /\ closing \in SUBSET Episodes /\ up
      /\ TearsLast /\ ClosingOnce /\ Kept
  BY DEF IInv, TypeOK, Appending, Harm
<1>1. /\ entry \in Entry /\ NextSeq \in Nat /\ r \in Record /\ pending # << >>
      /\ ~(NextSeq > covered) => io = "retry"
  BY AppendTypes DEF Appending
<1>2. r.whole /\ r.seq = NextSeq /\ r.entry = entry
  BY DEF Written
<1> HIDE DEF r, entry, covered, closing
<1>3. /\ harmed'.torn = harmed.torn /\ harmed'.overtaken = harmed.overtaken
      /\ harmed'.closing = IF entry.type = "closed" THEN closing \ {entry.of} ELSE closing
  BY <1>0 DEF Healed, Harm, entry, closing
<1> SUFFICES ASSUME ~harmed.torn, ~harmed.overtaken
             PROVE  stable' = Plus(Recovered', harmed'.closing)
  BY <1>3 DEF Kept
<1>4. stable = Plus(Recovered, closing)
  BY <1>0 DEF Kept, closing
<1>5. \A i \in DOMAIN journal : journal[i].whole
  BY <1>0 DEF TearsLast
<1>6. /\ Append(journal, r) \in Seq(Record)
      /\ \A i \in DOMAIN Append(journal, r) : Append(journal, r)[i].whole
  BY <1>0, <1>1, <1>2, <1>5
<1>7. Readable(journal) = journal /\ Readable(journal') = Append(journal, r)
  BY <1>0, <1>5, <1>6, ReadableIs DEF r
<1>8. Recovered \in State /\ Recovered' = After(covered, Recovered, r)
  BY <1>0, <1>1, <1>7, ReplayAppends, RecoveredIs, RecoveredNextIs DEF covered
<1>9. CASE NextSeq > covered
  <2>1. Recovered' = Accumulate(Recovered, entry) /\ stable' = Accumulate(stable, entry)
    BY <1>2, <1>8, <1>9 DEF After, Promised, entry, covered
  <2> QED
    BY <1>0, <1>1, <1>3, <1>4, <1>8, <2>1, AccumulatePlus, ZenonT(30)
<1>10. CASE ~(NextSeq > covered)
  <2>1. Recovered' = Recovered /\ stable' = stable
    BY <1>2, <1>8, <1>10 DEF After, Promised, covered
  <2>2. entry.type = "closed" => closing = {}
    BY <1>0, <1>1, <1>10 DEF ClosingOnce, entry, closing
  <2>3. harmed'.closing = closing
    BY <1>3, <2>2
  <2> QED
    BY <1>4, <2>1, <2>3
<1> QED
  BY <1>9, <1>10

(* A record that is cut short when the process ends is not read.           *)
LEMMA TornIsKept ==
    ASSUME IInv, Appending, journal' = Append(journal, Written(FALSE, FALSE)),
           UNCHANGED << snapshot, stable, harmed >>
    PROVE  Kept'
<1> DEFINE r == Written(FALSE, FALSE)
<1> SUFFICES ASSUME ~harmed.torn, ~harmed.overtaken
             PROVE  stable' = Plus(Recovered', harmed'.closing)
  BY DEF Kept
<1>1. journal \in Seq(Record) /\ r \in Record /\ ~r.whole
  BY AppendTypes DEF IInv, TypeOK, Written
<1>2. \A i \in DOMAIN journal : journal[i].whole
  BY DEF IInv, TearsLast, Appending
<1> HIDE DEF r
<1>3. Readable(journal) = journal /\ Readable(Append(journal, r)) = journal
  BY <1>1, <1>2, ReadableIs, TornIsNotRead
<1>4. Recovered' = Recovered
  BY <1>3, RecoveredIs, RecoveredNextIs DEF r
<1> QED
  BY <1>4 DEF IInv, Kept
(* A record torn at the end is the only one that is not whole.             *)
LEMMA WrittenTears ==
    ASSUME IInv, Appending, NEW whole \in BOOLEAN, NEW acked \in BOOLEAN, whole \/ ~acked,
           journal' = Append(journal, Written(whole, acked)),
           harmed'.torn \/ (harmed'.torn = harmed.torn /\ (whole \/ ~up'))
    PROVE  journal' \in Seq(Record) /\ TearsLast'
<1> DEFINE r == Written(whole, acked)
           n == Len(journal)
<1>1. journal \in Seq(Record) /\ r \in Record
  BY AppendTypes DEF IInv, TypeOK
<1>2. r.whole = whole /\ r.acked = acked
  BY DEF Written
<1> HIDE DEF r
<1>3. /\ n \in Nat /\ Append(journal, r) \in Seq(Record) /\ DOMAIN journal = 1 .. n
      /\ DOMAIN Append(journal, r) = 1 .. n + 1 /\ Len(Append(journal, r)) = n + 1
      /\ Append(journal, r)[n + 1] = r
      /\ \A i \in 1 .. n : Append(journal, r)[i] = journal[i]
  BY <1>1
<1>4. ~harmed.torn => \A i \in 1 .. n : journal[i].whole
  BY <1>3 DEF IInv, TearsLast, Appending
<1>5. journal' = Append(journal, r)
  BY DEF r
<1>6. ASSUME ~harmed'.torn, NEW i \in DOMAIN journal', ~journal'[i].whole
      PROVE  ~up' /\ i = Len(journal') /\ ~journal'[i].acked
  <2>1. i = n + 1
    BY <1>3, <1>4, <1>5, <1>6
  <2> QED
    BY <1>2, <1>3, <1>5, <1>6, <2>1
<1> QED
  BY <1>3, <1>5, <1>6 DEF TearsLast

(* What every step of an append has in common.                             *)
LEMMA AppendStep ==
    ASSUME IInv, Appending, journal' \in Seq(Record), stable' \in State, harmed' \in Harm,
           recordSeq' = NextSeq, memory' = Entering, bytes' \in Nat,
           \/ io' = "idle" /\ pending' = Tail(pending)
           \/ io' = "full" /\ pending' = pending,
           UNCHANGED << snapshot, up, live, handle, used, lives >>,
           TearsLast', Kept'
    PROVE  IInv'
<1>1. TypeOK'
  BY AppendTypes DEF IInv, TypeOK
<1>2. IsFiniteSet(memory.open)'
  BY AppendTypes DEF IInv
<1>3. Sequenced'
  BY AppendTypes DEF Sequenced
<1>4. ClosingOnce' /\ Replaced'
  BY DEF ClosingOnce, Replaced
<1> QED
  BY <1>1, <1>2, <1>3, <1>4 DEF IInv

LEMMA Append1Keeps == IInv /\ Append1 => IInv'
<1> SUFFICES ASSUME IInv, Append1 PROVE IInv'
  OBVIOUS
<1>1. /\ Appending /\ journal' = Append(journal, Written(TRUE, TRUE)) /\ stable' = Promised
      /\ harmed' = Healed /\ UNCHANGED snapshot
  BY DEF Append1
<1>2. Kept'
  BY <1>1, WrittenIsKept
<1>3. harmed'.torn = harmed.torn
  BY <1>1 DEF Healed, IInv, TypeOK, Harm
<1>4. journal' \in Seq(Record) /\ TearsLast'
  BY <1>1, <1>3, WrittenTears
<1>5. stable' \in State /\ harmed' \in Harm /\ bytes' \in Nat
  BY <1>1, AppendTypes DEF Append1, IInv, TypeOK
<1> QED
  BY <1>1, <1>2, <1>4, <1>5, AppendStep DEF Append1

LEMMA AppendRefusedKeeps == IInv /\ AppendRefused => IInv'
<1> SUFFICES ASSUME IInv, AppendRefused PROVE IInv'
  OBVIOUS
<1>1. Appending /\ UNCHANGED << disk, stable, harmed, bytes, up >>
  BY DEF AppendRefused, history
<1>2. Kept'
  BY <1>1, SameDisk
<1>3. TearsLast'
  BY <1>1 DEF IInv, TearsLast, disk
<1>4. journal' \in Seq(Record) /\ stable' \in State /\ harmed' \in Harm /\ bytes' \in Nat
  BY <1>1 DEF IInv, TypeOK, disk
<1> QED
  BY <1>1, <1>2, <1>3, <1>4, AppendStep DEF AppendRefused, disk, history

LEMMA AppendFailsKeeps == IInv /\ AppendFails => IInv'
<1> SUFFICES ASSUME IInv, AppendFails PROVE IInv'
  OBVIOUS
<1>1. Appending /\ UNCHANGED << snapshot, bytes, up >> /\ bytes' \in Nat
  BY DEF AppendFails, IInv, TypeOK
<1>2. journal' \in Seq(Record) /\ stable' \in State /\ harmed' \in Harm /\ TearsLast' /\ Kept'
  <2>1. CASE UNCHANGED << journal, stable, harmed >>
    <3>1. Kept'
      BY <1>1, <2>1, SameDisk DEF disk
    <3> QED
      BY <1>1, <2>1, <3>1 DEF IInv, TypeOK, TearsLast
  <2>2. CASE /\ journal' = Append(journal, Written(FALSE, FALSE))
             /\ harmed' = [harmed EXCEPT !.torn = TRUE] /\ UNCHANGED stable
    <3>1. harmed' \in Harm /\ harmed'.torn /\ stable' \in State
      BY <2>2 DEF IInv, TypeOK, Harm
    <3>2. journal' \in Seq(Record) /\ TearsLast'
      BY <1>1, <2>2, <3>1, WrittenTears
    <3> QED
      BY <3>1, <3>2 DEF Kept
  <2>3. CASE /\ journal' = Append(journal, Written(TRUE, FALSE))
             /\ stable' = Promised /\ harmed' = Healed
    <3>1. Kept'
      BY <1>1, <2>3, WrittenIsKept
    <3>2. harmed'.torn = harmed.torn
      BY <2>3 DEF Healed, IInv, TypeOK, Harm
    <3>3. journal' \in Seq(Record) /\ TearsLast'
      BY <1>1, <2>3, <3>2, WrittenTears
    <3> QED
      BY <1>1, <2>3, <3>1, <3>3, AppendTypes
  <2> QED
    BY <2>1, <2>2, <2>3 DEF AppendFails
<1> QED
  BY <1>1, <1>2, AppendStep DEF AppendFails
-----------------------------------------------------------------------------
(* Compaction.                                                             *)

(* Renaming makes memory the promise, and the journal one that adds        *)
(* nothing to it, unless it holds sequences that are not covered.          *)
LEMMA RenameKeeps == IInv /\ Rename => IInv'
<1> SUFFICES ASSUME IInv, Rename PROVE IInv'
  OBVIOUS
<1>1. /\ up /\ snapshot' = [covered |-> recordSeq, state |-> memory] /\ io' = "renamed"
      /\ stable' = Plus(memory, Between)
      /\ harmed' = [harmed EXCEPT !.overtaken = ~CoversJournal, !.closing = Between]
      /\ UNCHANGED << journal, up, memory, live, recordSeq, bytes, handle, pending, used, lives >>
  BY DEF Rename, Compacted, Plus
<1>2. /\ memory \in State /\ recordSeq \in Nat /\ journal \in Seq(Record) /\ harmed \in Harm
      /\ pending \in Seq(Entry)
  BY DEF IInv, TypeOK
<1>3. Between \in SUBSET Episodes
  <2>1. \A x \in ToSet(pending) : x \in Entry
    BY <1>2 DEF ToSet
  <2>2. Closing \subseteq Episodes
    BY <2>1 DEF Closing, Entry
  <2> QED
    BY <2>2 DEF Between
<1>4. harmed' \in Harm /\ harmed'.torn = harmed.torn /\ harmed'.closing = Between
      /\ harmed'.overtaken = ~CoversJournal
  <2>1. CoversJournal \in BOOLEAN
    BY DEF CoversJournal
  <2> QED
    BY <1>1, <1>2, <1>3, <2>1 DEF Harm
<1>5. TypeOK'
  <2>1. stable' \in State
    BY <1>1, <1>2, <1>3 DEF Plus, State
  <2> QED
    BY <1>1, <1>2, <1>4, <2>1 DEF IInv, TypeOK
<1>6. TearsLast'
  BY <1>1, <1>4 DEF IInv, TearsLast
<1>7. Sequenced'
  BY <1>1, <1>2 DEF Sequenced
<1>8. ClosingOnce'
  BY <1>1, <1>4 DEF ClosingOnce, Between
<1>9. Replaced'
  BY <1>1, <1>4 DEF Replaced, CoversJournal
<1>10. Kept'
  <2> SUFFICES ASSUME ~harmed.torn, CoversJournal PROVE Recovered' = memory
    BY <1>1, <1>4 DEF Kept
  <2>1. \A i \in DOMAIN journal : journal[i].whole
    BY <1>1 DEF IInv, TearsLast
  <2>2. Readable(journal) = journal
    BY <1>2, <2>1, ReadableIs
  <2>3. \A i \in DOMAIN journal : ~(journal[i].seq > recordSeq)
    <3>1. ASSUME NEW i \in DOMAIN journal PROVE ~(journal[i].seq > recordSeq)
      <4>1. journal[i] \in Record /\ journal[i].seq <= recordSeq
        BY <1>2 DEF CoversJournal
      <4> QED
        BY <1>2, <4>1 DEF Record
    <3> QED
      BY <3>1
  <2>4. Replay(recordSeq, memory, journal) = memory
    BY <1>2, <2>3, ReplayCovered
  <2> QED
    BY <1>1, <2>2, <2>4, RecoveredNextIs
<1> QED
  BY <1>1, <1>5, <1>6, <1>7, <1>8, <1>9, <1>10 DEF IInv

(* What is left of a call after an entry was given up.                     *)
LEMMA RestIs ==
    ASSUME pending \in Seq(Entry) PROVE Rest \in Seq(Entry)
BY DEF Rest

LEMMA CheckpointKeeps == IInv /\ (Checkpoint \/ RenameFails) => IInv'
<1> SUFFICES ASSUME IInv, Checkpoint \/ RenameFails PROVE IInv'
  OBVIOUS
<1>1. /\ io' \in {"full", "idle"} /\ pending' \in Seq(Entry)
      /\ UNCHANGED << disk, up, memory, live, recordSeq, bytes, handle, history >>
  BY RestIs DEF Checkpoint, RenameFails, IInv, TypeOK
<1>2. Kept'
  BY <1>1, SameDisk DEF history
<1>3. TypeOK' /\ TearsLast' /\ Sequenced' /\ ClosingOnce' /\ Replaced'
  BY <1>1 DEF IInv, TypeOK, TearsLast, Sequenced, ClosingOnce, Replaced, disk, history
<1> QED
  BY <1>1, <1>2, <1>3 DEF IInv

(* An empty journal leaves what the snapshot holds.                        *)
LEMMA EmptiedIsKept ==
    ASSUME IInv, io = "renamed", journal' = << >>, harmed' = Emptied,
           UNCHANGED << snapshot, stable >>
    PROVE  harmed' \in Harm /\ harmed'.closing = harmed.closing /\ TearsLast' /\ Kept'
<1>1. harmed' \in Harm /\ harmed'.closing = harmed.closing
  BY DEF IInv, TypeOK, Harm, Emptied
<1>2. TearsLast'
  BY DEF TearsLast
<1>3. Recovered' = snapshot.state
  <2>1. Readable(<< >>) = << >>
    BY DEF Readable
  <2>2. /\ snapshot.state \in State /\ << >> \in Seq(Record)
        /\ \A i \in DOMAIN << >> : ~(<< >>[i].seq > snapshot.covered)
    BY DEF IInv, TypeOK
  <2>3. Replay(snapshot.covered, snapshot.state, << >>) = snapshot.state
    BY <2>2, ReplayCovered
  <2> QED
    BY <2>1, <2>3, RecoveredNextIs
<1>4. Kept'
  BY <1>1, <1>3 DEF IInv, Replaced, Kept
<1> QED
  BY <1>1, <1>2, <1>4

LEMMA ResetJournalKeeps == IInv /\ ResetJournal => IInv'
<1> SUFFICES ASSUME IInv, ResetJournal PROVE IInv'
  OBVIOUS
<1>1. /\ io = "renamed" /\ journal' = << >> /\ bytes' = 0 /\ io' \in {"idle", "retry"}
      /\ harmed' = Emptied
      /\ UNCHANGED << snapshot, up, memory, live, recordSeq, handle, pending, used, lives, stable >>
  BY DEF ResetJournal
<1>2. harmed' \in Harm /\ harmed'.closing = harmed.closing /\ TearsLast' /\ Kept'
  BY <1>1, EmptiedIsKept
<1>3. TypeOK'
  BY <1>1, <1>2 DEF IInv, TypeOK
<1>4. Sequenced' /\ ClosingOnce' /\ Replaced'
  BY <1>1, <1>2 DEF IInv, Sequenced, ClosingOnce, Replaced
<1> QED
  BY <1>1, <1>2, <1>3, <1>4 DEF IInv

LEMMA ResetFailsKeeps == IInv /\ ResetFails => IInv'
<1> SUFFICES ASSUME IInv, ResetFails PROVE IInv'
  OBVIOUS
<1>1. /\ io = "renamed" /\ io' = "idle" /\ pending' \in Seq(Entry) /\ handle' \in BOOLEAN
      /\ UNCHANGED << snapshot, up, memory, live, recordSeq, bytes, used, lives, stable >>
  BY RestIs DEF ResetFails, IInv, TypeOK
<1>2. journal' \in Seq(Record) /\ harmed' \in Harm /\ TearsLast' /\ Kept'
  <2>1. CASE UNCHANGED << journal, harmed >>
    <3>1. Kept'
      BY <1>1, <2>1, SameDisk DEF disk
    <3> QED
      BY <1>1, <2>1, <3>1 DEF IInv, TypeOK, TearsLast
  <2>2. CASE journal' = << >> /\ harmed' = Emptied
    BY <1>1, <2>2, EmptiedIsKept
  <2> QED
    BY <2>1, <2>2 DEF ResetFails
<1>3. TypeOK'
  BY <1>1, <1>2 DEF IInv, TypeOK
<1>4. Sequenced' /\ ClosingOnce' /\ Replaced'
  BY <1>1 DEF IInv, Sequenced, ClosingOnce, Replaced
<1> QED
  BY <1>1, <1>2, <1>3, <1>4 DEF IInv

-----------------------------------------------------------------------------
(* The end of a process and the start of the next.                         *)

LEMMA BlankIs == Blank \in State /\ IsFiniteSet(Blank.open) /\ Blank.open = {}
BY RecoveryAssumption, FS_EmptySet DEF Blank, State

LEMMA CrashKeeps == IInv /\ Crash => IInv'
<1> SUFFICES ASSUME IInv, Crash PROVE IInv'
  OBVIOUS
<1>1. /\ up /\ up' = FALSE /\ memory' = Blank /\ live' = {} /\ recordSeq' = 0 /\ bytes' = 0
      /\ handle' = FALSE /\ pending' = << >> /\ io' = "idle"
      /\ UNCHANGED << snapshot, used, lives >>
  BY DEF Crash
<1>2. journal' \in Seq(Record) /\ stable' \in State /\ harmed' \in Harm /\ TearsLast' /\ Kept'
  <2>1. CASE UNCHANGED << journal, stable, harmed >>
    <3>1. Kept'
      BY <1>1, <2>1, SameDisk DEF disk
    <3> QED
      BY <1>1, <2>1, <3>1 DEF IInv, TypeOK, TearsLast
  <2>2. CASE /\ Appending /\ journal' = Append(journal, Written(FALSE, FALSE))
             /\ UNCHANGED << stable, harmed >>
    <3>1. Kept'
      BY <1>1, <2>2, TornIsKept
    <3>2. journal' \in Seq(Record) /\ TearsLast'
      BY <1>1, <2>2, WrittenTears
    <3> QED
      BY <2>2, <3>1, <3>2 DEF IInv, TypeOK
  <2>3. CASE /\ Appending /\ journal' = Append(journal, Written(TRUE, FALSE))
             /\ stable' = Promised /\ harmed' = Healed
    <3>1. Kept'
      BY <1>1, <2>3, WrittenIsKept
    <3>2. harmed'.torn = harmed.torn
      BY <2>3 DEF Healed, IInv, TypeOK, Harm
    <3>3. journal' \in Seq(Record) /\ TearsLast'
      BY <1>1, <2>3, <3>2, WrittenTears
    <3> QED
      BY <2>3, <3>1, <3>3, AppendTypes
  <2> QED
    BY <2>1, <2>2, <2>3 DEF Crash
<1>3. TypeOK'
  <2>1. /\ snapshot \in [covered : Nat, state : State]
        /\ used \subseteq Episodes /\ lives \in 0 .. MaxLives
    BY DEF IInv, TypeOK
  <2>2. memory' \in State /\ live' \subseteq memory'.open
    BY <1>1, BlankIs
  <2>3. pending' \in Seq(Entry) /\ recordSeq' \in Nat /\ bytes' \in Nat
    BY <1>1
  <2> QED
    BY <1>1, <1>2, <2>1, <2>2, <2>3 DEF TypeOK
<1>4. Sequenced' /\ ClosingOnce' /\ Replaced'
  BY <1>1 DEF Sequenced, ClosingOnce, Replaced
<1> QED
  BY <1>1, <1>2, <1>3, <1>4, BlankIs DEF IInv

(* A restart makes a state of any disk.                                    *)
LEMMA RecoveredIsState == IInv => Recovered \in State
<1> SUFFICES ASSUME IInv PROVE Recovered \in State
  OBVIOUS
<1> DEFINE j == Readable(journal)
           n == Len(j)
<1>1. snapshot.state \in State /\ journal \in Seq(Record)
  BY DEF IInv, TypeOK
<1>2. j \in Seq(Record) /\ n \in Nat
  BY <1>1, ReadableIs
<1>3. Recovered = Replay(snapshot.covered, snapshot.state, j)
  BY RecoveredIs
<1> HIDE DEF j
<1>4. \E run \in [0 .. n -> State] : Replay(snapshot.covered, snapshot.state, j) = run[n]
  BY <1>1, <1>2, ReplayRuns, ZenonT(30)
<1> QED
  BY <1>2, <1>3, <1>4

(* The tail that is cut off is not read, then or later.                    *)
LEMMA RestartKeeps == IInv /\ Restart => IInv'
<1> SUFFICES ASSUME IInv, Restart PROVE IInv'
  OBVIOUS
<1>1. /\ up' = TRUE /\ lives < MaxLives /\ lives' = lives + 1 /\ journal' = Readable(journal)
      /\ memory' = Fenced(Recovered) /\ live' = {} /\ recordSeq' = snapshot.covered
      /\ bytes' = Len(journal') /\ handle' = TRUE /\ io' = "idle"
      /\ pending' = Entries("authority", None) /\ stable' = Recovered /\ harmed' = NoHarm
      /\ UNCHANGED << snapshot, used >>
  BY DEF Restart
<1>2. /\ journal \in Seq(Record) /\ snapshot.covered \in Nat /\ snapshot.state \in State
      /\ lives \in 0 .. MaxLives
  BY DEF IInv, TypeOK
<1>3. /\ journal' \in Seq(Record) /\ \A i \in DOMAIN journal' : journal'[i].whole
      /\ Readable(journal') = journal'
  <2> DEFINE j == Readable(journal)
  <2>1. j \in Seq(Record) /\ \A i \in DOMAIN j : j[i].whole
    BY <1>2, ReadableIs
  <2> HIDE DEF j
  <2>2. Readable(j) = j
    BY <2>1, ReadableIs
  <2> QED
    BY <1>1, <2>1, <2>2 DEF j
<1>4. Recovered \in State /\ Recovered' = Recovered
  <2>2. Recovered' = Recovered
    BY <1>1, <1>3, RecoveredIs, RecoveredNextIs
  <2>3. Recovered \in State
    BY RecoveredIsState
  <2> QED
    BY <2>2, <2>3
<1>5. memory' \in State /\ memory'.open = {} /\ IsFiniteSet(memory'.open)
  BY <1>1, <1>4, FencedIsState, FS_EmptySet
<1>6. TypeOK'
  <2>1. harmed' \in Harm
    BY <1>1 DEF NoHarm, Harm
  <2>2. lives' \in 0 .. MaxLives
    BY <1>1, <1>2, RecoveryAssumption
  <2>3. bytes' \in Nat
    BY <1>1, <1>3
  <2> QED
    BY <1>1, <1>3, <1>4, <1>5, <2>1, <2>2, <2>3, PolicyEntriesAre DEF IInv, TypeOK
<1>7. TearsLast' /\ ClosingOnce' /\ Replaced'
  BY <1>1, <1>3 DEF TearsLast, ClosingOnce, Replaced
<1>8. Sequenced'
  BY <1>1, <1>2 DEF Sequenced
<1>9. Kept'
  <2>1. Plus(Recovered, {}) = Recovered
    BY <1>4 DEF Plus, State
  <2> QED
    BY <1>1, <1>4, <2>1 DEF Kept, NoHarm
<1> QED
  BY <1>5, <1>6, <1>7, <1>8, <1>9 DEF IInv
-----------------------------------------------------------------------------
LEMMA StepInvariant == IInv /\ [Next]_vars => IInv'
<1> SUFFICES ASSUME IInv, [Next]_vars PROVE IInv'
  OBVIOUS
<1>1. CASE \/ \E e \in Episodes : Open(e) \/ Close(e) \/ Request(e)
           \/ \E p \in Policies : InstallPolicy(p)
           \/ SetResourcePolicy \/ BindAuthority \/ Expire
  BY <1>1, CallsKeep
<1>2. CASE Checkpoint \/ RenameFails
  BY <1>2, CheckpointKeeps
<1>3. CASE Append1
  BY <1>3, Append1Keeps
<1>4. CASE AppendRefused
  BY <1>4, AppendRefusedKeeps
<1>5. CASE AppendFails
  BY <1>5, AppendFailsKeeps
<1>6. CASE Rename
  BY <1>6, RenameKeeps
<1>7. CASE ResetJournal
  BY <1>7, ResetJournalKeeps
<1>8. CASE ResetFails
  BY <1>8, ResetFailsKeeps
<1>9. CASE Crash
  BY <1>9, CrashKeeps
<1>10. CASE Restart
  BY <1>10, RestartKeeps
<1>11. CASE UNCHANGED vars
  <2>1. UNCHANGED << disk, process, history >>
    BY <1>11 DEF vars
  <2>2. Kept'
    BY <2>1, SameDisk DEF history
  <2> QED
    BY <2>1, <2>2
       DEF disk, process, history, IInv, TypeOK, TearsLast, Sequenced, ClosingOnce, Replaced
<1> QED
  BY <1>1, <1>2, <1>3, <1>4, <1>5, <1>6, <1>7, <1>8, <1>9, <1>10, <1>11 DEF Next

LEMMA Invariance == Spec => []IInv
<1>1. Init => IInv
  BY InitInvariant
<1>2. IInv /\ [Next]_vars => IInv'
  BY StepInvariant
<1> QED
  BY <1>1, <1>2, PTL DEF Spec

-----------------------------------------------------------------------------
(* The theorems.                                                           *)

(* Every variable stays in its range, and no intent is held for an episode *)
(* that is not open, whichever file operation fails or is cut short.       *)
THEOREM TypeCorrect == Spec => []TypeOK
<1>1. IInv => TypeOK
  BY DEF IInv
<1> QED
  BY <1>1, Invariance, PTL

(* append_record_locked() returns success only for a record that the scan  *)
(* of the next open() reaches, unless an earlier write of the same process *)
(* stopped half-way.                                                       *)
THEOREM AcknowledgedSurvive == Spec => []AcknowledgedIsRead
<1>1. IInv => AcknowledgedIsRead
  <2> SUFFICES ASSUME IInv, ~harmed.torn, NEW i \in DOMAIN journal, journal[i].acked
               PROVE  i <= Len(Readable(journal))
    BY DEF AcknowledgedIsRead
  <2> DEFINE torn == {x \in DOMAIN journal : ~journal[x].whole}
             m == Min(torn)
             n == Len(journal)
  <2>1. /\ journal \in Seq(Record) /\ n \in Nat /\ i \in 1 .. n
        /\ \A x \in torn : x = n /\ ~journal[x].acked
    <3>1. journal \in Seq(Record)
      BY DEF IInv, TypeOK
    <3> QED
      BY <3>1 DEF IInv, TearsLast
  <2>2. CASE torn = {}
    BY <2>1, <2>2 DEF Readable
  <2>3. CASE torn # {}
    <3>1. torn = {n} /\ ~journal[n].acked
      BY <2>1, <2>3
    <3>2. m = n
      BY <2>1, <3>1 DEF Min
    <3>3. Readable(journal) = SubSeq(journal, 1, m - 1)
      BY <2>3 DEF Readable
    <3> HIDE DEF m
    <3>4. i # n
      BY <3>1
    <3>5. Readable(journal) = SubSeq(journal, 1, n - 1)
      BY <3>2, <3>3
    <3>6. Len(SubSeq(journal, 1, n - 1)) = n - 1
      <4> DEFINE k == n - 1
      <4>1. k \in 0 .. n /\ k \in Nat
        BY <2>1
      <4> HIDE DEF k
      <4>2. Len(SubSeq(journal, 1, k)) = k
        BY <2>1, <4>1
      <4> QED
        BY <4>2 DEF k
    <3> QED
      BY <2>1, <3>4, <3>5, <3>6
  <2> QED
    BY <2>2, <2>3
<1> QED
  BY <1>1, Invariance, PTL

(* Whenever the process ends, inside append_record_locked() or             *)
(* compact_locked() too, the next restore() gives the policy and every     *)
(* episode as they were promised, outside the three windows that Harm      *)
(* names.                                                                  *)
THEOREM PromisesRecovered == Spec => []Recoverable
<1>1. IInv => Recoverable
  <2> SUFFICES ASSUME IInv, harmed = NoHarm PROVE stable = Recovered
    BY DEF Recoverable
  <2>1. stable = Plus(Recovered, {})
    BY DEF IInv, Kept, NoHarm
  <2>2. Recovered \in State
    BY RecoveredIsState
  <2> QED
    BY <2>1, <2>2 DEF Plus, State
<1> QED
  BY <1>1, Invariance, PTL
=============================================================================
