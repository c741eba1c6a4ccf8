# Microburst Governor in TLA+

TLA+ modules of the Microburst Governor, the configurations that check them with
TLC, and theorems checked by TLAPS about the governor, its detectors and their evidence,
the durable store, the policies, the coordinator and a worker's session. The modules follow the source at
this commit; `PROJECT.json` names, for every definition, the lines it stands for. Paths
below are relative to the repository.

## 1. The system

The runtime takes high-resolution queue samples, decides per stream whether a
microburst is happening, and issues bounded *intents* that other systems may
honour. Everything it issues rests on an *authority*: policy generation, epoch,
incarnation, boot, resource generation and an open episode.

| Part | Source | State | Operations |
| --- | --- | --- | --- |
| Ticks, tick source | `model/tick` | last tick observed | compare modulo 2^64; classify a tick as first, advance, duplicate, rollover, reorder, discontinuity |
| Evidence window | `detect/window` | ring of samples, tick source, count of capacity changes | offer, reset, metrics (span, gaps, completeness, slopes), staleness |
| Detector (one a stream) | `detect/detector` | idle / active / recovering, episode, onset run, release run, recovery start, cooldown, grace, last evaluation | configure, ingest, advance, fence, rearm |
| Governor | `governor`, `model/intervention` | streams, open episodes, history, live intents, authority context, resource generations, counters, emissions | ingest, advance, install/override/remove policy, bind authority, set resource generation, enable/disable interventions, restore, checkpoint |
| Policy set | `model/policy` | fallback, overrides, generation, digest | set, remove, resolve, validate |
| Durable store | `persist/journal`, `persist/snapshot` | journal file, snapshot file, handle, size, sequences | open, append, write snapshot, truncate, replay, verify |
| Coordinator | `coordinator/coordinator` | owner's state, accept loop, sessions and their channels, worker registry, epoch and boot | start, stop, accept, run a session |
| Authority fence | `authority/fence` | none | validate a claim, advance the authority |
| Worker | `coordinator/worker` | configuration with its claim, epoch granted, fenced, sequence, channel | connect, handshake, heartbeat, evidence, goodbye, close |
| Transport | `transport/frame`, `transport/socket` | sockets, sequence of a channel | encode and decode frames, send, receive, interrupt |
| Severity, quantities, explanation | `detect/classifier`, `detect/quantities`, `model/severity`, `model/explanation` | none | grade a decision, explain it |
| Samples and codecs | `model/sample`, `model/event`, `persist/snapshot` | none | validate, encode, decode |
| Generator, command line, benchmark, processes | `synthetic`, `cli`, `bench`, `platform` | none that governs | tools around the library |

How they interact. A session thread of the coordinator hands a worker's evidence
to `Governor::ingest`. The governor finds or creates the stream's detector and
offers it the sample; the detector offers it to its window, evaluates the rules
once per tick and returns a decision. The governor processes a decision at most
once: it opens, updates or closes the episode in its books, requests or refreshes
intents, then revalidates the live ones. `advance` does the same for every stream
without a sample. Changes worth keeping are appended to the journal while the
governor's mutex is held; a full journal is compacted into a snapshot and
truncated. After a restart the governor is bound to the next epoch and restores
history, never liveness.

What is hard:

* *Time*: ticks wrap, arrive late, twice, or out of order; six timers of a detector
  and the expiry of intents compare them modulo the range.
* *Sequences of calls*: policy changes, generations and authority arrive between
  any two samples; detector and governor each remember "the last tick" and forget
  it on different occasions.
* *Order inside a call*: what is revalidated before or after what, and the loop of
  `advance` with the lock held.
* *Crashes*: between the file operations of a compaction, or inside a write.
* *Bounds*: overrides, intents, their history, the journal and the sessions are all
  limited, and what happens at the limit differs from list to list.
* *A channel without timeouts*: frames can be damaged, a stream can be left off a frame
  boundary, either process can die inside a call, and replies are matched to requests by
  their order alone.
* *Threads*: the owner's `start`/`stop`, the accept loop, and detached sessions
  whose peers stall, vanish and reconnect; no socket has a timeout.

What makes each part correct:

* window: it holds exactly the last accepted samples, and its figures mean what
  admissibility takes them to mean;
* detector: an opening rests on elapsed time, an open episode is bounded, episodes
  are apart and closed once, stale evidence is never positive;
* governor: no intent outlives its authority, exceeds the limits, its time to live
  or the operator's mandate; no decision counts twice; no identity comes back;
* durability: what was acknowledged is read back, each episode once, wherever the
  process stops;
* coordinator: sessions are counted and can be interrupted, `stop` returns and
  leaves nothing behind, nothing authorised by an earlier start is honoured;
* policies: what is in force is a map with a counted generation, detectors run under it,
  and a restart brings back what was saved of it;
* worker and transport: an acknowledgement belongs to its batch, no evidence is ingested
  behind the worker's back, an accepted worker whose batches are of its epoch is not
  fenced, and its calls return.

## 2. The modules

```
Ticks ── EvidenceWindow ─(implements)─> BoundedLog
  │              └── WindowProofs ── NumberProofs
  │
  └── Episodes ── EpisodeProtocol <─(implements)── Detector
         │                                             └── DetectorProofs ── NumberProofs
         └── Governor ── GovernorProofs
Recovery ── RecoveryProofs ── NumberProofs
PolicySet ── Ledger ─(implements)─> PolicyBook
                └── LedgerProofs
Coordinator ── CoordinatorProofs
Session ── SessionProofs
```

**Ticks.** Signed modular difference, order, saturating addition, and which step back is
taken for a rollover of the counter, over a parametric even modulus. The program's is 2^64.

**EvidenceWindow.** `ring`, `head`, `size` are `samples_`, `head_`, `size_`; `source`
is the tick source. `Accept` and `Refuse` are the outcomes of `offer()`, `Reset` is
`reset()`; `SpanTicks`, `MaxGap`, `ExpectedSamples`, `Completeness` are the figures of
`metrics()`. A sample is its tick and reported buffer capacity. `inStep` is a history
variable. `BoundedLog` is what the ring promises: the last `Capacity` accepted
samples, oldest first; the refinement maps `log` to `Retained`.

**Detector.** One action per public operation; `evaluate()` is split into one action per
transition (`StayIdle`, `OpenEpisode`, `UpdateActive`, `BeginRecovery`, `MergeOnset`,
`FinishRecovery`, `LingerInRecovery`, and `StayUnknown`, `Suspend`, `FenceStale` without
admissible evidence), all ending, where the code does, in the ceiling (`Settle`). The
window is abstracted to what the rules read: newest tick, side of the depth
thresholds, the two slope conditions, and how far it is admissible apart from
freshness (`grade`); offering a sample may yield any such window the rules could
see. A sample is retained (`Retains`) when it is after the newest, and also when it is before
it and the tick source takes it for a rollover, which moves the newest tick back. Depths, severity, metrics and explanations are left out.

**Episodes, EpisodeProtocol.** What the governor needs from a detector, as operators on
a small record (generation, last evaluation, onset run, open episode) that yield the
possible outcomes of a sample or an evaluation. `EpisodeProtocol` makes a
specification of them; `Detector` is shown to implement it (`KeepsProtocol`), so
`Governor`, built on the same operators, admits every behaviour of real detectors.

**Governor.** `known`/`streams` are `streams_`, `openEvents` the keys of `open_events_`,
`live` the table of live intents, `context` the authority context, `policies` the policy
set. Each public call is one step because it runs under the state mutex; `advance()` is
`BeginAdvance`, one `VisitStream` per stream in key order, `FinishAdvance`. `outstanding`
counts openings less closings and fences, as the statistics do. `asOf` is a history
variable. A record or intent the code retires simply leaves `live`.

**Recovery.** The governor with its store, one step per file operation: a call changes
memory and leaves records in `pending`; each is appended, refused (journal full, then
`Rename`, `ResetJournal` and one retry) or fails. `Crash` stops the process in any
state, also with a record half-written or written and not acknowledged. `Restart` is
open, bind and restore. `InstallPolicy` fences every open episode and journals a policy;
`SetResourcePolicy`, an override set or removed, fences those of its resource and journals
neither. A truncation that fails (`ResetFails`) loses the handle, or keeps it when the
flush before it fails already. `stable` is the durable state promised so far, `harmed` the
known windows in which that promise is in danger.

**PolicySet, PolicyBook.** `PolicySet` holds the operations of the class as operators on a
record of fallback, list of overrides, index and generation, renumbering included.
`PolicyBook` is what a governor promises of it: a fallback and a map from resources to
policies, whose generation counts every change; installing a fallback saves it with the
generation, a checkpoint saves the map too, a restart brings back what is saved.

**Ledger.** The policies, the policy each detector was armed with, and the intents, with
the records they journal one at a time. `call` and `due` are the call in progress and the
intents it has yet to retire (the loop of `refresh_authority_locked`); every step of it may
fill the journal, and `Write` then takes the checkpoint with the state reached by that
moment, as `append_record_locked` does. `Restart` may come between any two records and
folds snapshot and journal as `accumulate_state_locked` and `accumulate_record_locked`
do. `Recovery` and `Ledger` divide the durable state: `Recovery` looks inside the file operations
with a small state (fallback, episodes), `Ledger` has the lists with their bounds and takes a
checkpoint as one step. `unarmed` and `fenced` are history variables. The refinement maps `PolicyBook`'s
`current` to the set in force and `saved` to what a restart at this moment would give.

**Session.** The two ends of framed channels: a worker's calls and a session's answers. A
call that waits is two steps, the send (`Handshake`, `SendEvidence`) and one of the
`Receive...` actions. A channel is a sequence of frames each way; closing it with unread
input loses what was under way or not (`Leave`, `Closed`), a damaged frame is found by
its header's check, which leaves its payload in the stream, or by its payload's. Nothing
closes the channel after the former: the calls that follow read 32 bytes at a time from
wherever the stream stands. `rest` is what they meet before the next boundary: less than one
such read, made up from the next reply (`ReceiveAcross`), or more, which a call reads without
waiting for its own reply (`ReceiveGarbage`); a long rest may end at a boundary, and the stream
is in step again with replies left over. A batch is of whatever epoch its caller put into it.
`Killed` ends the worker's process in the middle of a call too, `Restart` is a coordinator
stopped or crashed and started with the next epoch, `AcceptFails` ends the accept loop.
`acked`, `severed` and `shook` are history variables. `Coordinator` is about many
sessions and the threads of one process, `Session` about the protocol of one worker.

**Coordinator.** A step is what one thread does between two points where another can
act. `owner` is the thread of `start()` and `stop()`, `acceptor` the accept loop, `conn[c]`
a connection and its session thread with its program position in `phase`. Peers are the
environment: `Connect`, `Send` (anything a worker can send, with any authority it was
granted, and frames that are malformed), `Disconnect`. What a session reads that is neither
work nor a goodbye makes it send a fence or an error (`SendNotice`) before it ends.
`ListenFails`, `AcceptFails` and
`Crash` may happen at any time.

`MCDetector`, `MCGovernor`, `MCRecovery`, `MCCoordinator`, `MCLedger` hold the small policies, stream
layouts and symmetry sets of the runs.

## 3. What is checked

| Run | Question | Bounds |
| --- | --- | --- |
| `window` | Does the ring hold the last samples, and do its figures mean what they are taken for? | modulus 14, capacity 3, tolerance 2, two buffer sizes |
| `detector` | Are timers elapsed time, episodes bounded, apart; does it keep the protocol? | clock of 5 ticks in steps of up to 2, no lateness but repeats, two policies, two generations |
| `governor_streams` | Do limits and expiry hold when two streams compete, inside an advance too? | 2 streams of 1 resource, 2 kinds, wide and narrow policy, 3 ticks, lateness 1 |
| `governor_authority` | Does anything survive a stale authority, does an identity come back; are the books those of the detectors? | 1 stream, 2 epochs, 2 incarnations, 2 generations, 3 ticks |
| `governor_expired` | Is an expired intent ever renewed? (yes) | 1 stream, 4 ticks |
| `recovery` | Is what was promised recovered, wherever the process stops? | 2 episodes, 2 policies, 2 processes, journal of 2 records |
| `recovery_overtaken` | Is it without exceptions? (no) | the same, without intents and failing writes |
| `ledger` | Are policies and intents right at every bound, and after every restart? | 3 resources, 2 overrides, 2 policies, 2 intents, journal of 2 records, 3 processes |
| `ledger_overrides` | Is every policy document restored? (no) | the same |
| `coordinator_sessions` | Are sessions accounted for, is a stopped coordinator quiet, is old authority refused; does `stop` return and a lost session end (liveness)? | 2 connections, 2 workers, 1 session, 2 starts |
| `coordinator_stale` | Is a served worker on record as connected? (no) | 2 connections, 1 worker |
| `session` | Do acknowledgements, evidence and fences mean what the worker takes them for; do its calls return (liveness)? | 2 connections, 1 session, 2 starts, 4 frames, 1 damaged |

Why the bounds suffice:

* *window*: capacity 3 gives a first, a middle and a last slot, so the ring wraps, a gap
  can age out, and order can be broken pairwise but not between neighbours. Modulus 14
  leaves room for seven ticks on either side, more than the largest span of gaps that
  are admissible. With tolerance 2 the reorder, rollover and discontinuity branches all
  occur. The theorems cover every capacity, tolerance and tick range.
* *detector*: every timer of the two policies is shorter than the horizon, cooldown plus
  sustain included, so episodes open, merge, time out, are suspended, fenced and
  followed by a second episode. The policies differ in the cooldown and in whether degraded
  evidence counts, which is what a change of policy has to get right. Late samples are left to
  the theorems, which cover any lateness, any policies and any horizon below half of the
  tick range: four ticks with lateness 1 hold as well (58,901 states), but are too few for
  an episode to pass through its recovery.
* *governor*: an intent that lives two ticks can be refreshed, expire and be replaced
  within three; two streams and two kinds meet limits of 1, 2 and 3. The two passing runs
  divide the dimensions (competition, authority); the theorems cover their product.
* *recovery*: a journal of two records is full after every other append, so compaction
  falls into every position of every call; two processes are enough for records of one
  to be in the journal of the next. `MaxSeq` bounds new work: no episode opens, no intent is
  requested and no policy or authority changes once the sequence is this far, but what is open
  may close, what is live may expire, and a checkpoint may be taken. The theorems bound
  neither the journal, nor the sequences, nor the number of processes.
* *ledger*: three resources and room for two overrides are a removal with a position to
  renumber behind it and a set that is refused; two intents fill every list, the third issued
  one is one too many; a journal of two records is full inside every call; after two
  restarts what was fenced by the first meets the second. The generation ends at 5, so that
  it is exhausted too. In a journal longer than the history (five records for two intents) the
  fencing of an intent leaves the history before a checkpoint replaces the record in which it
  is live, and the next restart fences it once more: `fenced` remembers it where
  `retired` no longer does. The theorem covers that, as it covers any bounds.
* *coordinator*: an old session and a new one, of one worker or of two, with room for one,
  are a session that is refused, one that waits, and one that displaces; two starts have
  one authority to inherit. The theorems of section 4 cover more connections, more room
  and more starts.
* *session*: an old channel and a new one of the same worker, with room for one session, so
  that the second may be turned away; four frames are a handshake and a batch on each, or
  a handshake, a heartbeat and two batches on one; one damaged frame is enough to put a
  stream out of step before each of them and, on one channel, to bring it back in step before
  the second batch. Sizes are abstracted to a short and a long rest, so that the stream may be
  back in step at once; in the code it takes as many failed calls as given below.

Deadlock is checked in `window`. The other models may stop: their clock reaches
`Horizon`, sequence numbers, frames or starts run out, or the coordinator is down for good.

**Fairness** appears in `coordinator_sessions` and `session`. In `Coordinator`, `FairSpec`
assumes that a thread that can take a step eventually does: the owner once it has called
`stop()`, the accept loop, and each session in the steps that do not wait for its peer. This is
what an operating system scheduler gives to runnable threads; the critical sections are
short and no lock is held across I/O. Nothing is assumed of peers: they may never send, never read
(`SendAck`, `SendReply` and `SendNotice` may block for ever) and never close. Nor does anyone have to
call `stop()`, and `accept()` is never forced to fail. `StopReturns` then rests on
what the code does: joining the accept loop before copying the channels, and shutting
each of them down. In `Session`, a call that has something to read reads it, and the
accept loop and the sessions take the steps they can; nobody has to call, to be killed or to
restart. `CallReturns` is then a property of the protocol: every request that waits for a
reply gets one or sees its stream end, also at capacity, after damage and over a restart,
unless the accept loop has ended on a failed `accept()` (`coordinator.cpp:183`).

**Disagreements met while modelling** (the four runs that end in a violation; each is
described with its lines under `findings`):

1. An intent that has expired is renewed by the next positive sample
   (`governor.cpp:329` before `:337`).
2. Record sequences restart below those in the journal, so a crash inside the next
   compaction replays old records over a newer snapshot (`governor.cpp:1087`).
3. The end of an old session overwrites the record of the worker's new process
   (`coordinator.cpp:242-245`).
4. Resource overrides are not journaled: those set or removed since the last checkpoint are
   lost, or come back, with a crash (`governor.cpp:163-213`).

Six more are in the models and kept apart by a named exception of a property that
holds:

5. A late sample with a new resource generation ends the episode in the detector while
   the governor keeps it and its intents (`governor.cpp:326`); `EpisodesAccounted` is
   checked for streams whose ticks advance (`MaxLate = 0`).
6. A write that fails half-way leaves a torn record in front of records acknowledged
   later, which a restart does not read (`journal.cpp:292-299`); `harmed.torn` in `Recoverable`
   and `AcknowledgedIsRead`.
7. When recovery's list of intents is full, live ones behind it are not recorded as
   fenced (`governor.cpp:902`, `:949`), although `README.md:153` says that every one is;
   `RestartFencesLive` names the bound.

8. After a damaged header the worker's stream is out of step, and the channel stays open
   (`socket.cpp:294-303`, `worker.cpp:113-117`). Reads of 32 bytes through replies of 53 meet
   a boundary again: 52 failed calls after the header of an acknowledgement was damaged (21
   bytes are left), 19 after that of the reply to a hello (25 bytes of 57 are left). The next
   `send_evidence()` then takes the acknowledgement of an older batch for its own and
   reports success (`worker.cpp:122`). `AckNamesBatch` names the case (`torn`) and says what
   holds in it too: the acknowledgement is that of an earlier batch that was ingested.
   `NoLateEvidence` excepts the same channels (`severed`): a call that failed on the rest of a
   reply did not wait, and its batch may be ingested after it returned.
9. A batch names the epoch its caller put into it (`worker.cpp:100-108`), and one of another
   epoch is fenced in the middle of a session (`coordinator.cpp:405-417`), although the
   session has accepted the worker; `ServedIsNotFenced` therefore speaks of workers whose
   batches have been of the epoch granted to them since (`shook`).
10. Near the end of the range a late sample within the tolerance beyond the wrap is taken for a
   rollover (`tick.cpp:43`) and retained, which moves the newest tick of the window back, also
   under an evaluation made already: an open episode is then older than the staleness it is
   allowed. `NoFalseRollover` is the condition that no sample is late in this way, see section 4.

`Recoverable` states what does hold in spite of 2 and 6, and of a third window (an
episode being closed while its intent's record triggers a compaction is in neither the
open episodes nor the history of that snapshot): outside of them a crash at any point
restores what was promised. `EvidenceAdvances` and `GapBoundsSpan` speak of ticks in the
first half of the range: near its end `TickSource::observe` takes a step back further
than the wrap is ahead for a rollover (`tick.cpp:43`). `DetectsUnderPolicy` has one
exception: `remove_resource_policy` rearms no detector, and a stream goes on under the
override that was removed until a policy is installed or its resource gets another
override (`governor.cpp:201`). What concerns the tick source, here and in 10, is
about ticks near the end of the range only, since a step back has to exceed what is left of it.

Each property has a mutant: a variant of one definition, the way a plausible bug would
change the code, under which TLC finds the property violated (`mutants` in
`PROJECT.json`; the variants stand before the definitions they vary, marked "Mutant").

## 4. What is proved

`GovernorProofs` proves for all streams, resources, kinds, policies, epochs,
generations and tick ranges, with any lateness:

| Theorem | Statement |
| --- | --- |
| `TypeCorrect` | `Spec => []TypeOK` |
| `NoDecisionTwice` | `Spec => []DecisionProcessedOnce` |
| `AuthorityNeverStale` | `Spec => []AuthoritySound` |
| `NothingWithoutMandate` | `Spec => []MandateRequired` |
| `KindsApart` | `Spec => []OneIntentPerKind` |
| `IdentitiesFresh` | `Spec => IdentityIssuedOnce` |
| `IntentsExpire` | `Spec => []ExpiryBounded` |
| `IntentsWithinLimits` | `Spec => []ConcurrencyBounded` |
| `BooksAreRight` | `MaxLate = 0` implies `Spec => []EpisodesAccounted` |

`CoordinatorProofs` proves for any finite set of connections, any workers, limits, epochs
and number of starts:

| Theorem | Statement |
| --- | --- |
| `TypeCorrect` | `Spec => []TypeOK` |
| `SessionsCounted` | `Spec => []SessionsAccounted` |
| `ConnectedIsBacked` | `Spec => []ConnectedHasSession` |
| `StopLeavesNothing` | `Spec => []StoppedIsQuiet` |
| `NothingFromBefore` | `Spec => []NothingInherited` |

`LedgerProofs` proves for any resources, policies, numbers of intents, lives and records a
journal holds:

| Theorem | Statement |
| --- | --- |
| `DetectorsFollowPolicies` | `Spec => []DetectsUnderPolicy` |
| `PoliciesRefineBook` | `Spec => PoliciesAreBook` |
| `TypeCorrect` | `Spec => []TypeOK` |
| `LiveIntentsFenced` | `Spec => RestartFencesLive` |

`WindowProofs` proves for any capacity of at least two, tolerance, gap, interval, sizes and
tick range:

| Theorem | Statement |
| --- | --- |
| `TypeCorrect` | `Spec => []TypeOK` |
| `RingImplementsLog` | `Spec => RingIsBoundedLog` |
| `AcceptedEvidenceAdvances` | `Spec => []EvidenceAdvances` |
| `GapsAgeOut` | `Spec => []GapForgotten` |
| `SpanIsBoundedByGaps` | `Spec => []GapBoundsSpan` |
| `NominalCadenceIsComplete` | `Spec => []CadenceIsComplete` |

`DetectorProofs` proves for any policies, generations and tick range, wherever in the range
the detector's life begins, also across the wrap:

| Theorem | Statement |
| --- | --- |
| `TypeCorrect` | `Spec => []TypeOK` |
| `SustainIsTime` | `Spec => []SustainIsElapsed` |
| `OpenIsBounded` | `NoFalseRollover` implies `Spec => []OpenEpisodeBounded` |
| `PositiveRestsOnEvidence` | `Spec => PositiveIsJustified` |
| `CooldownsAreHonoured` | `CooldownsFit` implies `Spec => CooldownHonoured` |
| `DetectorKeepsProtocol` | `Spec => KeepsProtocol` |

`SessionProofs` proves for any number of connections, frames, restarts and damaged frames:

| Theorem | Statement |
| --- | --- |
| `TypeCorrect` | `Spec => []TypeOK` |
| `AcknowledgedIsIngested` | `Spec => []AckNamesBatch` |
| `NothingBehindTheBack` | `Spec => []NoLateEvidence` |
| `AcceptedIsNotFenced` | `Spec => []ServedIsNotFenced` |

`RecoveryProofs` proves for any episodes, policies, size of the journal, number of calls and
of processes, with writes that may fail or not:

| Theorem | Statement |
| --- | --- |
| `TypeCorrect` | `Spec => []TypeOK` |
| `AcknowledgedSurvive` | `Spec => []AcknowledgedIsRead` |
| `PromisesRecovered` | `Spec => []Recoverable` |

`NumberProofs` holds what several of them share: remainders as case distinctions, the smallest
and the largest of a set, induction over the naturals, and that a function exists which folds
over the subsets of `1 .. n`.

Assumptions: those named in `Ticks`, `EvidenceWindow`, `Episodes`, `Detector`, `Governor`,
`Recovery`, `Session`, `Coordinator`, `PolicySet` and `Ledger`: bounds are numbers, the modulus is even,
policies are validated records whose per-stream limit does not exceed the total, unset
identities are not identities. Twice the last tick the environment presents is below the
modulus for the governor (no wrap in its ticks); for a detector, twice what passes in its
life is (its ticks do wrap): beyond half the range, 2^63 ticks, "after" means
nothing. `CooldownsFit` says that no cooldown reaches the last tick, where
`add_ticks_saturating` would cut it short (`detector.cpp:360`); validation limits a
cooldown to 2^32 (`policy.cpp:223`), so this is about the last 2^32 ticks of the range. The
policies of the run fulfil it (`MCCooldownsFit`). `NoFalseRollover` says that no sample the
environment presents, at most `MaxLate` behind, is taken for a rollover of the counter: it holds
when the policies tolerate no reordering (the default, `policy.hpp:49`), when nothing is late, or
when the last tick of the detector's life is further from the end of the range than samples are
late. Only `OpenIsBounded` needs it, and it does: with a life that begins at tick 10 of 14,
samples three ticks late and a tolerance of two, TLC finds `OpenEpisodeBounded` violated. The
run, in which nothing is late, fulfils it (`MCNoFalseRollover`).

The argument for the governor. The inductive invariant `IInv` is the type invariant, that every
tick in the state is within the horizon (`WithinHorizon`), and `DecisionProcessedOnce`.
The horizon is needed since the modular order is an order only on half of the range;
within it "after" is "greater" (a lemma), and the last decision processed can be compared
with the next. Types are inductive only together with `DecisionProcessedOnce`: a decision
that a detector repeats may no longer name its episode, and it must be recognised as
processed before it can open one. `AuthoritySound` follows from `IInv` in each step: every
action that changes what an intent is judged by revalidates all intents in the state it
leaves, and inside an advance the property says nothing. One lemma (`IntentsOfAStep`)
classifies what a step does to the intents: it only retires some, or it processes one
decision that is later than all its stream had processed, and the intents are among those
that decision leaves or requests. `NothingWithoutMandate`,
`KindsApart` and the action property `IdentitiesFresh` are read off it. `IntentsExpire` and
`IntentsWithinLimits` speak of the policies in force, which an intent may have been granted before:
they rest on `AuthoritySound`, because an intent names its generation, so that no intent is left
after a policy change (`PoliciesOfAStep`); the first also on what a stream processed only growing
(`ProcessedGrows`), the second on a counting argument, that the kinds granted in their order
inject into the room that was left (`GrantsFitRoom`). `BooksAreRight` has an invariant of its own,
`BooksInv`: the books are those of the detectors (`Booked`); nothing processed is ahead of the
clock (`Timely`); a detector with an episode or an onset run has evaluated whatever was
processed (`Watched`); and an advance visits streams that have not been evaluated at its tick
(`SweepOrderly`). The last three are why skipping a decision, which leaves the books alone, never
skips one that opened or closed an episode. `Tells` says of each outcome of a detector that its
decision is what became of the episode. `MaxLate = 0`, the bound of the run that checks it, says
that a stream's samples come with advancing ticks; without it the property fails in the code
(item 5 of section 3).

The argument for the coordinator. The safety of the sessions rests on one inductive invariant:
the types; that the accept loop has a connection in its hands exactly in three of its
states (`LoopHolds`), without which a connection it takes could displace another; that the
loop is over once `stop()` copies the channels (`LoopOver`), the reason for joining it
first; that the room it found is still there when it registers (`RoomKept`), as checking
and registering are separate critical sections and only the loop adds sessions;
`SessionsAccounted`; and that nothing is in session before listening (`NoneWhenDown`).
Steps are grouped by what they do to the set of sessions (a session that goes on, one that
begins, one that retires, steps of the loop, of the owner), one lemma each.
`ConnectedHasSession` is inductive on top of it, and with it `StoppedIsQuiet` follows in
every state. `NothingInherited` has an invariant of its own, `EpochsNew`: while every start
has journaled its epoch, no authority that is held or on its way to a session is ahead of the
epoch in force, and only those of this start are level with it.

The argument for the policies. It rests on the shape of a policy set (`Shaped`): the overrides are
of distinct resources, and the set is what recovery would build from them, index included. A lemma
for each mutation shows that the shape is kept and what changes of the map: setting an override
changes one resource (`OverrideSet`), removing one takes its resource out although every
position behind it moves (`OverrideRemoved`), and a position is the only one its resource can
have (`IndexIs`). The inductive invariant, `DetectionInv`, has this shape for the policies in force
and for the saved ones, that the journal has a last install when it has any, the types of
what is written, and `DetectsUnderPolicy`. `WriteSaves` says what a record does to the
policies a restart would find: nothing, if it is an intent's; an install's fallback and
generation over the saved overrides; or all of the policies, when the journal was full. That and
the lemmas of the mutations map each step to one of the book's.

The argument for the intents. What a restart fences is what a fold over the snapshot's list and the
journal takes for live, so the invariant is about the value of that fold (`Accumulated`): what it
has as live is live in the governor, or was fenced since the last checkpoint; and every live intent
is live in it, unless its map is full (`LivesKnown`). A record that is appended applies once more
(`AccumulationAppends`), and what that changes of the live ones is what the call changed in the
governor (`AppliedChanges`, `RecordKeeps`). A checkpoint, asked for or forced by a full
journal in the middle of a sweep, makes both sides equal (`ImageAccumulates`): its list ends with
the intents held, so that the cut takes retired ones only, and an intent both retired and still
held comes last as what it is; and its length is within the bound of the map, so that nothing of it
is passed over (`ShortListIs`). `TypeOK` adds the bounds (`BoundsKept`) in force and of what would
be recovered: a restart after an install has the overrides of one set and the generation of
another.

The argument for the window. `RetainedIs` and `StoreIs` turn the ring into a sequence: storing a
sample appends it and, when the ring is full, moves every other sample one place down although
only `head` moves. From there on nothing speaks of slots. With `SeqEqual` this is the refinement.
The inductive invariant adds to the types that the tick source remembers the newest sample
(`Sourced`), without which an accepted sample could not be compared with the one retained before
it; that the samples of a row without a gap show none (`RecentSteps`), which is `GapForgotten`
before the row has the length of the ring; and `EvidenceAdvances`. `AcceptedIsAhead` is what the
classification of a tick gives: what is accepted is no further ahead than the gap it is charged
with, a rollover included. `GapBoundsSpan` and `CadenceIsComplete` follow in every state from
`Paced`, an induction over the samples: distances add up while they do not turn the range.

The argument for the detector. Modular order is not transitive, so each tick is replaced by its
age, its distance from the first tick; as a life is shorter than half of the range, ages
are compared as numbers (`Past`, `AgeIs`). The inductive invariant, one step per action of
`evaluate()`: whatever is remembered of time was presented, and a run has counted no more
than what passed since it began (`Remembered`); an open episode rests on evidence and on a
sustained run, and is judged by the policy it was opened under (`OpenIsSupported`);
and the cooldown in force is that of the last close, whatever policy has
been configured since (`CooldownOfClose`). The refinement maps each action to an outcome of
`Episodes`: the run the protocol remembers is the onset run, and a decision is
made once per evaluation. `OpenEpisodeBounded` is the one property that is about the window between
evaluations, and so has an invariant on top of these (`BInv`): the newest tick never lies ahead
of the clock (`Behind`), so that a sample before it is late by no more than the clock allows,
is refused under the condition (`LateIsRefused`), and the newest tick moves forward only.

The argument for a session. The worker takes the next frame for the answer to its request, so
that everything rests on what can be under way at once. The inductive invariant says which end
of a connection is still read (`Shape`); that a request under way is the one the worker waits for
and the last frame of its stream (`Requests`), unless a call there did not await its reply; that,
with the same exception, a stream carries at most one reply, and then no request (`Replies`), so
that the reply is the request's; that without any exception an acknowledgement under way is of a batch ingested
from this channel and no later one than the worker's last (`Numbered`), which is what is left of
`AckNamesBatch` after a stream has come back in step; that such a stream has had its answer to
the hello (`Late`), so that no old one is taken for a grant; and that the frames of an accepted worker whose batches are of
its epoch name the epoch of its session (`Served`), so that none of them is fenced.

The argument for recovery. A restart is a fold over the journal, and the library defines a fold
by recursion on sets. `FoldExists` shows by induction over the naturals that the function it
chooses exists, and `ReplayRuns` that it applies the records one after the other; then appending a
record applies one more (`ReplayAppends`), and records a snapshot covers change nothing
(`ReplayCovered`). The inductive invariant: unless a failing write tore one, every record is
whole but the one at which the process ended (`TearsLast`), so that nothing acknowledged lies
behind a record that stops the scan; the sequence is not below what the snapshot covers, and
level with it only for the record that was refused before the compaction (`Sequenced`);
that record, if it closes an episode, closes one the snapshot has in its history (`ClosingOnce`),
which is why it may be skipped; between the rename and the truncation the snapshot alone is
what was promised (`Replaced`); and, outside the windows of torn and overtaken journals, what was
promised is what a restart gives, with the episodes open whose closing record is still to be
written (`Kept`). `Kept` is more than `Recoverable`: it also says what the third window loses. A record
that is written applies alike to a state and to one with more episodes open (`AccumulatePlus`),
and one cut short at the end is not read (`TornIsNotRead`).

Only model-checked:

* `EpisodesAccounted` of the governor for streams whose ticks do not advance is not a property
  at all, see above;
* liveness (`StopReturns`, `LossEndsSession` of the coordinator, `CallReturns` of a session):
  fairness and ENABLED are out of the prover's reach.

## 5. What is left out

* *Governor*: the history ring (a bounded list that drops the oldest), the emission queue,
  statistics, intent magnitudes, and the cap of 1024 intents, which `Ledger` has. `positive`
  over-approximates the code's condition, which also excludes decisions suppressed by a
  cooldown. An invalid initial policy, which the constructor silently ignores, is not an
  initial state. Ticks do not wrap. A reader that still holds the reference `policy_for()`
  returned (`governor.cpp:750`) while another thread replaces that policy is a data race; the
  models have no readers.
* *Policy set*: validation (the policies of the models are valid), `clear_overrides()`, which
  nothing calls, the digest, the encoding.
* *Recovery*: counters; payload bytes and their checksum, which `scan_journal()` skips
  (`journal.cpp:444`, although `README.md:137` says it verifies every record); power loss
  (which writes survive is up to the file system). Opening and closing an episode in one
  decision is two calls. An episode identity is not reused.
* *Ledger*: a resource has one stream, whose detector is the policy it was armed with; a failed
  append and a journal whose sequences begin again below its old ones are `Recovery`'s.
  The order in which the intents held are written to a checkpoint, a hash table's in the code, is
  some fixed one; the proofs use nothing of it but that each intent is written once.
* *Session*: bytes. What is left of a reply is shorter than a header or not, and no garbage
  passes for a header: a header carries a magic number and its own checksum
  (`frame.cpp:91-130`), so that bytes off a boundary are refused but for a collision. One worker, so that the registry always has room for it; another protocol
  version is left out, another boot generation is another epoch. Frames do not overtake each
  other, and a channel holds any number of them: a blocked send is `Coordinator`'s. A send to
  a peer that is gone is an error, as the code expects; on POSIX it may raise `SIGPIPE` and
  end the process instead (`socket.cpp:156` passes no flag against it), which is one of the
  moments of `Killed`, `Restart` and `Crash`.
* *Coordinator*: a store is always bound, as without one each start uses the same seed.
  Epoch and boot generation are one number. Frames arrive when the session waits for
  them; after a shutdown a frame already received may still be read, as with sockets.
  Another protocol version and a malformed hello are one kind of refusal. Counters,
  heartbeat ticks, `wait_for_sessions()`, replay errors during `start()` and a second
  `start()` without `stop()` are left out. The unsynchronised socket handle between
  `stop()` and a session that closes it (`socket.cpp:118-134`) has no outcome within
  the model's state other than the two modelled: the session is cut, or is over.
* Not modelled at all: codecs, the severity ladder, explanations, sample validation, the
  generator, the command line, benchmarks and process control: sequential code without
  state of its own, within reach of unit tests. One remark on `quantities.cpp:26-27`: the
  comment that the shifted remainder of a slope cannot overflow rests on a bound of the tick
  span, which the window does not impose.

## 6. Plan

Done, in this order: window, detector and its protocol, governor, recovery, coordinator;
the governor's and the coordinator's theorems; policy set, ledger and their theorems; worker
and channel; the theorems of window, detector and session with both refinements; those of the
governor's limits and books; those of recovery; those of the ledger's intents and bounds.

Next:

1. Pure algorithms against reference definitions: the severity ladder, cumulative
   counters, frame decoding.
