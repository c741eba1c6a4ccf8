------------------------------ MODULE Recovery ------------------------------
(***************************************************************************)
(* The governor's durable state: the journal and the snapshot of its       *)
(* store, the records its calls append, compaction, crashes and restarts.  *)
(*                                                                         *)
(* A call holds the governor's mutex while it appends, so calls do not     *)
(* interleave; what a crash can separate are the file operations, which    *)
(* are the steps here.  Of the durable state, the fallback policy and the  *)
(* episodes are kept.  Overrides and counters, which only a snapshot       *)
(* carries, and payload bytes are left out, and so is power loss: what was *)
(* written survives the process.                                           *)
(***************************************************************************)
EXTENDS Integers, Sequences, FiniteSets, SequencesExt

CONSTANTS
    Episodes,           \* episode identities, never used twice
    Policies,
    Default,            \* the policy the governor is constructed with
    JournalLimit,       \* max_journal_bytes, in records
    Interventions,      \* config_.enable_interventions
    WritesMayFail,      \* whether a file operation may fail in a live process
    MaxSeq,             \* no new work begins once record_seq_ is this far
    MaxLives            \* how many processes use the store, one by one

ASSUME RecoveryAssumption ==
    /\ Default \in Policies
    /\ JournalLimit \in Nat \ {0}
    /\ Interventions \in BOOLEAN /\ WritesMayFail \in BOOLEAN
    /\ MaxSeq \in Nat /\ MaxLives \in Nat

None == "none"
Entry == [type : {"authority"}, of : {None}]
         \cup [type : {"policy"}, of : Policies]
         \cup [type : {"opened", "closed", "intent"}, of : Episodes]

(* A record is whole unless its write was cut short; that it was           *)
(* acknowledged is for the properties.                                     *)
Record == [entry : Entry, seq : Nat, whole : BOOLEAN, acked : BOOLEAN]

(* fallback policy, episodes open, how often each is in the history.       *)
State == [fallback : Policies, open : SUBSET Episodes, closed : [Episodes -> Nat]]

Blank == [fallback |-> Default, open |-> {}, closed |-> [e \in Episodes |-> 0]]

(* torn: a record cut short lies inside the journal.  overtaken: a         *)
(* snapshot was renamed over a journal with higher sequences than it       *)
(* covers.  closing: episodes that were being closed when it was renamed.  *)
Harm == [torn : BOOLEAN, overtaken : BOOLEAN, closing : SUBSET Episodes]
NoHarm == [torn |-> FALSE, overtaken |-> FALSE, closing |-> {}]

VARIABLES
    journal,        \* disk: the records of the journal file
    snapshot,       \* disk: what the snapshot covers and holds; absent is 0, Blank
    up,             \* whether a process runs
    memory,         \* policies_, open_events_, history_
    live,           \* interventions_: the episodes that hold an intent
    recordSeq,      \* record_seq_
    bytes,          \* journal_bytes_, in records
    handle,         \* journal_handle_ # nullptr
    pending,        \* the entries the current call has yet to append
    io,             \* where append_record_locked() or a checkpoint stands
    used,           \* environment: episodes opened so far
    lives,          \* environment: processes started so far
    stable,         \* history: the durable state that was promised
    harmed          \* history: ways in which the promise is in danger (Harm)

disk == << journal, snapshot >>
process == << up, memory, live, recordSeq, bytes, handle, pending, io >>
history == << used, lives, stable, harmed >>
vars == << disk, process, history >>

Init ==
    /\ journal = << >> /\ snapshot = [covered |-> 0, state |-> Blank]
    /\ up = FALSE /\ memory = Blank /\ live = {}
    /\ recordSeq = 0 /\ bytes = 0 /\ handle = FALSE
    /\ pending = << >> /\ io = "idle"
    /\ used = {} /\ lives = 0
    /\ stable = Blank /\ harmed = NoHarm

-----------------------------------------------------------------------------
(* What a restart makes of the disk.                                       *)

(* The scan stops at the first record that is not whole.                   *)
Readable(j) ==
    LET torn == {i \in DOMAIN j : ~j[i].whole}
    IN  IF torn = {} THEN j ELSE SubSeq(j, 1, Min(torn) - 1)

Accumulate(state, entry) ==
    CASE entry.type = "policy" -> [state EXCEPT !.fallback = entry.of]
      [] entry.type = "opened" -> [state EXCEPT !.open = @ \cup {entry.of}]
      [] entry.type = "closed" -> [state EXCEPT !.open = @ \ {entry.of},
                                                !.closed[entry.of] = @ + 1]
      [] OTHER -> state

(* Records the snapshot covers are skipped.                                *)
Recovered ==
    LET Apply(state, r) == IF r.seq > snapshot.covered
                           THEN Accumulate(state, r.entry) ELSE state
    IN  FoldLeft(Apply, snapshot.state, Readable(journal))

(* Episodes that were open are fenced: they become history.                *)
FencedOf(state, gone) ==
    [state EXCEPT !.open = @ \ gone,
                  !.closed = [e \in Episodes |-> IF e \in gone THEN @[e] + 1 ELSE @[e]]]

Fenced(state) == FencedOf(state, state.open)

-----------------------------------------------------------------------------
(* Calls.  Each changes memory and leaves entries to append.  The bound is *)
(* on new work: what is open may always close, and what is live expire.    *)

NewWork == recordSeq < MaxSeq
Idle == up /\ pending = << >> /\ io = "idle"

Call(mem, intents, entries) ==
    /\ Idle
    /\ memory' = mem /\ live' = intents /\ pending' = entries
    /\ UNCHANGED << disk, up, recordSeq, bytes, handle, io, lives, stable, harmed >>

Entries(type, of) == << [type |-> type, of |-> of] >>
Retired(intents) == SetToSeq([type : {"intent"}, of : intents])

(* process_decision_locked(): the episode enters open_events_ first.       *)
Open(e) ==
    /\ e \notin used /\ NewWork
    /\ used' = used \cup {e}
    /\ Call([memory EXCEPT !.open = @ \cup {e}], live, Entries("opened", e))

(* It leaves open_events_ first; then its intent is retired; then it       *)
(* enters the history and its closing is journaled (see Entering).         *)
(* Mutant: the intent stays until the next refresh.                        *)
CloseKeepsIntent(e) ==
    /\ e \in memory.open
    /\ Call([memory EXCEPT !.open = @ \ {e}], live, Entries("closed", e))
    /\ UNCHANGED used

Close(e) ==
    /\ e \in memory.open
    /\ Call([memory EXCEPT !.open = @ \ {e}], live \ {e},
            Retired(live \cap {e}) \o Entries("closed", e))
    /\ UNCHANGED used

(* maybe_request_interventions_locked().                                   *)
Request(e) ==
    /\ Interventions /\ e \in memory.open \ live /\ NewWork
    /\ Call(memory, live \cup {e}, Entries("intent", e))
    /\ UNCHANGED used

(* install_policy_locked(): rearming fences every open episode, without a  *)
(* record; the intents are retired; the policy is journaled.               *)
InstallPolicy(p) ==
    /\ NewWork
    /\ Call([Fenced(memory) EXCEPT !.fallback = p], {},
            Retired(live) \o Entries("policy", p))
    /\ UNCHANGED used

(* An override set or removed: only the episodes of its resource are       *)
(* fenced, again without a record, and no policy is journaled.  Every      *)
(* intent is of the policies before.                                       *)
SetResourcePolicy ==
    /\ NewWork
    /\ \E gone \in SUBSET memory.open : Call(FencedOf(memory, gone), {}, Retired(live))
    /\ UNCHANGED used

(* The intents that do not fit the new authority are retired.              *)
BindAuthority ==
    /\ NewWork
    /\ \E gone \in SUBSET live :
          Call(memory, live \ gone, Retired(gone) \o Entries("authority", None))
    /\ UNCHANGED used

(* refresh_authority_locked() on a sample or an advance.                   *)
Expire ==
    /\ \E gone \in SUBSET live \ {{}} : Call(memory, live \ gone, Retired(gone))
    /\ UNCHANGED used

Checkpoint ==
    /\ Idle
    /\ io' = "full"
    /\ UNCHANGED << disk, up, memory, live, recordSeq, bytes, handle, pending, history >>

-----------------------------------------------------------------------------
(* append_record_locked().                                                 *)

(* A refused record keeps its sequence for the retry.                      *)
NextSeq == IF io = "retry" THEN recordSeq ELSE recordSeq + 1

Written(whole, acked) ==
    [entry |-> Head(pending), seq |-> NextSeq, whole |-> whole, acked |-> acked]

(* A closing episode enters the history just before its record is written. *)
Entering ==
    IF Head(pending).type = "closed" /\ io = "idle"
    THEN [memory EXCEPT !.closed[Head(pending).of] = @ + 1] ELSE memory

(* What a record whose write completed adds, unless a snapshot has it.     *)
Promised == IF NextSeq > snapshot.covered THEN Accumulate(stable, Head(pending))
                                          ELSE stable

Healed == IF Head(pending).type = "closed"
          THEN [harmed EXCEPT !.closing = @ \ {Head(pending).of}] ELSE harmed

Appending == up /\ pending # << >> /\ io \in {"idle", "retry"}
Room == handle /\ bytes < JournalLimit

Append1 ==
    /\ Appending /\ Room
    /\ journal' = Append(journal, Written(TRUE, TRUE))
    /\ bytes' = bytes + 1
    /\ stable' = Promised
    /\ harmed' = Healed
    /\ recordSeq' = NextSeq /\ memory' = Entering
    /\ pending' = Tail(pending) /\ io' = "idle"
    /\ UNCHANGED << snapshot, up, live, handle, used, lives >>

(* The journal is full: compact, then retry once.                          *)
AppendRefused ==
    /\ Appending /\ handle /\ ~Room
    /\ recordSeq' = NextSeq /\ memory' = Entering
    /\ io' = "full"
    /\ UNCHANGED << disk, up, live, bytes, handle, pending, history >>

(* Nothing, a part or all of the record is in the file.                    *)
AppendFails ==
    /\ Appending /\ WritesMayFail
    /\ \/ ~handle /\ UNCHANGED << journal, stable, harmed >>
       \/ Room /\ UNCHANGED << journal, stable, harmed >>
       \/ /\ Room
          /\ journal' = Append(journal, Written(FALSE, FALSE))
          /\ harmed' = [harmed EXCEPT !.torn = TRUE]
          /\ UNCHANGED stable
       \/ /\ Room
          /\ journal' = Append(journal, Written(TRUE, FALSE))
          /\ stable' = Promised
          /\ harmed' = Healed
    /\ recordSeq' = NextSeq /\ memory' = Entering
    /\ pending' = Tail(pending) /\ io' = "idle"
    /\ UNCHANGED << snapshot, up, live, bytes, handle, used, lives >>

-----------------------------------------------------------------------------
(* write_snapshot(), for compact_locked().                                 *)

(* The episode that has left open_events_ and is not in the history yet.   *)
Closing == {r.of : r \in {x \in ToSet(pending) : x.type = "closed"}}
Between == IF pending # << >> /\ Head(pending).type = "closed" THEN {} ELSE Closing

(* The journal may hold records of an earlier process, whose sequences a   *)
(* snapshot of this one does not cover.                                    *)
CoversJournal == \A i \in DOMAIN journal : journal[i].seq <= recordSeq

(* Mutant: episodes that are in flight are not persisted.                  *)
CompactedWithoutOpen == [memory EXCEPT !.open = {}]

Compacted == memory

(* The temporary file has been written and flushed; it is renamed.         *)
Rename ==
    /\ up /\ io = "full"
    /\ snapshot' = [covered |-> recordSeq, state |-> Compacted]
    /\ io' = "renamed"
    /\ stable' = [memory EXCEPT !.open = @ \cup Between]
    /\ harmed' = [harmed EXCEPT !.overtaken = ~CoversJournal, !.closing = Between]
    /\ UNCHANGED << journal, up, memory, live, recordSeq, bytes, handle, pending, used, lives >>

Rest == IF pending = << >> THEN << >> ELSE Tail(pending)

RenameFails ==
    /\ up /\ io = "full" /\ WritesMayFail
    /\ io' = "idle" /\ pending' = Rest
    /\ UNCHANGED << disk, up, memory, live, recordSeq, bytes, handle, history >>

Emptied == [harmed EXCEPT !.torn = FALSE, !.overtaken = FALSE]

ResetJournal ==
    /\ up /\ io = "renamed" /\ handle
    /\ journal' = << >> /\ bytes' = 0
    /\ io' = IF pending = << >> THEN "idle" ELSE "retry"
    /\ harmed' = Emptied
    /\ UNCHANGED << snapshot, up, memory, live, recordSeq, handle, pending, used, lives, stable >>

(* The flush before the truncation fails, or the handle is closed and      *)
(* gone, whether or not the file has been emptied.                         *)
ResetFails ==
    /\ up /\ io = "renamed" /\ WritesMayFail
    /\ \/ UNCHANGED << journal, harmed, handle >>
       \/ handle' = FALSE /\ UNCHANGED << journal, harmed >>
       \/ handle /\ journal' = << >> /\ harmed' = Emptied /\ handle' = FALSE
    /\ io' = "idle" /\ pending' = Rest
    /\ UNCHANGED << snapshot, up, memory, live, recordSeq, bytes, used, lives, stable >>

-----------------------------------------------------------------------------
(* The process stops, possibly while a record is being written.            *)
Crash ==
    /\ up
    /\ \/ UNCHANGED << journal, stable, harmed >>
       \/ /\ Appending /\ Room
          /\ journal' = Append(journal, Written(FALSE, FALSE))
          /\ UNCHANGED << stable, harmed >>
       \/ /\ Appending /\ Room
          /\ journal' = Append(journal, Written(TRUE, FALSE))
          /\ stable' = Promised
          /\ harmed' = Healed
    /\ up' = FALSE /\ memory' = Blank /\ live' = {}
    /\ recordSeq' = 0 /\ bytes' = 0 /\ handle' = FALSE
    /\ pending' = << >> /\ io' = "idle"
    /\ UNCHANGED << snapshot, used, lives >>

(* open(), bind_store(), restore(): the tail that cannot be read is cut    *)
(* off, the recovered state is taken over, the authority is journaled.     *)
(* Mutant: the tail stays.                                                 *)
RestartKeepsTail ==
    /\ ~up /\ lives < MaxLives
    /\ up' = TRUE /\ lives' = lives + 1
    /\ UNCHANGED journal
    /\ memory' = Fenced(Recovered) /\ live' = {}
    /\ recordSeq' = snapshot.covered
    /\ bytes' = Len(journal') /\ handle' = TRUE
    /\ pending' = Entries("authority", None) /\ io' = "idle"
    /\ stable' = Recovered /\ harmed' = NoHarm
    /\ UNCHANGED << snapshot, used >>

Restart ==
    /\ ~up /\ lives < MaxLives
    /\ up' = TRUE /\ lives' = lives + 1
    /\ journal' = Readable(journal)
    /\ memory' = Fenced(Recovered) /\ live' = {}
    /\ recordSeq' = snapshot.covered
    /\ bytes' = Len(journal') /\ handle' = TRUE
    /\ pending' = Entries("authority", None) /\ io' = "idle"
    /\ stable' = Recovered /\ harmed' = NoHarm
    /\ UNCHANGED << snapshot, used >>

Next ==
    \/ \E e \in Episodes : Open(e) \/ Close(e) \/ Request(e)
    \/ \E p \in Policies : InstallPolicy(p)
    \/ Expire \/ SetResourcePolicy \/ BindAuthority
    \/ Checkpoint
    \/ Append1 \/ AppendRefused \/ AppendFails
    \/ Rename \/ RenameFails
    \/ ResetJournal \/ ResetFails
    \/ Crash
    \/ Restart

Spec == Init /\ [][Next]_vars

-----------------------------------------------------------------------------
(* Properties.                                                             *)

(* Every variable stays in its range; an intent belongs to an open episode.*)
TypeOK ==
    /\ journal \in Seq(Record)
    /\ snapshot \in [covered : Nat, state : State]
    /\ up \in BOOLEAN /\ memory \in State /\ live \subseteq memory.open
    /\ recordSeq \in Nat /\ bytes \in Nat /\ handle \in BOOLEAN
    /\ pending \in Seq(Entry) /\ io \in {"idle", "full", "renamed", "retry"}
    /\ used \subseteq Episodes /\ lives \in 0 .. MaxLives
    /\ stable \in State /\ harmed \in Harm

(* A record is only acknowledged after it is durable, and stays so: every  *)
(* acknowledged record still in the journal is one a restart reads, unless *)
(* a write failed part-way before it in the same process.                  *)
AcknowledgedIsRead ==
    ~harmed.torn =>
        \A i \in DOMAIN journal : journal[i].acked => i <= Len(Readable(journal))

(* What a restart at this moment would give: the policy, and every episode *)
(* as history.                                                             *)
Restored(state) == [fallback |-> state.fallback, episodes |-> Fenced(state).closed]

(* A crash at any point, inside a compaction too, restores what was        *)
(* promised, each episode once, except in three windows: a torn record is  *)
(* in the journal; a snapshot was renamed over a journal in which an       *)
(* earlier process used higher sequences; a compaction happened in the     *)
(* middle of closing an episode.                                           *)
Recoverable == harmed = NoHarm => Restored(Recovered) = Restored(stable)

(* Claimed: the store is crash safe.                                       *)
Durable == Restored(Recovered) = Restored(stable)
=============================================================================
