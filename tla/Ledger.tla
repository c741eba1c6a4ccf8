------------------------------- MODULE Ledger -------------------------------
(***************************************************************************)
(* The governor's policies and intents, the policies its detectors run     *)
(* under, and what a restart makes of them: the policy calls with the      *)
(* revocations they cause, the records they journal one by one, the        *)
(* checkpoint that replaces a full journal, a crash between any two        *)
(* records, and restore().                                                 *)
(*                                                                         *)
(* A resource has one stream.  A checkpoint is one step, and records are   *)
(* written whole: Recovery takes both apart.                               *)
(***************************************************************************)
EXTENDS PolicySet, FiniteSets

CONSTANTS
    Configured,         \* the policy of GovernorConfig
    None,               \* no stream of a resource yet
    MaxInterventions,   \* limits::kMaxInterventions
    MaxJournal,         \* records until the journal is full
    MaxIssued,          \* intents issued
    MaxLives            \* processes of the governor

ASSUME LedgerAssumption ==
    /\ Configured \in Policies /\ None \notin Policies
    /\ MaxInterventions \in Nat \ {0} /\ MaxJournal \in Nat \ {0}
    /\ MaxIssued \in Nat /\ MaxLives \in Nat \ {0}

(* Identities, in the order of issue.  An intent that is not live was      *)
(* retired by the governor or fenced by a restart.                         *)
Ids == 1 .. MaxIssued
States == {"live", "retired", "fenced"}
Intent == [id : Ids, state : States]

(* The journal's records.  "other" is a record that recovery passes over:  *)
(* an authority record, or one its snapshot covers.                        *)
PolicyRecord(set) == [type |-> "policy", fallback |-> set.fallback, generation |-> set.generation]
IntentRecord(id, state) == [type |-> "intent", intent |-> [id |-> id, state |-> state]]
OtherRecord == [type |-> "other"]

Constructed == PolicySetOf(Configured, << >>, 2)

VARIABLES
    policies,       \* policies_
    detector,       \* the policy each stream's detector was armed with
    interventions,  \* interventions_: the state of each intent in it
    retired,        \* intervention_history_
    issued,         \* intents issued so far
    call,           \* the call in progress
    due,            \* its intents still to be retired
    snapshot,       \* what a checkpoint wrote, if there was one
    journal,
    lives,
    unarmed,        \* history: resources whose override went since their detector was armed
    fenced          \* history: intents fenced by restarts since a checkpoint was written

governor == << policies, detector, interventions, retired >>
progress == << call, due >>
store    == << snapshot, journal, fenced >>
vars == << governor, issued, progress, store, lives, unarmed >>

NoSnapshot == [written |-> FALSE]

Init ==
    /\ policies = Constructed
    /\ detector = [r \in Resources |-> None]
    /\ interventions = << >> /\ retired = << >> /\ issued = 0
    /\ call = "none" /\ due = {}
    /\ snapshot = NoSnapshot /\ journal = << >>
    /\ lives = 1 /\ unarmed = {} /\ fenced = {}

Live(intents) == {i \in DOMAIN intents : intents[i] = "live"}
Idle == call = "none"

-----------------------------------------------------------------------------
(* What is durable.                                                        *)

(* The last MaxInterventions of a list.                                    *)
Newest(list) ==
    IF Len(list) <= MaxInterventions THEN list
    ELSE SubSeq(list, Len(list) - MaxInterventions + 1, Len(list))

(* The order of a hash table.                                              *)
Listed(intents) ==
    LET ids == SetToSeq(DOMAIN intents)
    IN  [k \in DOMAIN ids |-> [id |-> ids[k], state |-> intents[ids[k]]]]

(* collect_persisted_interventions_locked() and the policies, as a         *)
(* checkpoint writes them.  Mutant: the live intents are written first.    *)
ImageLiveFirst(set, intents, history) ==
    [written |-> TRUE, policies |-> set, intents |-> Newest(Listed(intents) \o history)]

Image(set, intents, history) ==
    [written |-> TRUE, policies |-> set, intents |-> Newest(history \o Listed(intents))]

(* accumulate_state_locked() and accumulate_record_locked(): the records   *)
(* of intents in order.  A known one is updated, a new one is taken while  *)
(* there is room.                                                          *)
Taken(known, intent) ==
    IF intent.id \in DOMAIN known \/ Cardinality(DOMAIN known) < MaxInterventions
    THEN With(known, intent.id, intent.state)
    ELSE known

Applied(known, record) ==
    IF record.type = "intent" THEN Taken(known, record.intent) ELSE known

SavedIntents == IF snapshot.written THEN snapshot.intents ELSE << >>
Durable ==
    [k \in DOMAIN SavedIntents |-> [type |-> "intent", intent |-> SavedIntents[k]]] \o journal
Accumulated == FoldLeft(Applied, << >>, Durable)

(* append_record_locked(), with the state the call has reached by then: a  *)
(* full journal is replaced by a checkpoint, and the record comes after it.*)
WriteFencing(record, fences) ==
    IF Len(journal) < MaxJournal
    THEN /\ journal' = Append(journal, record) /\ fenced' = fenced \cup fences
         /\ UNCHANGED snapshot
    ELSE /\ snapshot' = Image(policies', interventions', retired')
         /\ journal' = << OtherRecord >> /\ fenced' = {}

Write(record) == WriteFencing(record, {})

(* The overrides are those of the snapshot, the fallback and its           *)
(* generation those of the last record or else of the snapshot.            *)
(* Mutant: a record begins a set without overrides.                        *)
Saved == IF snapshot.written THEN snapshot.policies ELSE Constructed
Installs == {k \in DOMAIN journal : journal[k].type = "policy"}

RecoveredAfresh ==
    IF Installs = {} THEN Saved
    ELSE LET last == journal[Max(Installs)]
         IN  PolicySetOf(last.fallback, << >>, last.generation)

RecoveredPolicies ==
    IF Installs = {} THEN Saved
    ELSE LET last == journal[Max(Installs)]
         IN  PolicySetOf(last.fallback, Saved.overrides, last.generation)

-----------------------------------------------------------------------------
(* The policy calls.                                                       *)

(* A detector is created for a stream's first sample.                      *)
Observe(r) ==
    /\ Idle /\ detector[r] = None
    /\ detector' = [detector EXCEPT ![r] = Resolve(policies, r)]
    /\ UNCHANGED << policies, interventions, retired, issued, progress, store, lives, unarmed >>

Rearmed(resources) ==
    [r \in Resources |-> IF r \in resources /\ detector[r] # None
                         THEN Resolve(policies', r) ELSE detector[r]]

(* Every live intent is of an earlier generation now.                      *)
Revokes(next) == call' = next /\ due' = Live(interventions)

InstallPolicy(policy) ==
    /\ Idle /\ ~Exhausted(policies)
    /\ policies' = SetFallback(policies, policy)
    /\ detector' = Rearmed(Resources)
    /\ unarmed' = {}
    /\ Revokes("install")
    /\ UNCHANGED << interventions, retired, issued, store, lives >>

(* Mutant: the detectors of the resource are not rearmed.                  *)
SetResourcePolicyOnly(r, policy) ==
    /\ Idle /\ AcceptsOverride(policies, r)
    /\ policies' = SetOverride(policies, r, policy)
    /\ Revokes("sweep")
    /\ UNCHANGED << detector, unarmed, interventions, retired, issued, store, lives >>

SetResourcePolicy(r, policy) ==
    /\ Idle /\ AcceptsOverride(policies, r)
    /\ policies' = SetOverride(policies, r, policy)
    /\ detector' = Rearmed({r})
    /\ unarmed' = unarmed \ {r}
    /\ Revokes("sweep")
    /\ UNCHANGED << interventions, retired, issued, store, lives >>

(* No detector is rearmed.                                                 *)
RemoveResourcePolicy(r) ==
    /\ Idle /\ AcceptsRemoval(policies, r)
    /\ policies' = RemoveOverride(policies, r)
    /\ unarmed' = unarmed \cup {q \in {r} : detector[q] # None}
    /\ Revokes("sweep")
    /\ UNCHANGED << detector, interventions, retired, issued, store, lives >>

-----------------------------------------------------------------------------
(* The intents.                                                            *)

(* A decision requests an intent, or renews one: both are journaled.       *)
Request ==
    /\ Idle /\ issued < MaxIssued
    /\ Cardinality(DOMAIN interventions) < MaxInterventions
    /\ issued' = issued + 1
    /\ interventions' = With(interventions, issued + 1, "live")
    /\ UNCHANGED << policies, detector, retired >>
    /\ Write(IntentRecord(issued + 1, "live"))
    /\ UNCHANGED << progress, lives, unarmed >>

Renew(i) ==
    /\ Idle /\ i \in Live(interventions)
    /\ UNCHANGED governor
    /\ Write(IntentRecord(i, "live"))
    /\ UNCHANGED << issued, progress, lives, unarmed >>

(* Intents expire, or lose their episode or their authority.               *)
Lapse ==
    /\ Idle
    /\ \E lapsed \in SUBSET Live(interventions) \ {{}} : due' = lapsed
    /\ call' = "sweep"
    /\ UNCHANGED << governor, issued, store, lives, unarmed >>

(* retire_intervention_locked(): into the history, then into the journal;  *)
(* the intent leaves interventions_ when the sweep is over.                *)
RetireNext ==
    \E i \in due :
        /\ interventions' = [interventions EXCEPT ![i] = "retired"]
        /\ retired' = Newest(Append(retired, [id |-> i, state |-> "retired"]))
        /\ due' = due \ {i}
        /\ UNCHANGED << policies, detector >>
        /\ Write(IntentRecord(i, "retired"))
        /\ UNCHANGED << issued, call, lives, unarmed >>

Swept == [i \in Live(interventions) |-> "live"]

FinishSweep ==
    /\ call = "sweep" /\ due = {}
    /\ call' = "none" /\ interventions' = Swept
    /\ UNCHANGED << policies, detector, retired, issued, due, store, lives, unarmed >>

FinishInstall ==
    /\ call = "install" /\ due = {}
    /\ call' = "none" /\ interventions' = Swept
    /\ UNCHANGED << policies, detector, retired, issued, due >>
    /\ Write(PolicyRecord(policies))
    /\ UNCHANGED << lives, unarmed >>

Checkpoint ==
    /\ Idle
    /\ snapshot' = Image(policies, interventions, retired)
    /\ journal' = << >> /\ fenced' = {}
    /\ UNCHANGED << governor, issued, progress, lives, unarmed >>

(* The process ends between two records; its successor restores what is    *)
(* durable and journals its authority.                                     *)
Restart ==
    /\ lives < MaxLives
    /\ lives' = lives + 1
    /\ policies' = RecoveredPolicies
    /\ detector' = [r \in Resources |-> None]
    /\ interventions' = << >>
    /\ retired' = Listed([i \in Live(Accumulated) |-> "fenced"])
    /\ call' = "none" /\ due' = {} /\ unarmed' = {}
    /\ WriteFencing(OtherRecord, Live(Accumulated))
    /\ UNCHANGED issued

Next ==
    \/ \E r \in Resources :
          Observe(r) \/ RemoveResourcePolicy(r) \/ \E p \in Policies : SetResourcePolicy(r, p)
    \/ \E p \in Policies : InstallPolicy(p)
    \/ Request \/ (\E i \in Ids : Renew(i)) \/ Lapse
    \/ RetireNext \/ FinishSweep \/ FinishInstall
    \/ Checkpoint \/ Restart

Spec == Init /\ [][Next]_vars

-----------------------------------------------------------------------------
(* Properties.                                                             *)

(* Every variable stays in its range; the index of the overrides is that   *)
(* of their list, and a sweep only has live intents before it.             *)
TypeOK ==
    /\ policies.fallback \in Policies /\ policies.overrides \in Seq(Override)
    /\ Len(policies.overrides) <= MaxOverrides
    /\ policies.index = IndexOf(policies.overrides)
    /\ policies.generation \in 2 .. MaxGeneration
    /\ detector \in [Resources -> Policies \cup {None}]
    /\ DOMAIN interventions \subseteq 1 .. issued /\ issued \in 0 .. MaxIssued
    /\ retired \in Seq(Intent) /\ Len(retired) <= MaxInterventions
    /\ call \in {"none", "sweep", "install"}
    /\ due \subseteq Live(interventions) /\ (Idle => due = {})
    /\ Len(journal) <= MaxJournal
    /\ lives \in 1 .. MaxLives /\ unarmed \subseteq Resources /\ fenced \subseteq 1 .. issued

(* The policies in force are a map with a counted generation, of which a   *)
(* restart brings back exactly what was saved: the map of the last         *)
(* checkpoint, explicit or forced by a full journal, with the fallback and *)
(* the generation of the last install since.                               *)
View(set) ==
    [fallback |-> set.fallback, generation |-> set.generation,
     map |-> [r \in DOMAIN set.index |-> Resolve(set, r)]]
Book == INSTANCE PolicyBook WITH
            current <- View(policies), saved <- View(RecoveredPolicies)
PoliciesAreBook == Book!Spec

(* A detector runs under the policy in force for its resource, except when *)
(* the override it was armed with has been removed and nothing has rearmed *)
(* it since.                                                               *)
DetectsUnderPolicy ==
    \A r \in Resources :
        detector[r] \notin {None, Resolve(policies, r)} => r \in unarmed

(* A restart records as fenced the intents that were live when the process *)
(* ended, and no others but those an earlier restart had fenced and whose  *)
(* fencing is not in a checkpoint yet; a live one is only missed when the  *)
(* durable list of intents has reached its bound.                          *)
RestartFencesLive ==
    [][lives' # lives =>
        LET fences == {retired'[k].id : k \in DOMAIN retired'}
        IN  /\ fences \subseteq Live(interventions) \cup fenced
            /\ \A i \in Live(interventions) :
                  i \in fences \/ Cardinality(DOMAIN Accumulated) = MaxInterventions]_vars

(* The policy documents in force between two calls are in force again      *)
(* after a restart.                                                        *)
DocumentsRestored ==
    [][lives' # lives /\ Idle =>
        \A r \in Resources : Resolve(policies', r) = Resolve(policies, r)]_vars
=============================================================================
