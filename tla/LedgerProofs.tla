---------------------------- MODULE LedgerProofs ----------------------------
(***************************************************************************)
(* What Ledger guarantees of policies and intents for any resources,       *)
(* policies and bounds.  The first rests on the shape of a policy set: the *)
(* overrides are of distinct resources, and the index has the position of  *)
(* each.  A set of that shape is a map, and every mutation changes the map *)
(* in one place.  The second rests on what recovery's fold over snapshot   *)
(* and journal has as live being what the governor has.                    *)
(***************************************************************************)
EXTENDS Ledger, NumberProofs, SequenceTheorems, FiniteSetTheorems

Apart(overrides) ==
    \A i, j \in DOMAIN overrides :
        overrides[i].resource = overrides[j].resource => i = j

Lists == {overrides \in Seq(Override) : Apart(overrides)}

Shaped(set) ==
    \E fallback \in Policies, overrides \in Lists, generation \in Nat :
        set = PolicySetOf(fallback, overrides, generation)

-----------------------------------------------------------------------------
(* The index of a list of overrides has the position of each.              *)
LEMMA IndexFinds ==
    ASSUME NEW overrides \in Lists
    PROVE  /\ DOMAIN IndexOf(overrides) \subseteq Resources
           /\ \A i \in DOMAIN overrides :
                 /\ overrides[i].resource \in DOMAIN IndexOf(overrides)
                 /\ IndexOf(overrides)[overrides[i].resource] = i
           /\ \A r \in DOMAIN IndexOf(overrides) :
                 /\ IndexOf(overrides)[r] \in DOMAIN overrides
                 /\ overrides[IndexOf(overrides)[r]].resource = r
<1>1. DOMAIN IndexOf(overrides) = {overrides[i].resource : i \in DOMAIN overrides}
  BY DEF IndexOf
<1>2. \A i \in DOMAIN overrides : IndexOf(overrides)[overrides[i].resource] = i
  <2> TAKE i \in DOMAIN overrides
  <2> DEFINE At(j) == overrides[j].resource = overrides[i].resource
  <2>1. IndexOf(overrides)[overrides[i].resource] = CHOOSE j \in DOMAIN overrides : At(j)
    BY DEF IndexOf
  <2>2. \A j \in DOMAIN overrides : At(j) => j = i
    BY DEF Lists, Apart
  <2> QED
    BY <2>1, <2>2
<1>3. \A i \in DOMAIN overrides : overrides[i] \in Override
  BY DEF Lists
<1>4. DOMAIN IndexOf(overrides) \subseteq Resources
  BY <1>1, <1>3 DEF Override
<1> QED
  BY <1>1, <1>2, <1>4

-----------------------------------------------------------------------------
(* The mutations.                                                          *)

(* Nothing else is an index of the list.                                   *)
LEMMA IndexIs ==
    ASSUME NEW list \in Lists, NEW index, index = [r \in DOMAIN index |-> index[r]],
           \A i \in DOMAIN list :
               list[i].resource \in DOMAIN index /\ index[list[i].resource] = i,
           \A r \in DOMAIN index :
               index[r] \in DOMAIN list /\ list[index[r]].resource = r
    PROVE  IndexOf(list) = index
<1>1. IndexOf(list) = [r \in DOMAIN IndexOf(list) |-> IndexOf(list)[r]]
  BY DEF IndexOf
<1>2. \A r : r \in DOMAIN IndexOf(list) <=> r \in DOMAIN index
  BY IndexFinds
<1>3. \A r \in DOMAIN index : IndexOf(list)[r] = index[r]
  BY IndexFinds
<1> QED
  BY <1>1, <1>2, <1>3

(* Setting the fallback leaves the overrides.                              *)
LEMMA FallbackSet ==
    ASSUME NEW fallback \in Policies, NEW overrides \in Lists, NEW generation \in Nat,
           NEW policy
    PROVE  SetFallback(PolicySetOf(fallback, overrides, generation), policy) =
               PolicySetOf(policy, overrides, generation + 1)
BY DEF PolicySetOf, SetFallback, Bumped

(* A lookup in a set built from a list goes through the list's index.      *)
LEMMA Lookup ==
    ASSUME NEW fallback, NEW list, NEW generation, NEW set,
           set = PolicySetOf(fallback, list, generation)
    PROVE  /\ set.fallback = fallback /\ set.overrides = list
           /\ set.generation = generation /\ set.index = IndexOf(list)
           /\ \A s : Resolve(set, s) = IF s \in DOMAIN IndexOf(list)
                                       THEN list[IndexOf(list)[s]].policy ELSE fallback
<1>1. /\ set.fallback = fallback /\ set.overrides = list
      /\ set.generation = generation /\ set.index = IndexOf(list)
  BY DEF PolicySetOf
<1> QED
  BY <1>1 DEF Resolve, HasOverride

(* Setting an override changes the map at that resource only.              *)
LEMMA OverrideSet ==
    ASSUME NEW fallback \in Policies, NEW overrides \in Lists, NEW generation \in Nat,
           NEW r \in Resources, NEW policy \in Policies, NEW set,
           set = PolicySetOf(fallback, overrides, generation),
           NEW next, next = SetOverride(set, r, policy)
    PROVE  \E list \in Lists :
              /\ next = PolicySetOf(fallback, list, generation + 1)
              /\ DOMAIN next.index = DOMAIN set.index \cup {r}
              /\ \A s \in Resources :
                    Resolve(next, s) = IF s = r THEN policy ELSE Resolve(set, s)
<1> DEFINE entry == [resource |-> r, policy |-> policy]
           index == IndexOf(overrides)
<1>1. entry \in Override /\ entry.resource = r /\ entry.policy = policy
  BY DEF Override
<1>2. /\ set.fallback = fallback /\ set.overrides = overrides
      /\ set.generation = generation /\ set.index = index
      /\ \A s : Resolve(set, s) = IF s \in DOMAIN index
                                  THEN overrides[index[s]].policy ELSE fallback
  BY Lookup
<1>3. overrides \in Seq(Override) /\ Apart(overrides)
  BY DEF Lists
<1>4. /\ \A i \in DOMAIN overrides :
            overrides[i].resource \in DOMAIN index /\ index[overrides[i].resource] = i
      /\ \A s \in DOMAIN index :
            index[s] \in DOMAIN overrides /\ overrides[index[s]].resource = s
  BY IndexFinds
<1>5. index = [s \in DOMAIN index |-> index[s]]
  BY DEF IndexOf
<1>6. CASE HasOverride(set, r)
  <2> DEFINE k == index[r]
             list == [overrides EXCEPT ![k] = entry]
  <2>1. next = Bumped(set, fallback, list, index)
    BY <1>2, <1>6 DEF SetOverride
  <2> HIDE DEF entry, index
  <2>2. r \in DOMAIN index /\ k \in DOMAIN overrides /\ overrides[k].resource = r
    BY <1>2, <1>4, <1>6 DEF HasOverride
  <2>3. list \in Seq(Override)
    BY <1>1, <1>3, <2>2
  <2>4. /\ DOMAIN list = DOMAIN overrides
        /\ list[k] = entry
        /\ \A i \in DOMAIN overrides : i # k => list[i] = overrides[i]
    BY <1>3, <2>2
  <2> HIDE DEF list
  <2>5. \A i \in DOMAIN overrides : list[i].resource = overrides[i].resource
    BY <1>1, <2>2, <2>4
  <2>6. list \in Lists
    BY <1>3, <2>3, <2>4, <2>5 DEF Lists, Apart
  <2>7. IndexOf(list) = index
    BY <1>4, <1>5, <2>4, <2>5, <2>6, IndexIs
  <2>8. next = PolicySetOf(fallback, list, generation + 1)
    BY <1>2, <2>1, <2>7 DEF Bumped, PolicySetOf
  <2>9. /\ next.index = index
        /\ \A s : Resolve(next, s) = IF s \in DOMAIN index
                                     THEN list[index[s]].policy ELSE fallback
    BY <2>7, <2>8, Lookup
  <2>10. \A s \in DOMAIN index : s # r => list[index[s]] = overrides[index[s]]
    BY <1>4, <2>2, <2>4
  <2>11. \A s \in Resources :
            Resolve(next, s) = IF s = r THEN policy ELSE Resolve(set, s)
    BY <1>1, <1>2, <2>2, <2>4, <2>9, <2>10
  <2>12. DOMAIN next.index = DOMAIN set.index \cup {r}
    BY <1>2, <2>2, <2>9
  <2> QED
    BY <2>6, <2>8, <2>11, <2>12
<1>7. CASE ~HasOverride(set, r)
  <2> DEFINE n == Len(overrides) + 1
             list == Append(overrides, entry)
             longer == With(index, r, n)
  <2>1. next = Bumped(set, fallback, list, longer)
    BY <1>2, <1>7 DEF SetOverride
  <2> HIDE DEF entry, index
  <2>2. list \in Seq(Override)
    BY <1>1, <1>3
  <2>3. /\ DOMAIN list = DOMAIN overrides \cup {n} /\ n \notin DOMAIN overrides
        /\ list[n] = entry
        /\ \A i \in DOMAIN overrides : list[i] = overrides[i]
    BY <1>1, <1>3
  <2>4. /\ DOMAIN longer = DOMAIN index \cup {r}
        /\ longer = [s \in DOMAIN longer |-> longer[s]]
        /\ longer[r] = n
        /\ \A s \in DOMAIN index : s # r => longer[s] = index[s]
    BY DEF With
  <2> HIDE DEF list, longer, n
  <2>5. r \notin DOMAIN index
    BY <1>2, <1>7 DEF HasOverride
  <2>6. \A i \in DOMAIN overrides : overrides[i].resource # r
    BY <1>4, <2>5
  <2>7. list \in Lists
    BY <1>1, <1>3, <2>2, <2>3, <2>6 DEF Lists, Apart
  <2>8. \A i \in DOMAIN list :
           list[i].resource \in DOMAIN longer /\ longer[list[i].resource] = i
    BY <1>1, <1>4, <2>3, <2>4, <2>6
  <2>9. \A s \in DOMAIN longer :
           longer[s] \in DOMAIN list /\ list[longer[s]].resource = s
    BY <1>1, <1>4, <2>3, <2>4
  <2>10. IndexOf(list) = longer
    BY <2>4, <2>7, <2>8, <2>9, IndexIs
  <2>11. next = PolicySetOf(fallback, list, generation + 1)
    BY <1>2, <2>1, <2>10 DEF Bumped, PolicySetOf
  <2>12. /\ next.index = longer
         /\ \A s : Resolve(next, s) = IF s \in DOMAIN longer
                                      THEN list[longer[s]].policy ELSE fallback
    BY <2>10, <2>11, Lookup
  <2>13. \A s \in DOMAIN index : list[longer[s]] = overrides[index[s]]
    BY <1>4, <2>3, <2>4, <2>5
  <2>14. \A s \in Resources :
            Resolve(next, s) = IF s = r THEN policy ELSE Resolve(set, s)
    BY <1>1, <1>2, <2>3, <2>4, <2>12, <2>13
  <2>15. DOMAIN next.index = DOMAIN set.index \cup {r}
    BY <1>2, <2>4, <2>12
  <2> QED
    BY <2>7, <2>11, <2>14, <2>15
<1> QED
  BY <1>6, <1>7

(* Removing an override takes its resource out of the map, and moves no    *)
(* other.                                                                  *)
LEMMA OverrideRemoved ==
    ASSUME NEW fallback \in Policies, NEW overrides \in Lists, NEW generation \in Nat,
           NEW r \in Resources, NEW set,
           set = PolicySetOf(fallback, overrides, generation), HasOverride(set, r),
           NEW next, next = RemoveOverride(set, r)
    PROVE  \E list \in Lists :
              /\ next = PolicySetOf(fallback, list, generation + 1)
              /\ DOMAIN next.index = DOMAIN set.index \ {r}
              /\ \A s \in Resources : s # r => Resolve(next, s) = Resolve(set, s)
<1> DEFINE index == IndexOf(overrides)
           k == index[r]
           list == SubSeq(overrides, 1, k - 1) \o SubSeq(overrides, k + 1, Len(overrides))
           after == IndexOf(list)
<1>1. /\ set.fallback = fallback /\ set.overrides = overrides
      /\ set.generation = generation /\ set.index = index
      /\ \A s : Resolve(set, s) = IF s \in DOMAIN index
                                  THEN overrides[index[s]].policy ELSE fallback
  BY Lookup
<1>2. overrides \in Seq(Override) /\ Apart(overrides)
  BY DEF Lists
<1>3. /\ \A i \in DOMAIN overrides :
            overrides[i].resource \in DOMAIN index /\ index[overrides[i].resource] = i
      /\ \A s \in DOMAIN index :
            index[s] \in DOMAIN overrides /\ overrides[index[s]].resource = s
  BY IndexFinds
<1>4. next = PolicySetOf(fallback, list, generation + 1)
  BY <1>1 DEF RemoveOverride, RemoveAt
<1> HIDE DEF list
<1>5. /\ next.index = after
      /\ \A s : Resolve(next, s) = IF s \in DOMAIN after
                                   THEN list[after[s]].policy ELSE fallback
  BY <1>4, Lookup
<1> HIDE DEF index, after
<1>6. r \in DOMAIN index /\ k \in 1 .. Len(overrides) /\ overrides[k].resource = r
  BY <1>1, <1>2, <1>3 DEF HasOverride
<1>7. /\ list \in Seq(Override)
      /\ DOMAIN list = 1 .. Len(overrides) - 1
      /\ \A i \in DOMAIN list : list[i] = overrides[IF i < k THEN i ELSE i + 1]
  <2> HIDE DEF k
  <2> DEFINE n == Len(overrides)
             left == SubSeq(overrides, 1, k - 1)
             right == SubSeq(overrides, k + 1, n)
  <2>1. n \in Nat /\ k \in 1 .. n
    BY <1>2, <1>6
  <2>2. /\ left \in Seq(Override) /\ Len(left) = k - 1
        /\ \A i \in 1 .. k - 1 : left[i] = overrides[i]
    BY <1>2, <2>1
  <2>3. /\ right \in Seq(Override) /\ Len(right) = n - k
        /\ \A i \in 1 .. n - k : right[i] = overrides[k + i]
    BY <1>2, <2>1
  <2>4. list = left \o right
    BY DEF list
  <2> HIDE DEF n, left, right
  <2>5. /\ list \in Seq(Override) /\ Len(list) = n - 1
        /\ \A i \in 1 .. n - 1 : list[i] = IF i < k THEN left[i] ELSE right[i - (k - 1)]
    <3>1. left \o right \in Seq(Override) /\ Len(left \o right) = (k - 1) + (n - k)
      BY <2>2, <2>3
    <3>2. \A i \in 1 .. (k - 1) + (n - k) :
             (left \o right)[i] = IF i <= k - 1 THEN left[i] ELSE right[i - (k - 1)]
      BY <2>2, <2>3
    <3>3. (k - 1) + (n - k) = n - 1 /\ \A i \in Int : i <= k - 1 <=> i < k
      BY <2>1
    <3> QED
      BY <2>4, <3>1, <3>2, <3>3
  <2>6. \A i \in 1 .. n - 1 : list[i] = overrides[IF i < k THEN i ELSE i + 1]
    <3> TAKE i \in 1 .. n - 1
    <3>1. CASE i < k
      BY <3>1, <2>1, <2>2, <2>5
    <3>2. CASE ~(i < k)
      <4>1. i - (k - 1) \in 1 .. n - k /\ k + (i - (k - 1)) = i + 1
        BY <3>2, <2>1
      <4> QED
        BY <3>2, <4>1, <2>3, <2>5
    <3> QED
      BY <3>1, <3>2
  <2> QED
    BY <2>1, <2>5, <2>6 DEF n
<1> HIDE DEF k
<1> DEFINE From(i) == IF i < k THEN i ELSE i + 1
           To(j) == IF j < k THEN j ELSE j - 1
<1>8. \A i \in DOMAIN list :
         From(i) \in DOMAIN overrides /\ From(i) # k /\ list[i] = overrides[From(i)]
  BY <1>2, <1>6, <1>7
<1>9. \A j \in DOMAIN overrides :
         j # k => To(j) \in DOMAIN list /\ list[To(j)] = overrides[j]
  BY <1>2, <1>6, <1>7
<1>10. \A i, j \in DOMAIN list : From(i) = From(j) => i = j
  BY <1>6, <1>7
<1> HIDE DEF From, To
<1>11. list \in Lists
  BY <1>2, <1>7, <1>8, <1>10 DEF Lists, Apart
<1>12. /\ \A i \in DOMAIN list :
             list[i].resource \in DOMAIN after /\ after[list[i].resource] = i
       /\ \A s \in DOMAIN after :
             after[s] \in DOMAIN list /\ list[after[s]].resource = s
  BY <1>11, IndexFinds DEF after
<1>13. ASSUME NEW s \in DOMAIN after
       PROVE  s \in DOMAIN index /\ s # r
  <2>1. after[s] \in DOMAIN list /\ list[after[s]].resource = s
    BY <1>12
  <2>2. From(after[s]) \in DOMAIN overrides /\ From(after[s]) # k
        /\ overrides[From(after[s])].resource = s
    BY <1>8, <2>1
  <2> QED
    BY <1>3, <2>2 DEF k
<1>14. ASSUME NEW s \in DOMAIN index, s # r
       PROVE  s \in DOMAIN after /\ list[after[s]] = overrides[index[s]]
  <2>1. index[s] \in DOMAIN overrides /\ overrides[index[s]].resource = s
    BY <1>3
  <2>2. index[s] # k
    BY <1>6, <1>14, <2>1
  <2>3. To(index[s]) \in DOMAIN list /\ list[To(index[s])] = overrides[index[s]]
    BY <1>9, <2>1, <2>2
  <2>4. s \in DOMAIN after /\ after[s] = To(index[s])
    BY <1>12, <2>1, <2>3
  <2> QED
    BY <2>3, <2>4
<1>15. DOMAIN next.index = DOMAIN set.index \ {r}
  BY <1>1, <1>5, <1>13, <1>14
<1>16. \A s \in Resources : s # r => Resolve(next, s) = Resolve(set, s)
  BY <1>1, <1>5, <1>13, <1>14
<1> QED
  BY <1>4, <1>11, <1>15, <1>16

-----------------------------------------------------------------------------
(* The inductive invariant: the policies in force and the saved ones have  *)
(* the shape of a policy set, the journal has a last install when it has   *)
(* one, and the intents are numbered.                                      *)
Records ==
    [type : {"policy"}, fallback : Policies, generation : Nat]
    \cup [type : {"intent"}, intent : [id : Nat, state : States]]
    \cup {OtherRecord}

JournalKept ==
    /\ journal \in Seq(Records)
    /\ Installs # {} => Max(Installs) \in Installs

IntentsKept == issued \in Nat /\ DOMAIN interventions \subseteq Nat /\ due \subseteq Nat

PoliciesKept == Shaped(policies) /\ Shaped(Saved) /\ JournalKept /\ IntentsKept

DetectionInv ==
    /\ PoliciesKept
    /\ detector \in [Resources -> Policies \cup {None}]
    /\ DetectsUnderPolicy

(* A set of that shape resolves to policies.                               *)
LEMMA ShapedResolves ==
    ASSUME NEW set, Shaped(set)
    PROVE  \A r : Resolve(set, r) \in Policies
<1>1. PICK fallback \in Policies, overrides \in Lists, generation \in Nat :
         set = PolicySetOf(fallback, overrides, generation)
  BY DEF Shaped
<1>2. \A r : Resolve(set, r) = IF r \in DOMAIN IndexOf(overrides)
                               THEN overrides[IndexOf(overrides)[r]].policy ELSE fallback
  BY <1>1, Lookup
<1>3. \A i \in DOMAIN overrides : overrides[i].policy \in Policies
  <2>1. \A i \in DOMAIN overrides : overrides[i] \in Override
    BY DEF Lists
  <2> QED
    BY <2>1 DEF Override
<1> QED
  BY <1>2, <1>3, IndexFinds

(* What recovery makes of the saved policies and the last install is a     *)
(* policy set.                                                             *)
LEMMA RecoveredShaped ==
    ASSUME Shaped(Saved), JournalKept
    PROVE  Shaped(RecoveredPolicies)
<1>1. CASE Installs = {}
  BY <1>1 DEF RecoveredPolicies
<1>2. CASE Installs # {}
  <2> DEFINE last == journal[Max(Installs)]
  <2>1. last \in Records /\ last.type = "policy"
    BY <1>2 DEF JournalKept, Installs
  <2>2. last.fallback \in Policies /\ last.generation \in Nat
    BY <2>1 DEF Records, OtherRecord
  <2>3. PICK fallback \in Policies, overrides \in Lists, generation \in Nat :
           Saved = PolicySetOf(fallback, overrides, generation)
    BY DEF Shaped
  <2>4. Saved.overrides = overrides
    BY <2>3 DEF PolicySetOf
  <2>5. RecoveredPolicies = PolicySetOf(last.fallback, overrides, last.generation)
    BY <1>2, <2>4 DEF RecoveredPolicies
  <2> QED
    BY <2>2, <2>5 DEF Shaped
<1> QED
  BY <1>1, <1>2

(* A record goes behind the others, or a checkpoint of the policies takes  *)
(* the place of all of them.                                               *)
LEMMA WriteSaves ==
    ASSUME Shaped(Saved), JournalKept, Shaped(policies'),
           NEW record \in Records, NEW fences, WriteFencing(record, fences)
    PROVE  /\ Shaped(Saved)' /\ JournalKept'
           /\ \/ RecoveredPolicies' = policies'
              \/ record.type # "policy" /\ RecoveredPolicies' = RecoveredPolicies
              \/ /\ record.type = "policy"
                 /\ RecoveredPolicies' =
                        PolicySetOf(record.fallback, Saved.overrides, record.generation)
<1>1. CASE Len(journal) < MaxJournal
  <2>1. journal' = Append(journal, record) /\ Saved' = Saved
    BY <1>1 DEF WriteFencing, Saved
  <2> DEFINE n == Len(journal)
  <2>2. /\ n \in Nat /\ journal' \in Seq(Records) /\ DOMAIN journal = 1 .. n
        /\ DOMAIN journal' = 1 .. n + 1 /\ journal'[n + 1] = record
        /\ \A k \in DOMAIN journal : journal'[k] = journal[k]
    BY <2>1 DEF JournalKept
  <2>3. CASE record.type # "policy"
    <3>1. Installs' = Installs
      BY <2>2, <2>3 DEF Installs
    <3>2. JournalKept' /\ Max(Installs)' = Max(Installs)
      BY <2>2, <3>1 DEF JournalKept
    <3>3. Installs # {} => journal'[Max(Installs)] = journal[Max(Installs)]
      BY <2>2 DEF JournalKept, Installs
    <3>4. RecoveredPolicies' = RecoveredPolicies
      BY <2>1, <3>1, <3>2, <3>3 DEF RecoveredPolicies
    <3> QED
      BY <2>1, <2>3, <3>2, <3>4
  <2>4. CASE record.type = "policy"
    <3>1. Installs' = Installs \cup {n + 1}
      BY <2>2, <2>4 DEF Installs
    <3>2. \A k \in Installs' : k \in Nat /\ k <= n + 1
      BY <2>2, <3>1 DEF Installs
    <3>3. Max(Installs') = n + 1
      BY <2>2, <3>1, <3>2 DEF Max
    <3>4. JournalKept'
      BY <2>2, <3>1, <3>3 DEF JournalKept
    <3>5. RecoveredPolicies' =
             PolicySetOf(record.fallback, Saved.overrides, record.generation)
      BY <2>1, <2>2, <3>1, <3>3 DEF RecoveredPolicies
    <3> QED
      BY <2>1, <2>4, <3>4, <3>5
  <2> QED
    BY <2>3, <2>4
<1>2. CASE ~(Len(journal) < MaxJournal)
  <2>1. journal' = << OtherRecord >> /\ Saved' = policies'
    BY <1>2 DEF WriteFencing, Saved, Image
  <2>2. Installs' = {}
    BY <2>1 DEF Installs, OtherRecord
  <2>3. JournalKept'
    BY <2>1, <2>2 DEF JournalKept, Records
  <2> QED
    BY <2>1, <2>2, <2>3 DEF RecoveredPolicies
<1> QED
  BY <1>1, <1>2

-----------------------------------------------------------------------------
(* The initial states.                                                     *)
LEMMA InitKeeps == Init => DetectionInv
<1> SUFFICES ASSUME Init PROVE DetectionInv
  OBVIOUS
<1> USE LedgerAssumption DEF Init
<1>1. << >> \in Lists
  BY DEF Lists, Apart
<1>2. Shaped(Constructed)
  BY <1>1 DEF Shaped, Constructed
<1>3. Saved = Constructed
  BY DEF Saved, NoSnapshot
<1>4. JournalKept
  BY DEF JournalKept, Installs
<1>5. IntentsKept
  BY DEF IntentsKept
<1>6. detector \in [Resources -> Policies \cup {None}] /\ DetectsUnderPolicy
  BY DEF DetectsUnderPolicy
<1> QED
  BY <1>2, <1>3, <1>4, <1>5, <1>6 DEF DetectionInv, PoliciesKept

(* What a call writes is a record of the journal.                          *)
LEMMA WrittenAreRecords ==
    /\ \A i \in Nat, state \in States :
          IntentRecord(i, state) \in Records /\ IntentRecord(i, state).type = "intent"
    /\ OtherRecord \in Records /\ OtherRecord.type = "other"
    /\ PoliciesKept => PolicyRecord(policies) \in Records /\ PolicyRecord(policies).type = "policy"
<1>1. \A i \in Nat, state \in States :
          IntentRecord(i, state) \in Records /\ IntentRecord(i, state).type = "intent"
  BY DEF Records, IntentRecord
<1>2. OtherRecord \in Records /\ OtherRecord.type = "other"
  BY DEF Records, OtherRecord
<1>3. ASSUME PoliciesKept
      PROVE  PolicyRecord(policies) \in Records /\ PolicyRecord(policies).type = "policy"
  <2>1. policies.fallback \in Policies /\ policies.generation \in Nat
    BY <1>3 DEF PoliciesKept, Shaped, PolicySetOf
  <2> QED
    BY <2>1 DEF Records, PolicyRecord
<1> QED
  BY <1>1, <1>2, <1>3

(* The mutations keep the shape of the policies.                           *)
LEMMA MutationsKeepShape ==
    ASSUME Shaped(policies)
    PROVE  /\ \A policy \in Policies : Shaped(SetFallback(policies, policy))
           /\ \A r \in Resources, policy \in Policies : Shaped(SetOverride(policies, r, policy))
           /\ \A r \in Resources :
                 HasOverride(policies, r) => Shaped(RemoveOverride(policies, r))
<1>1. PICK fallback \in Policies, overrides \in Lists, generation \in Nat :
         policies = PolicySetOf(fallback, overrides, generation)
  BY DEF Shaped
<1>2. generation + 1 \in Nat
  OBVIOUS
<1>3. \A policy \in Policies : Shaped(SetFallback(policies, policy))
  BY <1>1, <1>2, FallbackSet DEF Shaped
<1>4. \A r \in Resources, policy \in Policies : Shaped(SetOverride(policies, r, policy))
  BY <1>1, <1>2, OverrideSet DEF Shaped
<1>5. \A r \in Resources :
         HasOverride(policies, r) => Shaped(RemoveOverride(policies, r))
  BY <1>1, <1>2, OverrideRemoved DEF Shaped
<1> QED
  BY <1>3, <1>4, <1>5

(* The policies and what is durable of them keep their shape in a step.    *)
LEMMA NextKeepsPolicies ==
    ASSUME PoliciesKept, Next
    PROVE  PoliciesKept'
<1> USE DEF PoliciesKept
<1> DEFINE Steady == UNCHANGED << snapshot, journal >>
<1>1. Steady => (Shaped(Saved) /\ JournalKept)'
  BY DEF Saved, JournalKept, Installs
<1>2. ASSUME Shaped(policies'), NEW record \in Records, NEW fences, WriteFencing(record, fences)
      PROVE  (Shaped(Saved) /\ JournalKept)'
  BY <1>2, WriteSaves
<1>3. Live(interventions) \subseteq Nat
  BY DEF IntentsKept, Live
<1>4. ASSUME NEW r \in Resources, Observe(r)
      PROVE  PoliciesKept'
  BY <1>1, <1>4 DEF Observe, store, progress, IntentsKept
<1>5. ASSUME NEW r \in Resources, NEW p \in Policies, SetResourcePolicy(r, p)
      PROVE  PoliciesKept'
  BY <1>1, <1>3, <1>5, MutationsKeepShape DEF SetResourcePolicy, Revokes, store, IntentsKept
<1>6. ASSUME NEW r \in Resources, RemoveResourcePolicy(r)
      PROVE  PoliciesKept'
  BY <1>1, <1>3, <1>6, MutationsKeepShape
     DEF RemoveResourcePolicy, AcceptsRemoval, Revokes, store, IntentsKept
<1>7. ASSUME NEW p \in Policies, InstallPolicy(p)
      PROVE  PoliciesKept'
  BY <1>1, <1>3, <1>7, MutationsKeepShape DEF InstallPolicy, Revokes, store, IntentsKept
<1>8. ASSUME Request
      PROVE  PoliciesKept'
  <2>1. /\ policies' = policies /\ issued' = issued + 1 /\ due' = due
        /\ interventions' = With(interventions, issued + 1, "live")
        /\ WriteFencing(IntentRecord(issued + 1, "live"), {})
    BY <1>8 DEF Request, progress, Write
  <2>2. issued + 1 \in Nat /\ "live" \in States
    BY DEF IntentsKept, States
  <2>3. IntentsKept'
    BY <2>1, <2>2 DEF IntentsKept, With
  <2> QED
    BY <1>2, <2>1, <2>2, <2>3, WrittenAreRecords
<1>9. ASSUME NEW i \in Ids, Renew(i)
      PROVE  PoliciesKept'
  <2>1. /\ policies' = policies /\ issued' = issued /\ due' = due
        /\ interventions' = interventions /\ WriteFencing(IntentRecord(i, "live"), {})
    BY <1>9 DEF Renew, progress, governor, Write
  <2>2. i \in Nat /\ "live" \in States
    BY <1>3, <1>9 DEF Renew, States
  <2> QED
    BY <1>2, <2>1, <2>2, WrittenAreRecords DEF IntentsKept
<1>10. ASSUME Lapse
       PROVE  PoliciesKept'
  BY <1>1, <1>3, <1>10 DEF Lapse, governor, store, IntentsKept
<1>11. ASSUME RetireNext
       PROVE  PoliciesKept'
  <2>1. PICK i \in due :
           /\ policies' = policies /\ issued' = issued /\ due' = due \ {i}
           /\ interventions' = [interventions EXCEPT ![i] = "retired"]
           /\ WriteFencing(IntentRecord(i, "retired"), {})
    BY <1>11 DEF RetireNext, Write
  <2>2. i \in Nat /\ "retired" \in States
    BY DEF IntentsKept, States
  <2> QED
    BY <1>2, <2>1, <2>2, WrittenAreRecords DEF IntentsKept
<1>12. DOMAIN Swept \subseteq Nat
  BY <1>3 DEF Swept
<1>13. ASSUME FinishSweep
       PROVE  PoliciesKept'
  BY <1>1, <1>12, <1>13 DEF FinishSweep, store, IntentsKept
<1>14. ASSUME FinishInstall
       PROVE  PoliciesKept'
  <2>1. /\ policies' = policies /\ issued' = issued /\ due' = due
        /\ interventions' = Swept /\ WriteFencing(PolicyRecord(policies), {})
    BY <1>14 DEF FinishInstall, Write
  <2> QED
    BY <1>2, <1>12, <2>1, WrittenAreRecords DEF IntentsKept
<1>15. ASSUME Checkpoint
       PROVE  PoliciesKept'
  <2>1. Saved' = policies /\ journal' = << >> /\ UNCHANGED << governor, issued, due >>
    BY <1>15 DEF Checkpoint, Saved, Image, progress
  <2> QED
    BY <2>1 DEF JournalKept, Installs, IntentsKept, governor
<1>16. ASSUME Restart
       PROVE  PoliciesKept'
  <2>1. /\ policies' = RecoveredPolicies /\ issued' = issued /\ due' = {}
        /\ interventions' = << >> /\ WriteFencing(OtherRecord, Live(Accumulated))
    BY <1>16 DEF Restart
  <2> QED
    BY <1>2, <2>1, RecoveredShaped, WrittenAreRecords DEF IntentsKept
<1> QED
  BY <1>4, <1>5, <1>6, <1>7, <1>8, <1>9, <1>10, <1>11, <1>13, <1>14, <1>15, <1>16 DEF Next

-----------------------------------------------------------------------------
(* A mutation of an override leaves what other resources resolve to.       *)
LEMMA OthersResolve ==
    ASSUME Shaped(policies), NEW r \in Resources
    PROVE  /\ \A policy \in Policies, s \in Resources :
                 s # r => Resolve(SetOverride(policies, r, policy), s) = Resolve(policies, s)
           /\ HasOverride(policies, r) =>
                 \A s \in Resources :
                    s # r => Resolve(RemoveOverride(policies, r), s) = Resolve(policies, s)
<1>1. PICK fallback \in Policies, overrides \in Lists, generation \in Nat :
         policies = PolicySetOf(fallback, overrides, generation)
  BY DEF Shaped
<1>2. \A policy \in Policies, s \in Resources :
         s # r => Resolve(SetOverride(policies, r, policy), s) = Resolve(policies, s)
  BY <1>1, OverrideSet
<1>3. HasOverride(policies, r) =>
         \A s \in Resources :
            s # r => Resolve(RemoveOverride(policies, r), s) = Resolve(policies, s)
  BY <1>1, OverrideRemoved
<1> QED
  BY <1>2, <1>3

(* The detectors in a step.                                                *)
LEMMA NextKeepsDetection ==
    ASSUME DetectionInv, Next
    PROVE  DetectionInv'
<1> DEFINE Armed == /\ detector \in [Resources -> Policies \cup {None}]
                    /\ DetectsUnderPolicy
<1>1. PoliciesKept /\ PoliciesKept' /\ Armed
  BY NextKeepsPolicies DEF DetectionInv
<1>2. (\A r : Resolve(policies, r) \in Policies) /\ (\A r : Resolve(policies', r) \in Policies)
  BY <1>1, ShapedResolves DEF PoliciesKept
<1>3. UNCHANGED << policies, detector, unarmed >> => Armed'
  BY <1>1 DEF DetectsUnderPolicy, Resolve, HasOverride
<1>4. ASSUME NEW r \in Resources, Observe(r)
      PROVE  Armed'
  <2>1. /\ policies' = policies /\ unarmed' = unarmed
        /\ detector' = [detector EXCEPT ![r] = Resolve(policies, r)]
    BY <1>4 DEF Observe
  <2>2. detector' \in [Resources -> Policies \cup {None}]
    BY <1>1, <1>2, <2>1
  <2>3. \A s \in Resources : Resolve(policies, s)' = Resolve(policies, s)
    BY <2>1 DEF Resolve, HasOverride
  <2> QED
    BY <1>1, <2>1, <2>2, <2>3 DEF DetectsUnderPolicy
<1>5. ASSUME NEW resources, detector' = Rearmed(resources),
             \A s \in Resources \ resources : Resolve(policies', s) = Resolve(policies, s),
             unarmed' = unarmed \ resources
      PROVE  Armed'
  <2>1. \A s \in Resources :
           detector'[s] = IF s \in resources /\ detector[s] # None
                          THEN Resolve(policies', s) ELSE detector[s]
    BY <1>5 DEF Rearmed
  <2>2. detector' = [s \in Resources |-> detector'[s]]
    BY <1>5 DEF Rearmed
  <2>3. detector' \in [Resources -> Policies \cup {None}]
    BY <1>1, <1>2, <2>1, <2>2
  <2>4. ASSUME NEW s \in Resources, detector'[s] \notin {None, Resolve(policies', s)}
        PROVE  s \in unarmed'
    BY <1>1, <1>5, <2>1, <2>4 DEF DetectsUnderPolicy
  <2> QED
    BY <2>3, <2>4 DEF DetectsUnderPolicy, Resolve, HasOverride
<1>6. ASSUME NEW r \in Resources, NEW p \in Policies, SetResourcePolicy(r, p)
      PROVE  Armed'
  <2>1. /\ detector' = Rearmed({r}) /\ unarmed' = unarmed \ {r}
        /\ policies' = SetOverride(policies, r, p)
    BY <1>6 DEF SetResourcePolicy
  <2>2. \A s \in Resources \ {r} : Resolve(policies', s) = Resolve(policies, s)
    BY <1>1, <2>1, OthersResolve DEF PoliciesKept
  <2> QED
    BY <1>5, <2>1, <2>2
<1>7. ASSUME NEW p \in Policies, InstallPolicy(p)
      PROVE  Armed'
  <2>1. detector' = Rearmed(Resources) /\ unarmed' = {}
    BY <1>7 DEF InstallPolicy
  <2>2. \A s \in Resources : detector'[s] \in {None, Resolve(policies', s)}
    BY <2>1 DEF Rearmed
  <2>3. detector' = [s \in Resources |-> detector'[s]]
    BY <2>1 DEF Rearmed
  <2>4. detector' \in [Resources -> Policies \cup {None}]
    BY <1>2, <2>2, <2>3
  <2> QED
    BY <2>2, <2>4 DEF DetectsUnderPolicy, Resolve, HasOverride
<1>8. ASSUME NEW r \in Resources, RemoveResourcePolicy(r)
      PROVE  Armed'
  <2>1. /\ policies' = RemoveOverride(policies, r) /\ HasOverride(policies, r)
        /\ detector' = detector
        /\ unarmed' = unarmed \cup {q \in {r} : detector[q] # None}
    BY <1>8 DEF RemoveResourcePolicy, AcceptsRemoval
  <2>2. \A s \in Resources : s # r => Resolve(policies', s) = Resolve(policies, s)
    BY <1>1, <2>1, OthersResolve DEF PoliciesKept
  <2>3. ASSUME NEW s \in Resources, detector[s] \notin {None, Resolve(policies', s)}
        PROVE  s \in unarmed'
    BY <1>1, <2>1, <2>2, <2>3 DEF DetectsUnderPolicy
  <2> QED
    BY <1>1, <2>1, <2>3 DEF DetectsUnderPolicy, Resolve, HasOverride
<1>9. ASSUME Restart
      PROVE  Armed'
  BY <1>9 DEF Restart, DetectsUnderPolicy
<1>10. ASSUME \/ Request \/ (\E i \in Ids : Renew(i)) \/ Lapse \/ RetireNext
              \/ FinishSweep \/ FinishInstall \/ Checkpoint
       PROVE  UNCHANGED << policies, detector, unarmed >>
  BY <1>10 DEF Request, Renew, Lapse, RetireNext, FinishSweep, FinishInstall, Checkpoint, governor
<1>11. Armed'
  BY <1>3, <1>4, <1>6, <1>7, <1>8, <1>9, <1>10 DEF Next
<1> QED
  BY <1>1, <1>11 DEF DetectionInv

(* The invariant is inductive.                                             *)
LEMMA DetectionInductive == Spec => []DetectionInv
<1>1. DetectionInv /\ [Next]_vars => DetectionInv'
  <2> SUFFICES ASSUME DetectionInv, [Next]_vars PROVE DetectionInv'
    OBVIOUS
  <2>1. CASE UNCHANGED vars
    BY <2>1 DEF vars, governor, progress, store, DetectionInv, PoliciesKept, JournalKept,
        IntentsKept, Saved, Installs, DetectsUnderPolicy, Resolve, HasOverride
  <2> QED
    BY <2>1, NextKeepsDetection
<1> QED
  BY <1>1, InitKeeps, PTL DEF Spec

(* A detector never runs under another policy than its resource's, unless  *)
(* remove_resource_policy() took the override it was armed with: whatever  *)
(* is installed, overridden, journaled, checkpointed or restored.          *)
THEOREM DetectorsFollowPolicies == Spec => []DetectsUnderPolicy
<1>1. DetectionInv => DetectsUnderPolicy
  BY DEF DetectionInv
<1> QED
  BY <1>1, DetectionInductive, PTL

-----------------------------------------------------------------------------
(* The refinement.                                                         *)

(* The map that a list of overrides stands for.                            *)
MapOf(list) == [r \in DOMAIN IndexOf(list) |-> list[IndexOf(list)[r]].policy]

(* What the book sees of a policy set: its positions and index are gone.   *)
LEMMA ViewOfSet ==
    ASSUME NEW fallback, NEW list, NEW generation, NEW set,
           set = PolicySetOf(fallback, list, generation)
    PROVE  View(set) = [fallback |-> fallback, generation |-> generation, map |-> MapOf(list)]
<1>1. /\ set.fallback = fallback /\ set.generation = generation
      /\ set.index = IndexOf(list)
      /\ \A s : Resolve(set, s) = IF s \in DOMAIN IndexOf(list)
                                  THEN list[IndexOf(list)[s]].policy ELSE fallback
  BY Lookup
<1>2. [r \in DOMAIN set.index |-> Resolve(set, r)] = MapOf(list)
  BY <1>1 DEF MapOf
<1> QED
  BY <1>1, <1>2 DEF View

(* The constructed policies are the book's initial ones.                   *)
LEMMA ViewOfConstructed == View(Constructed) = Book!Initial
<1>1. View(Constructed) = [fallback |-> Configured, generation |-> 2, map |-> MapOf(<< >>)]
  BY ViewOfSet DEF Constructed
<1>2. DOMAIN IndexOf(<< >>) = {}
  BY DEF IndexOf
<1>3. MapOf(<< >>) = << >>
  BY <1>2 DEF MapOf
<1> QED
  BY <1>1, <1>3 DEF Book!Initial

(* A mutation is one change of the map or of the fallback, counted once.   *)
LEMMA MutationsAreChanges ==
    ASSUME Shaped(policies), RecoveredPolicies' = RecoveredPolicies,
           \/ \E policy \in Policies : policies' = SetFallback(policies, policy)
           \/ \E r \in Resources, policy \in Policies :
                 policies' = SetOverride(policies, r, policy)
           \/ \E r \in Resources :
                 HasOverride(policies, r) /\ policies' = RemoveOverride(policies, r)
    PROVE  Book!Change
<1>1. PICK fallback \in Policies, overrides \in Lists, generation \in Nat :
         policies = PolicySetOf(fallback, overrides, generation)
  BY DEF Shaped
<1>2. /\ policies.index = IndexOf(overrides)
      /\ View(policies).generation = generation /\ View(policies).fallback = fallback
      /\ View(policies).map = [s \in DOMAIN policies.index |-> Resolve(policies, s)]
  BY <1>1, Lookup DEF View
<1>3. View(RecoveredPolicies)' = View(RecoveredPolicies)
  BY DEF View, Resolve, HasOverride
<1>4. View(policies)' = View(policies')
  BY DEF View, Resolve, HasOverride
<1>5. DOMAIN policies.index \subseteq Resources
  BY <1>2, IndexFinds
<1>6. ASSUME NEW policy \in Policies, policies' = SetFallback(policies, policy)
      PROVE  Book!Change
  <2>1. policies' = PolicySetOf(policy, overrides, generation + 1)
    BY <1>1, <1>6, FallbackSet
  <2>2. View(policies') = [fallback |-> policy, generation |-> generation + 1,
                           map |-> MapOf(overrides)]
    BY <2>1, ViewOfSet
  <2>3. View(policies).map = MapOf(overrides)
    BY <1>1, ViewOfSet
  <2> QED
    BY <1>2, <1>3, <1>4, <2>2, <2>3 DEF Book!Change
<1>7. ASSUME NEW r \in Resources, NEW policy \in Policies,
             policies' = SetOverride(policies, r, policy)
      PROVE  Book!Change
  <2>1. PICK list \in Lists :
           /\ policies' = PolicySetOf(fallback, list, generation + 1)
           /\ DOMAIN policies'.index = DOMAIN policies.index \cup {r}
           /\ \A s \in Resources :
                 Resolve(policies', s) = IF s = r THEN policy ELSE Resolve(policies, s)
    BY <1>1, <1>7, OverrideSet, SMTT(30)
  <2>2. /\ View(policies').generation = generation + 1 /\ View(policies').fallback = fallback
        /\ View(policies').map = [s \in DOMAIN policies'.index |-> Resolve(policies', s)]
    BY <2>1, Lookup DEF View
  <2>3. View(policies').map =
           [s \in DOMAIN View(policies).map \cup {r} |->
               IF s = r THEN policy ELSE View(policies).map[s]]
    BY <1>2, <1>5, <2>1, <2>2
  <2> QED
    BY <1>2, <1>3, <1>4, <2>2, <2>3 DEF Book!Change
<1>8. ASSUME NEW r \in Resources, HasOverride(policies, r),
             policies' = RemoveOverride(policies, r)
      PROVE  Book!Change
  <2>1. PICK list \in Lists :
           /\ policies' = PolicySetOf(fallback, list, generation + 1)
           /\ DOMAIN policies'.index = DOMAIN policies.index \ {r}
           /\ \A s \in Resources : s # r => Resolve(policies', s) = Resolve(policies, s)
    BY <1>1, <1>8, OverrideRemoved
  <2>2. /\ View(policies').generation = generation + 1 /\ View(policies').fallback = fallback
        /\ View(policies').map = [s \in DOMAIN policies'.index |-> Resolve(policies', s)]
    BY <2>1, Lookup DEF View
  <2>3. View(policies').map = [s \in DOMAIN View(policies).map \ {r} |-> View(policies).map[s]]
    BY <1>2, <1>5, <2>1, <2>2
  <2>4. r \in DOMAIN View(policies).map
    BY <1>2, <1>8 DEF HasOverride
  <2> QED
    BY <1>2, <1>3, <1>4, <2>2, <2>3, <2>4 DEF Book!Change
<1> QED
  BY <1>6, <1>7, <1>8

(* A step of the ledger is a step of the book or none.                     *)
LEMMA NextIsBookStep ==
    ASSUME PoliciesKept, Next
    PROVE  [Book!Next]_<< View(policies), View(RecoveredPolicies) >>
<1> DEFINE current == View(policies)
           saved == View(RecoveredPolicies)
           Step == [Book!Next]_<< current, saved >>
<1>1. Shaped(policies) /\ Shaped(Saved) /\ JournalKept /\ IntentsKept
  BY DEF PoliciesKept
<1>2. Shaped(policies)' /\ PoliciesKept'
  BY NextKeepsPolicies DEF PoliciesKept
<1>3. UNCHANGED policies => UNCHANGED current
  BY DEF View, Resolve, HasOverride
<1>4. RecoveredPolicies' = RecoveredPolicies => UNCHANGED saved
  BY DEF View, Resolve, HasOverride
<1>5. RecoveredPolicies' = policies' => saved' = current'
  BY DEF View, Resolve, HasOverride
<1>6. UNCHANGED store => RecoveredPolicies' = RecoveredPolicies
  BY DEF store, RecoveredPolicies, Saved, Installs
<1>7. ASSUME UNCHANGED << policies, store >>
      PROVE  Step
  BY <1>3, <1>4, <1>6, <1>7
<1>8. ASSUME UNCHANGED policies, NEW record \in Records, record.type # "policy",
             NEW fences, WriteFencing(record, fences)
      PROVE  Step
  <2>1. RecoveredPolicies' = policies' \/ RecoveredPolicies' = RecoveredPolicies
    BY <1>1, <1>2, <1>8, WriteSaves
  <2> QED
    BY <1>3, <1>4, <1>5, <1>8, <2>1 DEF Book!Next, Book!SaveAll
<1>9. ASSUME \/ \E r \in Resources : Observe(r)
             \/ Lapse \/ FinishSweep
      PROVE  Step
  BY <1>7, <1>9 DEF Observe, Lapse, FinishSweep, governor
<1>10. ASSUME \/ \E r \in Resources, p \in Policies : SetResourcePolicy(r, p)
              \/ \E r \in Resources : RemoveResourcePolicy(r)
              \/ \E p \in Policies : InstallPolicy(p)
       PROVE  Step
  <2>1. RecoveredPolicies' = RecoveredPolicies
    BY <1>6, <1>10 DEF SetResourcePolicy, RemoveResourcePolicy, InstallPolicy, store
  <2>2. Book!Change
    BY <1>1, <1>10, <2>1, MutationsAreChanges
       DEF SetResourcePolicy, RemoveResourcePolicy, AcceptsRemoval, InstallPolicy
  <2> QED
    BY <2>2 DEF Book!Next
<1>11. ASSUME Request
       PROVE  Step
  <2>1. policies' = policies /\ WriteFencing(IntentRecord(issued + 1, "live"), {})
    BY <1>11 DEF Request, Write
  <2>2. issued + 1 \in Nat /\ "live" \in States
    BY <1>1 DEF IntentsKept, States
  <2> QED
    BY <1>8, <2>1, <2>2, WrittenAreRecords
<1>12. ASSUME NEW i \in Ids, Renew(i)
       PROVE  Step
  <2>1. policies' = policies /\ WriteFencing(IntentRecord(i, "live"), {})
    BY <1>12 DEF Renew, governor, Write
  <2>2. i \in Nat /\ "live" \in States
    BY <1>1, <1>12 DEF IntentsKept, Renew, Live, States
  <2> QED
    BY <1>8, <2>1, <2>2, WrittenAreRecords
<1>13. ASSUME RetireNext
       PROVE  Step
  <2>1. PICK i \in due : policies' = policies /\ WriteFencing(IntentRecord(i, "retired"), {})
    BY <1>13 DEF RetireNext, Write
  <2>2. i \in Nat /\ "retired" \in States
    BY <1>1 DEF IntentsKept, States
  <2> QED
    BY <1>8, <2>1, <2>2, WrittenAreRecords
<1>14. ASSUME FinishInstall
       PROVE  Step
  <2>1. policies' = policies /\ WriteFencing(PolicyRecord(policies), {})
    BY <1>14 DEF FinishInstall, Write
  <2>2. PolicyRecord(policies) \in Records /\ PolicyRecord(policies).type = "policy"
    BY WrittenAreRecords
  <2>3. \/ RecoveredPolicies' = policies'
        \/ RecoveredPolicies' =
              PolicySetOf(policies.fallback, Saved.overrides, policies.generation)
    BY <1>1, <1>2, <2>1, <2>2, WriteSaves DEF PolicyRecord
  <2>4. CASE RecoveredPolicies' = policies'
    BY <1>3, <1>5, <2>1, <2>4 DEF Book!Next, Book!SaveAll
  <2>5. CASE RecoveredPolicies' =
                PolicySetOf(policies.fallback, Saved.overrides, policies.generation)
    <3>1. saved' = View(RecoveredPolicies')
      BY DEF View, Resolve, HasOverride
    <3>2. saved' = [fallback |-> policies.fallback, generation |-> policies.generation,
                    map |-> MapOf(Saved.overrides)]
      BY <2>5, <3>1, ViewOfSet
    <3>3. saved.map = MapOf(Saved.overrides)
      <4>1. PICK fallback \in Policies, overrides \in Lists, generation \in Nat :
               Saved = PolicySetOf(fallback, overrides, generation)
        BY <1>1 DEF Shaped
      <4>2. Saved.overrides = overrides
        BY <4>1 DEF PolicySetOf
      <4>3. \E fall, gen : RecoveredPolicies = PolicySetOf(fall, overrides, gen)
        BY <4>1, <4>2 DEF RecoveredPolicies
      <4> QED
        BY <4>2, <4>3, ViewOfSet
    <3>4. current.fallback = policies.fallback /\ current.generation = policies.generation
      BY DEF View
    <3> QED
      BY <1>3, <2>1, <3>2, <3>3, <3>4 DEF Book!Next, Book!SaveFallback
  <2> QED
    BY <2>3, <2>4, <2>5
<1>15. ASSUME Checkpoint
       PROVE  Step
  <2>1. Saved' = policies' /\ journal' = << >> /\ policies' = policies
    BY <1>15 DEF Checkpoint, Saved, Image, governor
  <2>2. RecoveredPolicies' = policies'
    BY <2>1 DEF RecoveredPolicies, Installs
  <2> QED
    BY <1>3, <1>5, <2>1, <2>2 DEF Book!Next, Book!SaveAll
<1>16. ASSUME Restart
       PROVE  Step
  <2>1. policies' = RecoveredPolicies /\ WriteFencing(OtherRecord, Live(Accumulated))
    BY <1>16 DEF Restart
  <2>2. RecoveredPolicies' = policies' \/ RecoveredPolicies' = RecoveredPolicies
    BY <1>1, <1>2, <2>1, WriteSaves, WrittenAreRecords
  <2>3. current' = saved /\ saved' = saved
    BY <1>4, <2>1, <2>2 DEF View, Resolve, HasOverride
  <2> QED
    BY <2>3 DEF Book!Next, Book!Restart
<1> QED
  BY <1>9, <1>10, <1>11, <1>12, <1>13, <1>14, <1>15, <1>16 DEF Next

(* The governor's policies are a map with a counted generation, and a      *)
(* restart brings back what checkpoints and installs saved of it: the      *)
(* positions, the index, the records and a full journal do not show.       *)
THEOREM PoliciesRefineBook == Spec => PoliciesAreBook
<1>1. Init => Book!Init
  <2> SUFFICES ASSUME Init PROVE Book!Init
    OBVIOUS
  <2>1. policies = Constructed /\ RecoveredPolicies = Constructed
    BY DEF Init, RecoveredPolicies, Installs, Saved, NoSnapshot
  <2> QED
    BY <2>1, ViewOfConstructed DEF Book!Init
<1>2. PoliciesKept /\ [Next]_vars => [Book!Next]_<< View(policies), View(RecoveredPolicies) >>
  <2> SUFFICES ASSUME PoliciesKept, [Next]_vars
               PROVE  [Book!Next]_<< View(policies), View(RecoveredPolicies) >>
    OBVIOUS
  <2>1. CASE UNCHANGED vars
    BY <2>1 DEF vars, governor, store, View, Resolve, HasOverride,
        RecoveredPolicies, Saved, Installs
  <2> QED
    BY <2>1, NextIsBookStep
<1>3. DetectionInv => PoliciesKept
  BY DEF DetectionInv
<1> QED
  BY <1>1, <1>2, <1>3, DetectionInductive, PTL DEF Spec, PoliciesAreBook, Book!Spec

-----------------------------------------------------------------------------
(* The intents.  What follows is of the first n of them.                   *)

IntentsTo(n) == [id : 1 .. n, state : States]
RecordsTo(n) == {r \in Records : r.type = "intent" => r.intent \in IntentsTo(n)}

(* What recovery can know of them.                                         *)
KnownTo(n) ==
    {known \in UNION {[ids -> States] : ids \in SUBSET (1 .. n)} :
        Cardinality(DOMAIN known) <= MaxInterventions}

AccumulatedOf(d) == FoldLeft(Applied, << >>, d)

(* The intents of a set, in some order: each of them, once.                *)
LEMMA ListedIs ==
    ASSUME NEW intents, IsFiniteSet(DOMAIN intents)
    PROVE  LET list == Listed(intents)
           IN  /\ Len(list) = Cardinality(DOMAIN intents) /\ Len(list) \in Nat
               /\ DOMAIN list = 1 .. Len(list)
               /\ list \in Seq({[id |-> i, state |-> intents[i]] : i \in DOMAIN intents})
               /\ \A i \in DOMAIN intents :
                     \E k \in 1 .. Len(list) : list[k] = [id |-> i, state |-> intents[i]]
<1> DEFINE S == DOMAIN intents
           n == Cardinality(S)
           ids == SetToSeq(S)
           list == [k \in 1 .. n |-> [id |-> ids[k], state |-> intents[ids[k]]]]
<1>1. n \in Nat
  BY FS_CardinalityType
<1>2. \E g \in [1 .. n -> S] : IsInjective(g)
  <2>1. ExistsBijection(1 .. n, S)
    BY <1>1, FS_NatBijection, FS_CountingElements
  <2> QED
    BY <2>1 DEF ExistsBijection, Bijection, Injection
<1>3. ids \in [1 .. n -> S] /\ IsInjective(ids)
  BY <1>2 DEF SetToSeq
<1>4. ids \in Surjection(1 .. n, S)
  <2>1. ids \in Injection(1 .. n, S)
    BY <1>3 DEF Injection
  <2>2. Cardinality(1 .. n) = n
    BY <1>1, FS_Interval
  <2> HIDE DEF n, ids
  <2> QED
    BY <2>1, <2>2, FS_Injection DEF n
<1>5. \A i \in S : \E k \in 1 .. n : ids[k] = i
  BY <1>4 DEF Surjection
<1> HIDE DEF ids, n
<1>6. Listed(intents) = list
  BY <1>3 DEF Listed, ids
<1>7. list \in Seq({[id |-> i, state |-> intents[i]] : i \in S}) /\ Len(list) = n
  BY <1>1, <1>3
<1>8. ASSUME NEW i \in S
      PROVE  \E k \in 1 .. n : list[k] = [id |-> i, state |-> intents[i]]
  BY <1>5
<1>9. DOMAIN list = 1 .. n
  OBVIOUS
<1> HIDE DEF list
<1> QED
  BY <1>1, <1>6, <1>7, <1>8, <1>9 DEF n

(* A set of the first n numbers.                                           *)
LEMMA NumbersAreFinite ==
    ASSUME NEW n \in Nat, NEW ids \in SUBSET (1 .. n)
    PROVE  IsFiniteSet(ids) /\ Cardinality(ids) \in Nat
<1>1. IsFiniteSet(1 .. n)
  BY FS_Interval
<1>2. IsFiniteSet(ids)
  BY <1>1, FS_Subset
<1> QED
  BY <1>2, FS_CardinalityType

(* Taking an intent's record keeps to the bound.                           *)
LEMMA AppliedIsKnown ==
    ASSUME NEW n \in Nat, NEW known \in KnownTo(n), NEW record \in RecordsTo(n)
    PROVE  Applied(known, record) \in KnownTo(n)
<1>1. CASE record.type # "intent"
  BY <1>1 DEF Applied
<1>2. CASE record.type = "intent"
  <2> DEFINE id == record.intent.id
             state == record.intent.state
  <2>1. id \in 1 .. n /\ state \in States
    BY <1>2 DEF RecordsTo, IntentsTo
  <2>2. PICK ids \in SUBSET (1 .. n) : known \in [ids -> States]
    BY DEF KnownTo
  <2>3. IsFiniteSet(ids) /\ Cardinality(ids) <= MaxInterventions /\ Cardinality(ids) \in Nat
    <3>1. Cardinality(ids) <= MaxInterventions
      BY <2>2 DEF KnownTo
    <3> QED
      BY <3>1, NumbersAreFinite
  <2>4. Applied(known, record) = Taken(known, record.intent)
    BY <1>2 DEF Applied
  <2>5. CASE ~(id \in ids \/ Cardinality(ids) < MaxInterventions)
    BY <2>2, <2>4, <2>5 DEF Taken
  <2>6. CASE id \in ids \/ Cardinality(ids) < MaxInterventions
    <3>1. Applied(known, record) = With(known, id, state)
      BY <2>2, <2>4, <2>6 DEF Taken
    <3>2. With(known, id, state) \in [ids \cup {id} -> States]
      BY <2>1, <2>2 DEF With
    <3>3. Cardinality(ids \cup {id}) <= MaxInterventions
      <4>1. CASE id \in ids
        <5>1. ids \cup {id} = ids
          BY <4>1
        <5> QED
          BY <2>3, <5>1
      <4>2. CASE id \notin ids
        <5>1. Cardinality(ids \cup {id}) = Cardinality(ids) + 1
          BY <2>3, <4>2, FS_AddElement
        <5> QED
          BY <2>3, <2>6, <4>2, <5>1, LedgerAssumption
      <4> QED
        BY <4>1, <4>2
    <3>4. ids \cup {id} \in SUBSET (1 .. n)
      BY <2>1
    <3> QED
      BY <3>1, <3>2, <3>3, <3>4 DEF KnownTo
  <2> QED
    BY <2>5, <2>6
<1> QED
  BY <1>1, <1>2

(* Recovery begins with nothing.                                           *)
LEMMA NothingIsKnown ==
    ASSUME NEW n \in Nat
    PROVE  << >> \in KnownTo(n)
<1>1. << >> \in [{} -> States] /\ DOMAIN << >> = {}
  OBVIOUS
<1>2. Cardinality({}) = 0
  BY FS_EmptySet
<1>3. {} \in SUBSET (1 .. n)
  OBVIOUS
<1>4. << >> \in UNION {[ids -> States] : ids \in SUBSET (1 .. n)}
  BY <1>1, <1>3
<1>5. Cardinality(DOMAIN << >>) <= MaxInterventions
  BY <1>1, <1>2, LedgerAssumption
<1> QED
  BY <1>4, <1>5, Zenon DEF KnownTo

(* Recovery applies the records one after the other.                       *)
LEMMA AccumulationRuns ==
    ASSUME NEW n \in Nat, NEW d \in Seq(RecordsTo(n))
    PROVE  \E run \in [0 .. Len(d) -> KnownTo(n)] :
              /\ run[0] = << >>
              /\ \A k \in 1 .. Len(d) : run[k] = Applied(run[k - 1], d[k])
              /\ AccumulatedOf(d) = run[Len(d)]
<1> DEFINE m == Len(d)
           step == [k \in 1 .. m |-> [known \in KnownTo(n) |-> Applied(known, d[k])]]
           Iterates(iter) == iter = [s \in SUBSET (1 .. m) |->
               IF s = {} THEN << >> ELSE Applied(iter[s \ {Max(s)}], d[Max(s)])]
<1>1. m \in Nat /\ DOMAIN d = 1 .. m /\ \A k \in 1 .. m : d[k] \in RecordsTo(n)
  OBVIOUS
<1>2. AccumulatedOf(d) = (CHOOSE iter : Iterates(iter))[1 .. m]
  BY <1>1, Zenon DEF AccumulatedOf, FoldLeft, MapThenFoldSet
<1> HIDE DEF m
<1>3. \E iter : Iterates(iter)
  <2>1. step \in [1 .. m -> [KnownTo(n) -> KnownTo(n)]]
    BY <1>1, AppliedIsKnown
  <2>2. PICK g \in [SUBSET (1 .. m) -> KnownTo(n)] : IsFold(g, << >>, step, m)
    <3>1. << >> \in KnownTo(n)
      BY NothingIsKnown
    <3> HIDE DEF step
    <3> QED
      BY <1>1, <2>1, <3>1, FoldExists
  <2>3. ASSUME NEW s \in SUBSET (1 .. m), s # {}
        PROVE  g[s] = Applied(g[s \ {Max(s)}], d[Max(s)])
    <3>1. Max(s) \in 1 .. m
      <4>1. s \in SUBSET Int /\ \A x \in s : x <= m
        BY <1>1
      <4>2. m \in Int /\ s # {}
        BY <1>1, <2>3
      <4>3. Max(s) \in s
        BY <4>1, <4>2, LargestOf
      <4> QED
        BY <4>3
    <3>2. s \ {Max(s)} \in SUBSET (1 .. m)
      OBVIOUS
    <3> QED
      BY <2>2, <2>3, <3>1, <3>2 DEF IsFold
  <2>4. \A s \in SUBSET (1 .. m) :
            g[s] = IF s = {} THEN << >> ELSE Applied(g[s \ {Max(s)}], d[Max(s)])
    BY <2>2, <2>3 DEF IsFold
  <2>5. g = [s \in SUBSET (1 .. m) |->
               IF s = {} THEN << >> ELSE Applied(g[s \ {Max(s)}], d[Max(s)])]
    BY <2>4
  <2> QED
    BY <2>5
<1>4. PICK iter : Iterates(iter) /\ AccumulatedOf(d) = iter[1 .. m]
  <2> HIDE DEF Iterates
  <2> QED
    BY <1>2, <1>3
<1>5. iter[{}] = << >>
  BY <1>4
<1>6. ASSUME NEW k \in 1 .. m
      PROVE  iter[1 .. k] = Applied(iter[1 .. (k - 1)], d[k])
  <2>1. k \in 1 .. k /\ k \in Nat /\ \A i \in 1 .. k : i \in 1 .. m
    BY <1>1
  <2>2. Max(1 .. k) = k
    BY <2>1, LastOf
  <2>3. (1 .. k) \ {k} = 1 .. (k - 1)
    BY <2>1
  <2> QED
    BY <1>4, <2>1, <2>2, <2>3, 1 .. k \in SUBSET (1 .. m)
<1> DEFINE run == [k \in 0 .. m |-> iter[1 .. k]]
           T == {k \in Nat : k <= m => iter[1 .. k] \in KnownTo(n)}
<1>7. T = Nat
  <2>1. 0 \in T
    <3>1. 1 .. 0 = {} /\ << >> \in KnownTo(n)
      BY NothingIsKnown
    <3> QED
      BY <1>5, <3>1
  <2>2. ASSUME NEW k \in T PROVE k + 1 \in T
    <3> SUFFICES ASSUME k + 1 <= m PROVE iter[1 .. k + 1] \in KnownTo(n)
      OBVIOUS
    <3> DEFINE l == k + 1
    <3>1. l \in 1 .. m /\ l - 1 = k /\ iter[1 .. k] \in KnownTo(n)
      BY <1>1
    <3> HIDE DEF l
    <3>2. iter[1 .. l] = Applied(iter[1 .. (l - 1)], d[l])
      BY <1>6, <3>1
    <3>3. iter[1 .. l] \in KnownTo(n)
      BY <1>1, <3>1, <3>2, AppliedIsKnown
    <3> QED
      BY <3>3 DEF l
  <2>3. T \in SUBSET Nat
    OBVIOUS
  <2> HIDE DEF T
  <2> QED
    BY <2>1, <2>2, <2>3, AllNaturals
<1>8. run \in [0 .. m -> KnownTo(n)]
  <2>1. \A k \in 0 .. m : iter[1 .. k] \in KnownTo(n)
    BY <1>1, <1>7
  <2> QED
    BY <2>1
<1>9. run[0] = << >> /\ run[m] = iter[1 .. m]
  <2>1. 0 \in 0 .. m /\ m \in 0 .. m /\ 1 .. 0 = {}
    BY <1>1
  <2> QED
    BY <1>5, <2>1
<1>10. ASSUME NEW k \in 1 .. m PROVE run[k] = Applied(run[k - 1], d[k])
  <2>1. k \in 0 .. m /\ k - 1 \in 0 .. m
    BY <1>1
  <2> QED
    BY <1>6, <2>1
<1> HIDE DEF run
<1> QED
  BY <1>4, <1>8, <1>9, <1>10 DEF m

(* A run is determined by its records: two of them agree while these do.   *)
Follows(run, d, m) ==
    run[0] = << >> /\ \A k \in 1 .. m : run[k] = Applied(run[k - 1], d[k])

LEMMA RunsAgree ==
    ASSUME NEW m \in Nat, NEW d, NEW one, NEW other, Follows(one, d, m), Follows(other, d, m)
    PROVE  one[m] = other[m]
<1> USE DEF Follows
<1> DEFINE T == {k \in Nat : k <= m => one[k] = other[k]}
<1>1. 0 \in T
  OBVIOUS
<1>2. ASSUME NEW k \in T PROVE k + 1 \in T
  <2> SUFFICES ASSUME k + 1 <= m PROVE one[k + 1] = other[k + 1]
    OBVIOUS
  <2> DEFINE l == k + 1
  <2>1. l \in 1 .. m /\ l - 1 = k /\ one[k] = other[k]
    OBVIOUS
  <2> HIDE DEF l
  <2>2. one[l] = other[l]
    BY <2>1
  <2> QED
    BY <2>2 DEF l
<1>3. T \in SUBSET Nat
  OBVIOUS
<1>4. T = Nat
  <2> HIDE DEF T
  <2> QED
    BY <1>1, <1>2, <1>3, AllNaturals
<1> QED
  BY <1>4

(* One more record is one more step.                                       *)
LEMMA AccumulationAppends ==
    ASSUME NEW n \in Nat, NEW d \in Seq(RecordsTo(n)), NEW record \in RecordsTo(n)
    PROVE  /\ AccumulatedOf(d) \in KnownTo(n)
           /\ AccumulatedOf(Append(d, record)) = Applied(AccumulatedOf(d), record)
<1> DEFINE m == Len(d)
           longer == Append(d, record)
           l == m + 1
<1>1. /\ m \in Nat /\ longer \in Seq(RecordsTo(n)) /\ Len(longer) = l /\ l \in 1 .. l
      /\ longer[l] = record /\ l - 1 = m /\ \A k \in 1 .. m : d[k] = longer[k] /\ k \in 1 .. l
  OBVIOUS
<1>2. PICK one \in [0 .. m -> KnownTo(n)] :
          /\ one[0] = << >>
          /\ \A k \in 1 .. m : one[k] = Applied(one[k - 1], d[k])
          /\ AccumulatedOf(d) = one[m]
  BY AccumulationRuns
<1> HIDE DEF longer, l
<1>3. PICK other \in [0 .. Len(longer) -> KnownTo(n)] :
          /\ other[0] = << >>
          /\ \A k \in 1 .. Len(longer) : other[k] = Applied(other[k - 1], longer[k])
          /\ AccumulatedOf(longer) = other[Len(longer)]
  BY <1>1, AccumulationRuns
<1> HIDE DEF m
<1>4. one[m] = other[m]
  <2>1. Follows(one, d, m)
    BY <1>2 DEF Follows
  <2>2. Follows(other, d, m)
    BY <1>1, <1>3 DEF Follows
  <2>3. m \in Nat
    BY <1>1
  <2> QED
    BY <2>1, <2>2, <2>3, RunsAgree, Zenon
<1>5. other[l] = Applied(other[m], record)
  BY <1>1, <1>3
<1>6. one[m] \in KnownTo(n)
  BY <1>1, <1>2
<1> QED
  BY <1>1, <1>2, <1>3, <1>4, <1>5, <1>6 DEF longer

(* The end of a list, all of it if it is short.                            *)
LEMMA NewestIs ==
    ASSUME NEW S, NEW list \in Seq(S)
    PROVE  /\ Newest(list) \in Seq(S) /\ Len(Newest(list)) <= MaxInterventions
           /\ \E off \in Nat :
                 /\ Len(list) = off + Len(Newest(list))
                 /\ off = 0 \/ Len(Newest(list)) = MaxInterventions
                 /\ \A k \in 1 .. Len(Newest(list)) : Newest(list)[k] = list[k + off]
<1>1. Len(list) \in Nat /\ MaxInterventions \in Nat
  BY LedgerAssumption
<1>2. CASE Len(list) <= MaxInterventions
  <2>1. Newest(list) = list
    BY <1>2 DEF Newest
  <2>2. \A k \in 1 .. Len(list) : k + 0 = k
    OBVIOUS
  <2>3. /\ Len(list) = 0 + Len(list)
        /\ \A k \in 1 .. Len(list) : list[k] = list[k + 0]
    BY <1>1, <2>2
  <2>4. \E off \in Nat :
           /\ Len(list) = off + Len(list)
           /\ off = 0 \/ Len(list) = MaxInterventions
           /\ \A k \in 1 .. Len(list) : list[k] = list[k + off]
    <3> WITNESS 0 \in Nat
    <3> QED
      BY <2>3
  <2> QED
    BY <1>2, <2>1, <2>4
<1>3. CASE ~(Len(list) <= MaxInterventions)
  <2> DEFINE off == Len(list) - MaxInterventions
             part == SubSeq(list, off + 1, Len(list))
  <2>1. off \in Nat /\ off + 1 \in 1 .. Len(list) /\ Len(list) = off + MaxInterventions
    BY <1>1, <1>3, LedgerAssumption
  <2>2. Newest(list) = part
    BY <1>3 DEF Newest
  <2> HIDE DEF off
  <2>3. part \in Seq(S) /\ Len(part) = Len(list) - off
        /\ \A k \in 1 .. Len(part) : part[k] = list[k + off]
    BY <1>1, <2>1
  <2>4. Len(part) = MaxInterventions
    BY <1>1, <2>1, <2>3
  <2> HIDE DEF part
  <2> QED
    BY <1>1, <2>1, <2>2, <2>3, <2>4
<1> QED
  BY <1>2, <1>3

(* Of a list within the bound every intent is taken, in the last of the    *)
(* states that the list has of it.                                         *)
LEMMA ShortListIs ==
    ASSUME NEW n \in Nat, NEW d \in Seq(RecordsTo(n)), Len(d) <= MaxInterventions,
           \A k \in 1 .. Len(d) : d[k].type = "intent"
    PROVE  /\ \A j \in 1 .. Len(d) : d[j].intent.id \in DOMAIN AccumulatedOf(d)
           /\ \A i \in DOMAIN AccumulatedOf(d) :
                 \E j \in 1 .. Len(d) :
                    /\ d[j].intent.id = i /\ AccumulatedOf(d)[i] = d[j].intent.state
                    /\ \A l \in 1 .. Len(d) : l > j => d[l].intent.id # i
<1> DEFINE m == Len(d)
<1>1. PICK run \in [0 .. m -> KnownTo(n)] :
          /\ run[0] = << >>
          /\ \A k \in 1 .. m : run[k] = Applied(run[k - 1], d[k])
          /\ AccumulatedOf(d) = run[m]
  BY AccumulationRuns
<1> DEFINE LastOfEach(k) ==
               \A i \in DOMAIN run[k] :
                  \E j \in 1 .. k :
                     /\ d[j].intent.id = i /\ run[k][i] = d[j].intent.state
                     /\ \A l \in 1 .. k : l > j => d[l].intent.id # i
           All(k) == \A j \in 1 .. k : d[j].intent.id \in DOMAIN run[k]
           Few(k) == IsFiniteSet(DOMAIN run[k]) /\ Cardinality(DOMAIN run[k]) <= k
           T == {k \in Nat : k <= m => LastOfEach(k) /\ All(k) /\ Few(k)}
<1>2. m \in Nat /\ m <= MaxInterventions /\ \A k \in 1 .. m : d[k] \in RecordsTo(n)
  OBVIOUS
<1> HIDE DEF m
<1>3. 0 \in T
  <2>1. DOMAIN run[0] = {} /\ 1 .. 0 = {}
    BY <1>1
  <2>2. Few(0)
    BY <2>1, FS_EmptySet
  <2> QED
    BY <2>1, <2>2
<1>4. ASSUME NEW k \in T PROVE k + 1 \in T
  <2> SUFFICES ASSUME k + 1 <= m PROVE LastOfEach(k + 1) /\ All(k + 1) /\ Few(k + 1)
    OBVIOUS
  <2> DEFINE p == k + 1
             id == d[p].intent.id
             state == d[p].intent.state
  <2>1. /\ k \in Nat /\ k <= m /\ p \in 1 .. m /\ p - 1 = k /\ k < MaxInterventions
        /\ \A j \in 1 .. p : j \in 1 .. k \/ j = p
        /\ \A j \in 1 .. k : j \in 1 .. p /\ p > j
        /\ p \in 1 .. p /\ \A l \in 1 .. p : ~(l > p)
    BY <1>2, LedgerAssumption
  <2>2. LastOfEach(k) /\ All(k) /\ Few(k)
    BY <2>1, Zenon
  <2> HIDE DEF p
  <2>3. run[p] = With(run[k], id, state)
    <3>1. run[p] = Applied(run[k], d[p])
      BY <1>1, <2>1
    <3>2. Cardinality(DOMAIN run[k]) \in Nat
      BY <2>2, FS_CardinalityType
    <3>3. Cardinality(DOMAIN run[k]) < MaxInterventions
      BY <2>1, <2>2, <3>2, LedgerAssumption
    <3>4. d[p].type = "intent"
      BY <2>1 DEF m
    <3> QED
      BY <3>1, <3>3, <3>4 DEF Applied, Taken
  <2>4. /\ DOMAIN run[p] = DOMAIN run[k] \cup {id}
        /\ \A i \in DOMAIN run[p] : run[p][i] = IF i = id THEN state ELSE run[k][i]
    BY <2>3 DEF With
  <2>5. Few(p)
    <3>1. Cardinality(DOMAIN run[k]) \in Nat
      BY <2>2, FS_CardinalityType
    <3>2. IsFiniteSet(DOMAIN run[k] \cup {id})
      BY <2>2, FS_AddElement
    <3>3. Cardinality(DOMAIN run[k] \cup {id}) <= Cardinality(DOMAIN run[k]) + 1
      <4> DEFINE ids == DOMAIN run[k]
      <4>1. IsFiniteSet(ids)
        BY <2>2
      <4> HIDE DEF ids, id
      <4>2. Cardinality(ids \cup {id}) = IF id \in ids THEN Cardinality(ids)
                                                     ELSE Cardinality(ids) + 1
        BY <4>1, FS_AddElement
      <4> QED
        BY <3>1, <4>2 DEF ids
    <3>4. k + 1 = p /\ Cardinality(DOMAIN run[k] \cup {id}) \in Nat
      BY <2>1, <3>2, FS_CardinalityType DEF p
    <3> QED
      BY <2>1, <2>2, <2>4, <3>1, <3>2, <3>3, <3>4
  <2>6. All(p)
    BY <2>1, <2>2, <2>4
  <2>7. ASSUME NEW i \in DOMAIN run[p]
        PROVE  \E j \in 1 .. p :
                  /\ d[j].intent.id = i /\ run[p][i] = d[j].intent.state
                  /\ \A l \in 1 .. p : l > j => d[l].intent.id # i
    <3>1. CASE i = id
      BY <2>1, <2>4, <3>1
    <3>2. CASE i # id
      <4>1. i \in DOMAIN run[k] /\ run[p][i] = run[k][i]
        BY <2>4, <3>2
      <4>2. PICK j \in 1 .. k :
                /\ d[j].intent.id = i /\ run[k][i] = d[j].intent.state
                /\ \A l \in 1 .. k : l > j => d[l].intent.id # i
        BY <2>2, <4>1
      <4>3. \A l \in 1 .. p : l > j => d[l].intent.id # i
        BY <2>1, <3>2, <4>2
      <4>4. j \in 1 .. p
        BY <2>1
      <4> QED
        BY <4>1, <4>2, <4>3, <4>4
    <3> QED
      BY <3>1, <3>2
  <2> QED
    BY <2>5, <2>6, <2>7 DEF p
<1>5. LastOfEach(m) /\ All(m)
  <2>1. T \in SUBSET Nat
    OBVIOUS
  <2>2. T = Nat
    <3> HIDE DEF T
    <3> QED
      BY <1>3, <1>4, <2>1, AllNaturals
  <2>3. m \in T /\ m <= m
    <3> HIDE DEF T
    <3> QED
      BY <1>2, <2>2
  <2> QED
    BY <2>3, Zenon
<1> QED
  BY <1>1, <1>5 DEF m

(* The records a list of intents counts for.                               *)
AsRecords(list) == [k \in DOMAIN list |-> [type |-> "intent", intent |-> list[k]]]

(* A checkpoint keeps every intent that is held: only those retired before *)
(* make room.  What recovery then knows as live is what is live.           *)
LEMMA ImageAccumulates ==
    ASSUME NEW n \in Nat, NEW set, NEW intents, NEW history \in Seq(IntentsTo(n)),
           DOMAIN intents \in SUBSET (1 .. n), Cardinality(DOMAIN intents) <= MaxInterventions,
           \A i \in DOMAIN intents : intents[i] \in States,
           \A k \in DOMAIN history : history[k].state # "live"
    PROVE  LET list == Image(set, intents, history).intents
           IN  /\ list \in Seq(IntentsTo(n)) /\ Len(list) <= MaxInterventions
               /\ Live(AccumulatedOf(AsRecords(list))) = Live(intents)
<1> DEFINE held == Listed(intents)
           whole == history \o held
           list == Newest(whole)
           d == AsRecords(list)
           h == Len(history)
           c == Len(held)
           m == Len(list)
           known == AccumulatedOf(d)
           S == {[id |-> i, state |-> intents[i]] : i \in DOMAIN intents}
<1>1. IsFiniteSet(DOMAIN intents)
  BY NumbersAreFinite
<1>2. /\ c = Cardinality(DOMAIN intents) /\ c \in Nat /\ DOMAIN held = 1 .. c /\ held \in Seq(S)
      /\ \A i \in DOMAIN intents :
            \E k \in 1 .. c : held[k] = [id |-> i, state |-> intents[i]]
  <2> HIDE DEF S
  <2> QED
    BY <1>1, ListedIs DEF S
<1>3. \A k \in 1 .. c : held[k].id \in DOMAIN intents /\ held[k].state = intents[held[k].id]
  BY <1>2
<1>4. S \subseteq IntentsTo(n)
  BY DEF IntentsTo
<1> HIDE DEF S, held
<1>5. /\ held \in Seq(IntentsTo(n)) /\ whole \in Seq(IntentsTo(n)) /\ h \in Nat
      /\ Len(whole) = h + c /\ \A k \in 1 .. h : whole[k] = history[k]
      /\ \A k \in 1 .. c : whole[h + k] = held[k]
  <2>1. held \in Seq(IntentsTo(n))
    BY <1>2, <1>4
  <2> QED
    BY <1>2, <2>1
<1> HIDE DEF whole
<1>kept. /\ list \in Seq(IntentsTo(n)) /\ Len(list) <= MaxInterventions
      /\ \E off \in Nat :
            /\ Len(whole) = off + Len(list)
            /\ off = 0 \/ Len(list) = MaxInterventions
            /\ \A k \in 1 .. Len(list) : list[k] = whole[k + off]
  <2> HIDE DEF m
  <2>1. whole \in Seq(IntentsTo(n))
    BY <1>5
  <2> QED
    BY <2>1, NewestIs, Zenon
<1> HIDE DEF list
<1>6. list \in Seq(IntentsTo(n)) /\ m <= MaxInterventions /\ m \in Nat
  BY <1>kept
<1>7. PICK off \in Nat :
         /\ h + c = off + m /\ (off = 0 \/ m = MaxInterventions)
         /\ \A k \in 1 .. m : list[k] = whole[k + off]
  BY <1>kept, <1>5
<1>8. off <= h
  BY <1>2, <1>5, <1>6, <1>7, LedgerAssumption
<1>9. /\ d \in Seq(RecordsTo(n)) /\ Len(d) = m /\ \A k \in 1 .. m : d[k].type = "intent"
      /\ \A k \in 1 .. m : d[k].intent = list[k]
  <2>1. \A k \in 1 .. m : list[k] \in IntentsTo(n)
    BY <1>6
  <2>2. \A k \in 1 .. m : [type |-> "intent", intent |-> list[k]] \in RecordsTo(n)
    BY <2>1 DEF RecordsTo, Records, IntentsTo
  <2>3. DOMAIN list = 1 .. m
    BY <1>6
  <2>4. d = [k \in 1 .. m |-> [type |-> "intent", intent |-> list[k]]]
    BY <2>3 DEF AsRecords
  <2> QED
    BY <1>6, <2>2, <2>4
<1> HIDE DEF d, m
<1>10. /\ \A j \in 1 .. m : list[j].id \in DOMAIN known
       /\ \A i \in DOMAIN known :
             \E j \in 1 .. m :
                /\ list[j].id = i /\ known[i] = list[j].state
                /\ \A l \in 1 .. m : l > j => list[l].id # i
  <2> HIDE DEF known
  <2>1. Len(d) <= MaxInterventions /\ \A k \in 1 .. Len(d) : d[k].type = "intent"
    BY <1>6, <1>9
  <2>2. /\ \A j \in 1 .. Len(d) : d[j].intent.id \in DOMAIN known
        /\ \A i \in DOMAIN known :
              \E j \in 1 .. Len(d) :
                 /\ d[j].intent.id = i /\ known[i] = d[j].intent.state
                 /\ \A l \in 1 .. Len(d) : l > j => d[l].intent.id # i
    BY <1>9, <2>1, ShortListIs, Zenon DEF known
  <2>3. Len(d) = m /\ \A j \in 1 .. m : d[j].intent.id = list[j].id
                                  /\ d[j].intent.state = list[j].state
    BY <1>9
  <2>4. ASSUME NEW j \in 1 .. m PROVE list[j].id \in DOMAIN known
    BY <2>2, <2>3
  <2>5. ASSUME NEW i \in DOMAIN known
        PROVE  \E j \in 1 .. m :
                  /\ list[j].id = i /\ known[i] = list[j].state
                  /\ \A l \in 1 .. m : l > j => list[l].id # i
    <3>1. PICK j \in 1 .. m :
              /\ d[j].intent.id = i /\ known[i] = d[j].intent.state
              /\ \A l \in 1 .. m : l > j => d[l].intent.id # i
      BY <2>2, <2>3, Zenon
    <3>2. list[j].id = i /\ known[i] = list[j].state
      BY <2>3, <3>1
    <3>3. \A l \in 1 .. m : l > j => list[l].id # i
      BY <2>3, <3>1
    <3> QED
      BY <3>2, <3>3
  <2> QED
    BY <2>4, <2>5
<1> HIDE DEF known
<1>11. ASSUME NEW j \in 1 .. m
       PROVE  \/ j + off <= h /\ list[j].state # "live"
              \/ j + off > h /\ list[j].id \in DOMAIN intents
                             /\ list[j].state = intents[list[j].id]
  <2>1. j \in Nat /\ list[j] = whole[j + off]
    BY <1>6, <1>7
  <2>2. CASE j + off <= h
    <3> DEFINE q == j + off
    <3>1. q \in 1 .. h /\ DOMAIN history = 1 .. h
      BY <1>5, <1>7, <2>1, <2>2
    <3>2. list[j] = history[q]
      BY <1>5, <2>1, <3>1
    <3> HIDE DEF q
    <3>3. list[j].state # "live"
      BY <3>1, <3>2
    <3> HIDE DEF h
    <3> QED
      BY <2>2, <3>3
  <2>3. CASE j + off > h
    <3> DEFINE k == (j + off) - h
    <3>1. k \in 1 .. c /\ h + k = j + off
      BY <1>2, <1>5, <1>6, <1>7, <2>1, <2>3
    <3> HIDE DEF k
    <3>2. list[j] = held[k]
      BY <1>5, <2>1, <3>1
    <3> QED
      BY <1>3, <2>3, <3>1, <3>2
  <2> QED
    BY <1>5, <1>7, <2>1, <2>2, <2>3
<1>12. ASSUME NEW i \in DOMAIN intents
       PROVE  \E k \in 1 .. m : k + off > h /\ list[k].id = i
  <2>1. PICK k \in 1 .. c : held[k] = [id |-> i, state |-> intents[i]]
    BY <1>2
  <2> DEFINE p == (h + k) - off
  <2>2. p \in 1 .. m /\ p + off = h + k /\ p + off > h
    BY <1>2, <1>5, <1>6, <1>7, <1>8, <2>1
  <2> HIDE DEF p
  <2>3. list[p] = held[k]
    BY <1>5, <1>7, <2>2
  <2> QED
    BY <2>1, <2>2, <2>3
<1>13. ASSUME NEW i \in Live(known)
       PROVE  i \in Live(intents)
  <2>1. PICK j \in 1 .. m : list[j].id = i /\ known[i] = list[j].state
    BY <1>10, <1>13 DEF Live
  <2> QED
    BY <1>11, <1>13, <2>1 DEF Live
<1>14. ASSUME NEW i \in Live(intents)
       PROVE  i \in Live(known)
  <2>1. PICK k \in 1 .. m : k + off > h /\ list[k].id = i
    BY <1>12, <1>14 DEF Live
  <2>2. i \in DOMAIN known
    BY <1>10, <2>1
  <2>3. PICK j \in 1 .. m :
           /\ list[j].id = i /\ known[i] = list[j].state
           /\ \A l \in 1 .. m : l > j => list[l].id # i
    BY <1>10, <2>2
  <2>4. j >= k
    BY <1>6, <2>1, <2>3
  <2>5. ~(j + off <= h)
    BY <1>5, <1>6, <1>7, <2>1, <2>4
  <2>6. list[j].state = intents[list[j].id]
    BY <1>11, <2>5, Zenon
  <2>7. list[j].state = intents[i]
    BY <2>3, <2>6
  <2> QED
    BY <1>14, <2>2, <2>3, <2>7 DEF Live
<1>15. Live(known) = Live(intents)
  BY <1>13, <1>14
<1>16. Image(set, intents, history).intents = list
  BY DEF Image, whole, held, list
<1> QED
  BY <1>6, <1>15, <1>16 DEF known, d, m
-----------------------------------------------------------------------------
(* The invariant of the intents: those held are numbered and within their  *)
(* bound, the history and what is durable are of issued ones, and what     *)
(* recovery would take for live is live, or was fenced by a restart since  *)
(* the last checkpoint.  A live intent is only unknown to it when its map  *)
(* is full.                                                                *)
Full(known) == Cardinality(DOMAIN known) = MaxInterventions

HeldKept(n) ==
    /\ DOMAIN interventions \in SUBSET (1 .. n)
    /\ Cardinality(DOMAIN interventions) <= MaxInterventions
    /\ \A i \in DOMAIN interventions : interventions[i] \in States
    /\ retired \in Seq(IntentsTo(n))
    /\ \A k \in DOMAIN retired : retired[k].state # "live"

DurableKept(n) == SavedIntents \in Seq(IntentsTo(n)) /\ journal \in Seq(RecordsTo(n))

LivesKnown ==
    /\ Live(Accumulated) \subseteq Live(interventions) \cup fenced
    /\ \A i \in Live(interventions) : i \in Live(Accumulated) \/ Full(Accumulated)

Kept(n) ==
    /\ HeldKept(n) /\ DurableKept(n)
    /\ due \subseteq Live(interventions) /\ fenced \subseteq 1 .. n
    /\ LivesKnown

IntentsInv == issued \in Nat /\ Kept(issued)

(* What a record changes of the live intents recovery knows.               *)
LEMMA AppliedChanges ==
    ASSUME NEW n \in Nat, NEW known \in KnownTo(n), NEW id \in 1 .. n, NEW state \in States
    PROVE  LET next == Applied(known, IntentRecord(id, state))
           IN  /\ Full(known) => Full(next)
               /\ \/ next = known /\ Full(known) /\ id \notin DOMAIN known
                  \/ /\ id \in DOMAIN next
                     /\ Live(next) = IF state = "live" THEN Live(known) \cup {id}
                                     ELSE Live(known) \ {id}
<1> DEFINE record == IntentRecord(id, state)
           next == Applied(known, record)
           ids == DOMAIN known
<1>1. /\ known \in [ids -> States] /\ ids \in SUBSET (1 .. n)
      /\ Cardinality(ids) <= MaxInterventions
  BY DEF KnownTo
<1>2. IsFiniteSet(ids) /\ Cardinality(ids) \in Nat
  BY <1>1, NumbersAreFinite
<1>3. /\ record.type = "intent" /\ record.intent = [id |-> id, state |-> state]
      /\ record.intent.id = id /\ record.intent.state = state
  BY DEF IntentRecord
<1>4. CASE ~(id \in ids \/ Cardinality(ids) < MaxInterventions)
  <2>1. next = known
    BY <1>3, <1>4 DEF Applied, Taken
  <2>2. Full(known)
    BY <1>1, <1>2, <1>4, LedgerAssumption DEF Full
  <2> QED
    BY <1>4, <2>1, <2>2
<1>5. CASE id \in ids \/ Cardinality(ids) < MaxInterventions
  <2>1. next = With(known, id, state)
    BY <1>3, <1>5 DEF Applied, Taken
  <2> HIDE DEF next
  <2>2. /\ DOMAIN next = ids \cup {id}
        /\ \A i \in ids \cup {id} : next[i] = IF i = id THEN state ELSE known[i]
    BY <2>1 DEF With
  <2>3. Live(next) = IF state = "live" THEN Live(known) \cup {id} ELSE Live(known) \ {id}
    BY <2>2 DEF Live
  <2>4. ASSUME Full(known)
        PROVE  Full(next)
    <3>1. id \in ids
      BY <1>2, <1>5, <2>4 DEF Full
    <3>2. DOMAIN next = ids
      BY <2>2, <3>1
    <3> QED
      BY <2>4, <3>2 DEF Full
  <2> QED
    BY <2>2, <2>3, <2>4 DEF next
<1> QED
  BY <1>4, <1>5

(* A list of intents as records.                                           *)
LEMMA RecordsOfList ==
    ASSUME NEW n \in Nat, NEW list \in Seq(IntentsTo(n))
    PROVE  AsRecords(list) \in Seq(RecordsTo(n))
<1>1. \A k \in 1 .. Len(list) : list[k] \in IntentsTo(n)
  OBVIOUS
<1>2. \A k \in 1 .. Len(list) : [type |-> "intent", intent |-> list[k]] \in RecordsTo(n)
  BY <1>1 DEF RecordsTo, Records, IntentsTo
<1>3. AsRecords(list) = [k \in 1 .. Len(list) |-> [type |-> "intent", intent |-> list[k]]]
  BY DEF AsRecords
<1> QED
  BY <1>2, <1>3

(* What is durable, and what recovery would know of it.                    *)
LEMMA DurableIsKnown ==
    ASSUME NEW n \in Nat, DurableKept(n)
    PROVE  /\ Durable = AsRecords(SavedIntents) \o journal
           /\ Durable \in Seq(RecordsTo(n))
           /\ Accumulated = AccumulatedOf(Durable) /\ Accumulated \in KnownTo(n)
<1>1. Durable = AsRecords(SavedIntents) \o journal
  BY DEF Durable, AsRecords
<1>2. AsRecords(SavedIntents) \in Seq(RecordsTo(n)) /\ journal \in Seq(RecordsTo(n))
  BY RecordsOfList DEF DurableKept
<1>3. Durable \in Seq(RecordsTo(n))
  BY <1>1, <1>2, ConcatProperties
<1>4. Accumulated = AccumulatedOf(Durable)
  BY DEF Accumulated, AccumulatedOf
<1>5. OtherRecord \in RecordsTo(n)
  BY WrittenAreRecords DEF RecordsTo
<1> QED
  BY <1>1, <1>3, <1>4, <1>5, AccumulationAppends
(* An image of what is held takes the place of all that was durable.       *)
LEMMA ImageKnows ==
    ASSUME NEW n \in Nat, HeldKept(n)',
           snapshot' = Image(policies', interventions', retired'),
           journal' \in {<< >>, << OtherRecord >>}
    PROVE  DurableKept(n)' /\ Live(Accumulated)' = Live(interventions)'
<1> DEFINE list == Image(policies', interventions', retired').intents
<1>1. /\ list \in Seq(IntentsTo(n)) /\ Len(list) <= MaxInterventions
      /\ Live(AccumulatedOf(AsRecords(list))) = Live(interventions')
  <2>1. /\ retired' \in Seq(IntentsTo(n)) /\ DOMAIN interventions' \in SUBSET (1 .. n)
        /\ Cardinality(DOMAIN interventions') <= MaxInterventions
        /\ \A i \in DOMAIN interventions' : interventions'[i] \in States
        /\ \A k \in DOMAIN retired' : retired'[k].state # "live"
    BY DEF HeldKept
  <2> QED
    BY <2>1, ImageAccumulates
<1>2. SavedIntents' = list
  BY DEF SavedIntents, Image
<1> HIDE DEF list
<1>3. OtherRecord \in RecordsTo(n) /\ OtherRecord.type = "other"
  BY WrittenAreRecords DEF RecordsTo
<1>4. DurableKept(n)'
  <2>1. << OtherRecord >> \in Seq(RecordsTo(n)) /\ << >> \in Seq(RecordsTo(n))
    BY <1>3
  <2>2. journal' \in Seq(RecordsTo(n)) /\ SavedIntents' \in Seq(IntentsTo(n))
    BY <1>1, <1>2, <2>1
  <2> QED
    BY <2>2 DEF DurableKept
<1> DEFINE d == AsRecords(list)
<1>5. /\ Durable' = d \o journal' /\ Accumulated' = AccumulatedOf(Durable')
      /\ d \in Seq(RecordsTo(n))
  BY <1>1, <1>2, RecordsOfList DEF Durable, AsRecords, Accumulated, AccumulatedOf
<1> HIDE DEF d
<1>6. CASE journal' = << >>
  <2>1. Durable' = d
    BY <1>5, <1>6, ConcatEmptySeq
  <2> QED
    BY <1>1, <1>4, <1>5, <2>1 DEF d, Live
<1>7. CASE journal' = << OtherRecord >>
  <2>1. Durable' = Append(d, OtherRecord)
    BY <1>3, <1>5, <1>7, AppendIsConcat
  <2>2. AccumulatedOf(Append(d, OtherRecord)) = Applied(AccumulatedOf(d), OtherRecord)
    BY <1>3, <1>5, AccumulationAppends
  <2>3. Applied(AccumulatedOf(d), OtherRecord) = AccumulatedOf(d)
    BY <1>3 DEF Applied
  <2> QED
    BY <1>1, <1>4, <1>5, <2>1, <2>2, <2>3 DEF d, Live
<1> QED
  BY <1>6, <1>7

(* What a record leaves to be recovered of the intents.                    *)
LEMMA WriteKnows ==
    ASSUME NEW n \in Nat, DurableKept(n), HeldKept(n)', NEW record \in RecordsTo(n),
           NEW fences, WriteFencing(record, fences)
    PROVE  /\ DurableKept(n)'
           /\ \/ /\ fenced' = fenced \cup fences
                 /\ Accumulated' = Applied(Accumulated, record)
              \/ fenced' = {} /\ Live(Accumulated)' = Live(interventions)'
<1>1. CASE Len(journal) < MaxJournal
  <2>1. /\ journal' = Append(journal, record) /\ fenced' = fenced \cup fences
        /\ snapshot' = snapshot
    BY <1>1 DEF WriteFencing
  <2>2. SavedIntents' = SavedIntents
    BY <2>1 DEF SavedIntents
  <2>3. DurableKept(n)'
    BY <2>1, <2>2 DEF DurableKept
  <2> DEFINE d == AsRecords(SavedIntents)
  <2>4. /\ d \in Seq(RecordsTo(n)) /\ journal \in Seq(RecordsTo(n))
        /\ Durable = d \o journal /\ Durable \in Seq(RecordsTo(n))
        /\ Accumulated = AccumulatedOf(Durable)
    BY RecordsOfList, DurableIsKnown DEF DurableKept
  <2>5. Durable' = d \o Append(journal, record) /\ Accumulated' = AccumulatedOf(Durable')
    BY <2>1, <2>2 DEF Durable, AsRecords, Accumulated, AccumulatedOf
  <2> HIDE DEF d
  <2>6. Durable' = Append(Durable, record)
    <3>1. Append(journal, record) = journal \o << record >> /\ << record >> \in Seq(RecordsTo(n))
      BY <2>4, AppendIsConcat
    <3>2. Append(Durable, record) = Durable \o << record >>
      BY <2>4, AppendIsConcat
    <3>3. (d \o journal) \o << record >> = d \o (journal \o << record >>)
      BY <2>4, <3>1, ConcatAssociative
    <3> QED
      BY <2>4, <2>5, <3>1, <3>2, <3>3
  <2>7. AccumulatedOf(Append(Durable, record)) = Applied(AccumulatedOf(Durable), record)
    BY <2>4, AccumulationAppends
  <2>8. Accumulated' = Applied(Accumulated, record)
    BY <2>4, <2>5, <2>6, <2>7
  <2> QED
    BY <2>1, <2>3, <2>8
<1>2. CASE ~(Len(journal) < MaxJournal)
  <2>1. /\ snapshot' = Image(policies', interventions', retired')
        /\ journal' = << OtherRecord >> /\ fenced' = {}
    BY <1>2 DEF WriteFencing
  <2>2. DurableKept(n)' /\ Live(Accumulated)' = Live(interventions)'
    BY <2>1, ImageKnows
  <2> QED
    BY <2>1, <2>2
<1> QED
  BY <1>1, <1>2
(* The record of an intent brings recovery to where the governor is.       *)
LEMMA RecordKeeps ==
    ASSUME NEW n \in Nat, DurableKept(n), HeldKept(n)', LivesKnown,
           NEW id \in 1 .. n, NEW state \in States, Write(IntentRecord(id, state)),
           Live(interventions') = IF state = "live" THEN Live(interventions) \cup {id}
                                  ELSE Live(interventions) \ {id}
    PROVE  DurableKept(n)' /\ LivesKnown' /\ fenced' \subseteq fenced
<1> DEFINE record == IntentRecord(id, state)
           next == Applied(Accumulated, record)
<1>1. record \in RecordsTo(n)
  BY WrittenAreRecords DEF RecordsTo, IntentsTo, IntentRecord
<1>2. Accumulated \in KnownTo(n)
  BY DurableIsKnown
<1>3. /\ Full(Accumulated) => Full(next)
      /\ \/ next = Accumulated /\ Full(Accumulated) /\ id \notin DOMAIN Accumulated
         \/ /\ id \in DOMAIN next
            /\ Live(next) = IF state = "live" THEN Live(Accumulated) \cup {id}
                            ELSE Live(Accumulated) \ {id}
  BY <1>2, AppliedChanges
<1>4. /\ DurableKept(n)'
      /\ \/ fenced' = fenced \cup {} /\ Accumulated' = next
         \/ fenced' = {} /\ Live(Accumulated)' = Live(interventions)'
  BY <1>1, WriteKnows DEF Write
<1> HIDE DEF next, record
<1>5. CASE fenced' = {} /\ Live(Accumulated)' = Live(interventions)'
  BY <1>4, <1>5 DEF LivesKnown
<1>6. CASE fenced' = fenced \cup {} /\ Accumulated' = next
  <2>1. id \notin DOMAIN Accumulated => id \notin Live(Accumulated)
    BY DEF Live
  <2>2. Live(next) \subseteq Live(interventions') \cup fenced
    BY <1>3, <2>1 DEF LivesKnown
  <2>3. \A i \in Live(interventions') : i \in Live(next) \/ Full(next)
    BY <1>3 DEF LivesKnown
  <2>4. Live(Accumulated)' = Live(next) /\ Live(interventions)' = Live(interventions')
        /\ Full(Accumulated)' = Full(next)
    BY <1>6 DEF Live, Full
  <2> QED
    BY <1>4, <1>6, <2>2, <2>3, <2>4 DEF LivesKnown
<1> QED
  BY <1>4, <1>5, <1>6

(* Another record leaves what recovery knows of intents.                   *)
LEMMA OtherRecordKeeps ==
    ASSUME NEW n \in Nat, DurableKept(n), HeldKept(n)', NEW record \in RecordsTo(n),
           record.type # "intent", NEW fences, WriteFencing(record, fences)
    PROVE  /\ DurableKept(n)'
           /\ \/ fenced' = fenced \cup fences /\ Accumulated' = Accumulated
              \/ fenced' = {} /\ Live(Accumulated)' = Live(interventions)'
<1>1. Applied(Accumulated, record) = Accumulated
  BY DEF Applied
<1> QED
  BY <1>1, WriteKnows

(* What a sweep leaves is held, and lives as before.                       *)
LEMMA SweptIsHeld ==
    ASSUME NEW n \in Nat, HeldKept(n), interventions' = Swept, retired' = retired
    PROVE  HeldKept(n)' /\ Live(interventions') = Live(interventions)
<1>1. /\ DOMAIN Swept = Live(interventions) /\ \A i \in DOMAIN Swept : Swept[i] = "live"
      /\ Live(interventions) \subseteq DOMAIN interventions
  BY DEF Swept, Live
<1>2. Live(interventions') = Live(interventions)
  BY <1>1 DEF Live
<1>3. DOMAIN interventions \in SUBSET (1 .. n) /\ Live(interventions) \in SUBSET (1 .. n)
  BY <1>1 DEF HeldKept
<1>4. Cardinality(Live(interventions)) <= Cardinality(DOMAIN interventions)
  BY <1>1, <1>3, NumbersAreFinite, FS_Subset
<1>5. /\ Cardinality(Live(interventions)) \in Nat /\ Cardinality(DOMAIN interventions) \in Nat
      /\ Cardinality(DOMAIN interventions) <= MaxInterventions
  BY <1>3, NumbersAreFinite DEF HeldKept
<1>6. Cardinality(DOMAIN interventions') <= MaxInterventions
  BY <1>1, <1>4, <1>5, LedgerAssumption
<1>7. HeldKept(n)'
  BY <1>1, <1>3, <1>6 DEF HeldKept, States
<1> QED
  BY <1>2, <1>7

(* More intents can be issued.                                             *)
LEMMA KeptOfMore ==
    ASSUME NEW n \in Nat, NEW m \in Nat, n <= m
    PROVE  /\ IntentsTo(n) \subseteq IntentsTo(m) /\ RecordsTo(n) \subseteq RecordsTo(m)
           /\ DurableKept(n) => DurableKept(m)
<1>1. IntentsTo(n) \subseteq IntentsTo(m)
  BY DEF IntentsTo
<1>2. RecordsTo(n) \subseteq RecordsTo(m)
  BY <1>1 DEF RecordsTo
<1> QED
  BY <1>1, <1>2 DEF DurableKept
(* A retirement, in the governor.                                          *)
LEMMA RetiredIsHeld ==
    ASSUME NEW n \in Nat, HeldKept(n), NEW i \in Live(interventions),
           interventions' = [interventions EXCEPT ![i] = "retired"],
           retired' = Newest(Append(retired, [id |-> i, state |-> "retired"]))
    PROVE  /\ HeldKept(n)' /\ Live(interventions') = Live(interventions) \ {i}
           /\ Len(retired') <= MaxInterventions
<1> DEFINE S == {x \in IntentsTo(n) : x.state # "live"}
           entry == [id |-> i, state |-> "retired"]
<1>1. i \in DOMAIN interventions /\ i \in 1 .. n
  BY DEF Live, HeldKept
<1>2. /\ DOMAIN interventions' = DOMAIN interventions
      /\ \A j \in DOMAIN interventions :
            interventions'[j] = IF j = i THEN "retired" ELSE interventions[j]
  BY <1>1
<1>3. Live(interventions') = Live(interventions) \ {i}
  BY <1>2 DEF Live
<1>4. entry \in S
  BY <1>1 DEF IntentsTo, States
<1>5. retired \in Seq(S)
  BY DEF HeldKept
<1> HIDE DEF S, entry
<1>6. retired' \in Seq(S) /\ Len(retired') <= MaxInterventions
  <2>1. Append(retired, entry) \in Seq(S)
    BY <1>4, <1>5
  <2>2. retired' = Newest(Append(retired, entry))
    BY DEF entry
  <2> QED
    BY <2>1, <2>2, NewestIs
<1>7. retired' \in Seq(IntentsTo(n)) /\ \A k \in DOMAIN retired' : retired'[k].state # "live"
  <2>1. \A x \in S : x \in IntentsTo(n) /\ x.state # "live"
    BY DEF S
  <2> QED
    BY <1>6, <2>1
<1>8. /\ DOMAIN interventions' \in SUBSET (1 .. n)
      /\ Cardinality(DOMAIN interventions') <= MaxInterventions
      /\ \A j \in DOMAIN interventions' : interventions'[j] \in States
  BY <1>2 DEF HeldKept, States
<1>9. HeldKept(n)'
  BY <1>7, <1>8 DEF HeldKept
<1> QED
  BY <1>3, <1>6, <1>9

(* A new intent.                                                           *)
LEMMA RequestedIsHeld ==
    ASSUME NEW n \in Nat, HeldKept(n), Cardinality(DOMAIN interventions) < MaxInterventions,
           interventions' = With(interventions, n + 1, "live"), retired' = retired
    PROVE  HeldKept(n + 1)' /\ Live(interventions') = Live(interventions) \cup {n + 1}
<1> DEFINE m == n + 1
           ids == DOMAIN interventions
<1>1. m \in Nat /\ n <= m /\ m \notin 1 .. n /\ m \in 1 .. m /\ 1 .. n \subseteq 1 .. m
  OBVIOUS
<1> HIDE DEF m
<1>2. /\ DOMAIN interventions' = ids \cup {m}
      /\ \A j \in ids \cup {m} : interventions'[j] = IF j = m THEN "live" ELSE interventions[j]
  BY DEF With, m
<1>3. Live(interventions') = Live(interventions) \cup {m}
  BY <1>2 DEF Live
<1>4. ids \in SUBSET (1 .. n) /\ m \notin ids /\ DOMAIN interventions' \in SUBSET (1 .. m)
  BY <1>1, <1>2 DEF HeldKept
<1>5. Cardinality(DOMAIN interventions') <= MaxInterventions
  <2>1. IsFiniteSet(ids) /\ Cardinality(ids) \in Nat
    BY <1>4, NumbersAreFinite
  <2>2. Cardinality(ids \cup {m}) = Cardinality(ids) + 1
    BY <1>4, <2>1, FS_AddElement
  <2> QED
    BY <1>2, <2>1, <2>2, LedgerAssumption
<1>6. retired' \in Seq(IntentsTo(m))
  BY <1>1, KeptOfMore DEF HeldKept
<1>7. \A j \in DOMAIN interventions' : interventions'[j] \in States
  BY <1>2 DEF HeldKept, States
<1>8. HeldKept(m)'
  BY <1>4, <1>5, <1>6, <1>7 DEF HeldKept
<1> QED
  BY <1>3, <1>8 DEF m

(* What a restart makes of what it knows.                                  *)
LEMMA RestoredIsHeld ==
    ASSUME NEW n \in Nat, NEW known \in KnownTo(n), interventions' = << >>,
           retired' = Listed([i \in Live(known) |-> "fenced"])
    PROVE  /\ HeldKept(n)' /\ Live(interventions') = {} /\ Len(retired') <= MaxInterventions
           /\ {retired'[k].id : k \in DOMAIN retired'} = Live(known)
           /\ Live(known) \in SUBSET (1 .. n)
<1> DEFINE lost == [i \in Live(known) |-> "fenced"]
           S == {[id |-> i, state |-> lost[i]] : i \in DOMAIN lost}
<1>1. /\ DOMAIN known \in SUBSET (1 .. n) /\ Cardinality(DOMAIN known) <= MaxInterventions
      /\ Live(known) \subseteq DOMAIN known
  BY DEF KnownTo, Live
<1>2. /\ DOMAIN lost = Live(known) /\ Live(known) \in SUBSET (1 .. n)
      /\ \A i \in Live(known) : lost[i] = "fenced"
  BY <1>1
<1> HIDE DEF lost
<1>3. IsFiniteSet(Live(known)) /\ Cardinality(Live(known)) <= MaxInterventions
  <2>1. IsFiniteSet(DOMAIN known) /\ Cardinality(DOMAIN known) \in Nat
    BY <1>1, NumbersAreFinite
  <2>2. IsFiniteSet(Live(known)) /\ Cardinality(Live(known)) \in Nat
    BY <1>2, NumbersAreFinite
  <2>3. Cardinality(Live(known)) <= Cardinality(DOMAIN known)
    BY <1>1, <2>1, FS_Subset
  <2> QED
    BY <1>1, <2>1, <2>2, <2>3, LedgerAssumption
<1> DEFINE m == Len(retired')
<1>4. /\ m = Cardinality(Live(known)) /\ m \in Nat /\ DOMAIN retired' = 1 .. m
      /\ retired' \in Seq(S)
      /\ \A i \in Live(known) : \E k \in 1 .. m : retired'[k] = [id |-> i, state |-> lost[i]]
  <2>1. retired' = Listed(lost)
    BY DEF lost
  <2>2. IsFiniteSet(DOMAIN lost)
    BY <1>2, <1>3
  <2> DEFINE list == Listed(lost)
  <2>3. /\ Len(list) = Cardinality(DOMAIN lost) /\ Len(list) \in Nat
        /\ DOMAIN list = 1 .. Len(list) /\ list \in Seq(S)
        /\ \A i \in DOMAIN lost :
              \E k \in 1 .. Len(list) : list[k] = [id |-> i, state |-> lost[i]]
    BY <2>2, ListedIs, Zenon
  <2> QED
    BY <1>2, <2>1, <2>3
<1>5. \A x \in S : x \in IntentsTo(n) /\ x.state # "live" /\ x.id \in Live(known)
  BY <1>2 DEF IntentsTo, States
<1> HIDE DEF S, m
<1>6. /\ retired' \in Seq(IntentsTo(n))
      /\ \A k \in 1 .. m : retired'[k].state # "live" /\ retired'[k].id \in Live(known)
  <2>1. \A k \in 1 .. m : retired'[k] \in S
    BY <1>4
  <2> QED
    BY <1>4, <1>5, <2>1
<1>7. {retired'[k].id : k \in DOMAIN retired'} = Live(known)
  <2>1. \A k \in DOMAIN retired' : retired'[k].id \in Live(known)
    BY <1>4, <1>6
  <2>2. ASSUME NEW i \in Live(known)
        PROVE  \E k \in DOMAIN retired' : i = retired'[k].id
    <3>1. PICK k \in 1 .. m : retired'[k] = [id |-> i, state |-> lost[i]]
      BY <1>4
    <3>2. retired'[k].id = i /\ k \in DOMAIN retired'
      BY <1>4, <3>1
    <3> QED
      BY <3>2
  <2> DEFINE ids == {retired'[k].id : k \in DOMAIN retired'}
  <2>3. \A i : i \in ids <=> \E k \in DOMAIN retired' : i = retired'[k].id
    OBVIOUS
  <2> HIDE DEF ids
  <2>4. \A i : i \in ids <=> i \in Live(known)
    BY <2>1, <2>2, <2>3
  <2> QED
    BY <2>4 DEF ids
<1>8. DOMAIN interventions' = {} /\ Live(interventions') = {}
  BY DEF Live
<1>9. Cardinality(DOMAIN interventions') <= MaxInterventions
  BY <1>8, FS_EmptySet, LedgerAssumption
<1>10. HeldKept(n)'
  BY <1>4, <1>6, <1>8, <1>9 DEF HeldKept
<1> QED
  BY <1>2, <1>3, <1>4, <1>7, <1>8, <1>10 DEF m
(* The invariant of the intents in a step.                                 *)
LEMMA NextKeepsIntents ==
    ASSUME IntentsInv, PoliciesKept, Next
    PROVE  IntentsInv'
<1>1. PICK n \in Nat : n = issued
  BY DEF IntentsInv
<1>2. /\ HeldKept(n) /\ DurableKept(n) /\ LivesKnown
      /\ due \subseteq Live(interventions) /\ fenced \subseteq 1 .. n
  BY <1>1 DEF IntentsInv, Kept
<1>3. ASSUME NEW m \in Nat, issued' = m, Kept(m)'
      PROVE  IntentsInv'
  BY <1>3 DEF Kept, IntentsInv, HeldKept, DurableKept
<1>4. ASSUME UNCHANGED << interventions, retired, issued, store >>,
             due' \subseteq Live(interventions)
      PROVE  IntentsInv'
  <2>1. HeldKept(n)' /\ DurableKept(n)'
    BY <1>2, <1>4 DEF HeldKept, DurableKept, SavedIntents, store
  <2>2. Accumulated' = Accumulated
    BY <1>4 DEF Accumulated, Durable, SavedIntents, store
  <2>3. LivesKnown'
    BY <1>2, <1>4, <2>2 DEF LivesKnown, Live, Full, store
  <2>4. due' \subseteq Live(interventions)' /\ fenced' = fenced /\ issued' = n
    BY <1>1, <1>4 DEF Live, store
  <2> QED
    BY <1>2, <1>3, <2>1, <2>3, <2>4 DEF Kept
<1>5. ASSUME \/ \E r \in Resources : Observe(r) \/ RemoveResourcePolicy(r)
                                     \/ \E p \in Policies : SetResourcePolicy(r, p)
             \/ \E p \in Policies : InstallPolicy(p)
             \/ Lapse
      PROVE  IntentsInv'
  BY <1>2, <1>4, <1>5 DEF Observe, RemoveResourcePolicy, SetResourcePolicy, InstallPolicy,
     Lapse, Revokes, progress, governor
<1>6. ASSUME Request
      PROVE  IntentsInv'
  <2> DEFINE m == n + 1
  <2>1. /\ issued' = m /\ interventions' = With(interventions, m, "live")
        /\ retired' = retired /\ due' = due /\ Write(IntentRecord(m, "live"))
        /\ Cardinality(DOMAIN interventions) < MaxInterventions
    BY <1>1, <1>6 DEF Request, progress
  <2>2. HeldKept(m)' /\ Live(interventions') = Live(interventions) \cup {m}
    BY <1>2, <2>1, RequestedIsHeld
  <2>3. m \in Nat /\ n <= m /\ m \in 1 .. m /\ 1 .. n \subseteq 1 .. m
    OBVIOUS
  <2> HIDE DEF m
  <2>4. DurableKept(m) /\ "live" \in States
    BY <1>2, <2>3, KeptOfMore DEF States
  <2>5. DurableKept(m)' /\ LivesKnown' /\ fenced' \subseteq fenced
    BY <1>2, <2>1, <2>2, <2>3, <2>4, RecordKeeps
  <2>6. due' \subseteq Live(interventions)' /\ fenced' \subseteq 1 .. m
    BY <1>2, <2>1, <2>2, <2>3, <2>5 DEF Live
  <2> QED
    BY <1>3, <2>1, <2>2, <2>3, <2>5, <2>6 DEF Kept
<1>7. ASSUME NEW i \in Ids, Renew(i)
      PROVE  IntentsInv'
  <2>1. /\ UNCHANGED << interventions, retired, issued, due >> /\ i \in Live(interventions)
        /\ Write(IntentRecord(i, "live"))
    BY <1>7 DEF Renew, governor, progress
  <2>2. /\ HeldKept(n)' /\ Live(interventions') = Live(interventions) \cup {i}
        /\ i \in 1 .. n /\ "live" \in States
    BY <1>2, <2>1 DEF HeldKept, Live, States
  <2>3. DurableKept(n)' /\ LivesKnown' /\ fenced' \subseteq fenced
    BY <1>2, <2>1, <2>2, RecordKeeps
  <2>4. due' \subseteq Live(interventions)' /\ fenced' \subseteq 1 .. n /\ issued' = n
    BY <1>1, <1>2, <2>1, <2>3 DEF Live
  <2> QED
    BY <1>3, <2>2, <2>3, <2>4 DEF Kept
<1>8. ASSUME RetireNext
      PROVE  IntentsInv'
  <2>1. PICK i \in due :
           /\ interventions' = [interventions EXCEPT ![i] = "retired"]
           /\ retired' = Newest(Append(retired, [id |-> i, state |-> "retired"]))
           /\ due' = due \ {i} /\ issued' = n /\ Write(IntentRecord(i, "retired"))
    BY <1>1, <1>8 DEF RetireNext
  <2>2. i \in Live(interventions) /\ i \in 1 .. n /\ "retired" \in States
    BY <1>2 DEF HeldKept, Live, States
  <2>3. HeldKept(n)' /\ Live(interventions') = Live(interventions) \ {i}
    BY <1>2, <2>1, <2>2, RetiredIsHeld
  <2>4. DurableKept(n)' /\ LivesKnown' /\ fenced' \subseteq fenced
    BY <1>2, <2>1, <2>2, <2>3, RecordKeeps
  <2>5. due' \subseteq Live(interventions)' /\ fenced' \subseteq 1 .. n
    BY <1>2, <2>1, <2>3, <2>4 DEF Live
  <2> QED
    BY <1>3, <2>1, <2>3, <2>4, <2>5 DEF Kept
<1>9. ASSUME FinishSweep
      PROVE  IntentsInv'
  <2>1. /\ interventions' = Swept /\ retired' = retired /\ due' = due /\ due = {}
        /\ issued' = n /\ UNCHANGED store
    BY <1>1, <1>9 DEF FinishSweep
  <2>2. HeldKept(n)' /\ Live(interventions') = Live(interventions)
    BY <1>2, <2>1, SweptIsHeld
  <2>3. DurableKept(n)' /\ Accumulated' = Accumulated /\ fenced' = fenced
    BY <1>2, <2>1 DEF DurableKept, Accumulated, Durable, SavedIntents, store
  <2>4. LivesKnown'
    BY <1>2, <2>2, <2>3 DEF LivesKnown, Live, Full
  <2> QED
    BY <1>2, <1>3, <2>1, <2>2, <2>3, <2>4 DEF Kept
<1>10. ASSUME NEW record \in RecordsTo(n), record.type # "intent", NEW fences \in SUBSET (1 .. n),
              WriteFencing(record, fences), HeldKept(n)', due' = {}, issued' = n,
              Live(interventions') # Live(interventions) =>
                  Live(interventions') = {} /\ fences = Live(Accumulated)
       PROVE  IntentsInv'
  <2>1. /\ DurableKept(n)'
        /\ \/ fenced' = fenced \cup fences /\ Accumulated' = Accumulated
           \/ fenced' = {} /\ Live(Accumulated)' = Live(interventions)'
    BY <1>2, <1>10, OtherRecordKeeps
  <2>2. LivesKnown' /\ fenced' \subseteq 1 .. n
    BY <1>2, <1>10, <2>1 DEF LivesKnown, Live, Full
  <2> QED
    BY <1>3, <1>10, <2>1, <2>2 DEF Kept
<1>11. ASSUME FinishInstall
       PROVE  IntentsInv'
  <2>1. /\ interventions' = Swept /\ retired' = retired /\ due' = {} /\ issued' = n
        /\ WriteFencing(PolicyRecord(policies), {})
    BY <1>1, <1>11 DEF FinishInstall, Write
  <2>2. HeldKept(n)' /\ Live(interventions') = Live(interventions)
    BY <1>2, <2>1, SweptIsHeld
  <2>3. PolicyRecord(policies) \in RecordsTo(n) /\ PolicyRecord(policies).type # "intent"
    BY WrittenAreRecords DEF RecordsTo
  <2> QED
    BY <1>10, <2>1, <2>2, <2>3
<1>12. ASSUME Checkpoint
       PROVE  IntentsInv'
  <2>1. /\ snapshot' = Image(policies', interventions', retired')
        /\ journal' = << >> /\ fenced' = {} /\ issued' = n
        /\ UNCHANGED << interventions, retired, due >>
    BY <1>1, <1>12 DEF Checkpoint, governor, progress
  <2>2. HeldKept(n)'
    BY <1>2, <2>1 DEF HeldKept
  <2>3. DurableKept(n)' /\ Live(Accumulated)' = Live(interventions)'
    BY <2>1, <2>2, ImageKnows
  <2>4. LivesKnown' /\ due' \subseteq Live(interventions)'
    BY <1>2, <2>1, <2>3 DEF LivesKnown, Live
  <2> QED
    BY <1>3, <2>1, <2>2, <2>3, <2>4 DEF Kept
<1>13. ASSUME Restart
       PROVE  IntentsInv'
  <2>1. PICK known : known = Accumulated
    OBVIOUS
  <2>2. /\ interventions' = << >> /\ due' = {} /\ issued' = n
        /\ retired' = Listed([i \in Live(known) |-> "fenced"])
        /\ WriteFencing(OtherRecord, Live(known))
    BY <1>1, <1>13, <2>1 DEF Restart
  <2>3. known \in KnownTo(n)
    BY <1>2, <2>1, DurableIsKnown
  <2>4. HeldKept(n)' /\ Live(interventions') = {} /\ Live(known) \in SUBSET (1 .. n)
    BY <2>2, <2>3, RestoredIsHeld
  <2>5. OtherRecord \in RecordsTo(n) /\ OtherRecord.type # "intent"
    BY WrittenAreRecords DEF RecordsTo
  <2> QED
    BY <1>10, <2>1, <2>2, <2>4, <2>5
<1> QED
  BY <1>5, <1>6, <1>7, <1>8, <1>9, <1>11, <1>12, <1>13 DEF Next
-----------------------------------------------------------------------------
(* The bounds: no call takes the policies, in force or recovered, beyond   *)
(* the overrides and the generations there can be.                         *)
Bounded(set) == Len(set.overrides) <= MaxOverrides /\ set.generation \in 2 .. MaxGeneration

BoundsKept ==
    /\ Bounded(policies) /\ Bounded(RecoveredPolicies)
    /\ issued <= MaxIssued /\ Len(retired) <= MaxInterventions
    /\ call \in {"none", "sweep", "install"} /\ (Idle => due = {})
    /\ Len(journal) <= MaxJournal
    /\ lives \in 1 .. MaxLives /\ unarmed \subseteq Resources

LedgerInv == DetectionInv /\ IntentsInv /\ BoundsKept

(* The accepted mutations stay within them.                                *)
LEMMA MutationsAreBounded ==
    ASSUME NEW set, Shaped(set), Bounded(set)
    PROVE  /\ ~Exhausted(set) =>
                 \A policy \in Policies : Bounded(SetFallback(set, policy))
           /\ \A r \in Resources, policy \in Policies :
                 AcceptsOverride(set, r) => Bounded(SetOverride(set, r, policy))
           /\ \A r \in Resources : AcceptsRemoval(set, r) => Bounded(RemoveOverride(set, r))
<1>1. PICK fallback \in Policies, overrides \in Lists, generation \in Nat :
         set = PolicySetOf(fallback, overrides, generation)
  BY DEF Shaped
<1>2. /\ set.overrides = overrides /\ set.generation = generation
      /\ set.index = IndexOf(overrides)
  BY <1>1, Lookup
<1>3. overrides \in Seq(Override) /\ Len(overrides) \in Nat /\ Len(overrides) <= MaxOverrides
  BY <1>2 DEF Lists, Bounded
<1>4. ASSUME ~Exhausted(set)
      PROVE  generation + 1 \in 2 .. MaxGeneration
  BY <1>2, <1>4, PolicySetAssumption DEF Bounded, Exhausted
<1>5. ASSUME ~Exhausted(set), NEW policy \in Policies
      PROVE  Bounded(SetFallback(set, policy))
  BY <1>2, <1>3, <1>4, <1>5 DEF Bounded, SetFallback, Bumped
<1>6. ASSUME NEW r \in Resources, NEW policy \in Policies, AcceptsOverride(set, r)
      PROVE  Bounded(SetOverride(set, r, policy))
  <2> DEFINE entry == [resource |-> r, policy |-> policy]
  <2>1. generation + 1 \in 2 .. MaxGeneration
    BY <1>4, <1>6 DEF AcceptsOverride
  <2>2. CASE HasOverride(set, r)
    <3> DEFINE list == [overrides EXCEPT ![set.index[r]] = entry]
    <3>1. Len(list) = Len(overrides)
      BY <1>3
    <3>2. SetOverride(set, r, policy).overrides = list
          /\ SetOverride(set, r, policy).generation = generation + 1
      BY <1>2, <2>2 DEF SetOverride, Bumped
    <3> QED
      BY <1>3, <2>1, <3>1, <3>2 DEF Bounded
  <2>3. CASE ~HasOverride(set, r)
    <3> DEFINE list == Append(overrides, entry)
    <3>1. Len(list) <= MaxOverrides
      BY <1>2, <1>3, <1>6, <2>3, PolicySetAssumption DEF AcceptsOverride
    <3>2. SetOverride(set, r, policy).overrides = list
          /\ SetOverride(set, r, policy).generation = generation + 1
      BY <1>2, <2>3 DEF SetOverride, Bumped
    <3> QED
      BY <2>1, <3>1, <3>2 DEF Bounded
  <2> QED
    BY <2>2, <2>3
<1>7. ASSUME NEW r \in Resources, AcceptsRemoval(set, r)
      PROVE  Bounded(RemoveOverride(set, r))
  <2> DEFINE k == IndexOf(overrides)[r]
             left == SubSeq(overrides, 1, k - 1)
             right == SubSeq(overrides, k + 1, Len(overrides))
  <2>1. k \in 1 .. Len(overrides)
    BY <1>2, <1>3, <1>7, IndexFinds DEF AcceptsRemoval, HasOverride
  <2>2. generation + 1 \in 2 .. MaxGeneration
    BY <1>4, <1>7 DEF AcceptsRemoval
  <2>3. /\ RemoveOverride(set, r).overrides = left \o right
        /\ RemoveOverride(set, r).generation = generation + 1
    BY <1>2 DEF RemoveOverride, RemoveAt, PolicySetOf
  <2> HIDE DEF k
  <2>4. /\ left \in Seq(Override) /\ Len(left) = k - 1
        /\ right \in Seq(Override) /\ Len(right) = Len(overrides) - k
    BY <1>3, <2>1
  <2> HIDE DEF left, right
  <2>5. Len(left \o right) = Len(left) + Len(right)
    BY <2>4
  <2>6. Len(left \o right) <= MaxOverrides
    BY <1>3, <2>1, <2>4, <2>5, PolicySetAssumption
  <2> QED
    BY <2>2, <2>3, <2>6 DEF Bounded
<1> QED
  BY <1>5, <1>6, <1>7

(* What a record leaves to be recovered is within them.                    *)
LEMMA WriteIsBounded ==
    ASSUME PoliciesKept, Shaped(policies'), Bounded(policies'), Bounded(RecoveredPolicies),
           Len(journal) <= MaxJournal,
           NEW record \in Records, NEW fences, WriteFencing(record, fences),
           record.type = "policy" => record.generation \in 2 .. MaxGeneration
    PROVE  Bounded(RecoveredPolicies') /\ Len(journal') <= MaxJournal
<1>1. \/ RecoveredPolicies' = policies'
      \/ RecoveredPolicies' = RecoveredPolicies
      \/ /\ record.type = "policy"
         /\ RecoveredPolicies' =
                PolicySetOf(record.fallback, Saved.overrides, record.generation)
  BY WriteSaves DEF PoliciesKept
<1>2. RecoveredPolicies.overrides = Saved.overrides
  BY DEF RecoveredPolicies, PolicySetOf
<1>3. Bounded(RecoveredPolicies')
  BY <1>1, <1>2 DEF Bounded, PolicySetOf
<1>4. Len(journal') <= MaxJournal
  <2>1. journal \in Seq(Records)
    BY DEF PoliciesKept, JournalKept
  <2> QED
    BY <2>1, LedgerAssumption DEF WriteFencing
<1> QED
  BY <1>3, <1>4
(* The bounds in a step.                                                   *)
LEMMA NextKeepsBounds ==
    ASSUME LedgerInv, Next
    PROVE  BoundsKept'
<1>1. /\ PoliciesKept /\ IntentsInv /\ BoundsKept
      /\ Shaped(policies) /\ Bounded(policies) /\ Bounded(RecoveredPolicies)
  BY DEF LedgerInv, DetectionInv, PoliciesKept, BoundsKept
<1>2. PoliciesKept' /\ Shaped(policies')
  BY <1>1, NextKeepsPolicies DEF PoliciesKept, Shaped
<1>3. PICK n \in Nat : n = issued /\ HeldKept(n) /\ DurableKept(n) /\ n <= MaxIssued
  BY <1>1 DEF IntentsInv, Kept, BoundsKept
<1>4. due \subseteq Live(interventions) /\ Live(interventions) \subseteq 1 .. n
  BY <1>1, <1>3 DEF IntentsInv, Kept, HeldKept, Live
<1>5. /\ issued <= MaxIssued /\ Len(retired) <= MaxInterventions
      /\ call \in {"none", "sweep", "install"} /\ (call = "none" => due = {})
      /\ Len(journal) <= MaxJournal /\ lives \in 1 .. MaxLives /\ unarmed \subseteq Resources
  BY <1>1 DEF BoundsKept, Idle
<1>6. ASSUME UNCHANGED << retired, issued, store, lives >>, Bounded(policies'),
             call' \in {"none", "sweep", "install"}, call' = "none" => due' = {},
             unarmed' \subseteq Resources
      PROVE  BoundsKept'
  <2>1. RecoveredPolicies' = RecoveredPolicies
    BY <1>6 DEF RecoveredPolicies, Saved, Installs, store
  <2>2. Bounded(policies)' /\ Bounded(RecoveredPolicies)'
    BY <1>1, <1>6, <2>1 DEF Bounded
  <2> QED
    BY <1>5, <1>6, <2>2 DEF BoundsKept, Idle, store
<1>7. ASSUME NEW record \in Records, NEW fences, WriteFencing(record, fences),
             record.type = "policy" => record.generation \in 2 .. MaxGeneration,
             Bounded(policies'), issued' <= MaxIssued, Len(retired') <= MaxInterventions,
             call' \in {"none", "sweep", "install"}, call' = "none" => due' = {},
             lives' \in 1 .. MaxLives, unarmed' \subseteq Resources
      PROVE  BoundsKept'
  <2>1. Bounded(RecoveredPolicies') /\ Len(journal') <= MaxJournal
    BY <1>1, <1>2, <1>5, <1>7, WriteIsBounded
  <2>2. Bounded(policies)' /\ Bounded(RecoveredPolicies)'
    BY <1>7, <2>1 DEF Bounded
  <2> QED
    BY <1>7, <2>1, <2>2 DEF BoundsKept, Idle
<1>8. ASSUME NEW r \in Resources, Observe(r)
      PROVE  BoundsKept'
  BY <1>1, <1>5, <1>6, <1>8 DEF Observe, progress
<1>9. ASSUME NEW r \in Resources, NEW p \in Policies, SetResourcePolicy(r, p)
      PROVE  BoundsKept'
  <2>1. Bounded(policies')
    BY <1>1, <1>9, MutationsAreBounded DEF SetResourcePolicy
  <2> QED
    BY <1>5, <1>6, <1>9, <2>1 DEF SetResourcePolicy, Revokes
<1>10. ASSUME NEW r \in Resources, RemoveResourcePolicy(r)
       PROVE  BoundsKept'
  <2>1. Bounded(policies')
    BY <1>1, <1>10, MutationsAreBounded DEF RemoveResourcePolicy
  <2> QED
    BY <1>5, <1>6, <1>10, <2>1 DEF RemoveResourcePolicy, Revokes
<1>11. ASSUME NEW p \in Policies, InstallPolicy(p)
       PROVE  BoundsKept'
  <2>1. Bounded(policies')
    BY <1>1, <1>11, MutationsAreBounded DEF InstallPolicy
  <2> QED
    BY <1>5, <1>6, <1>11, <2>1 DEF InstallPolicy, Revokes
<1>12. ASSUME Request
       PROVE  BoundsKept'
  <2>1. /\ UNCHANGED << policies, retired, call, due, lives, unarmed >>
        /\ issued' = n + 1 /\ n < MaxIssued
        /\ WriteFencing(IntentRecord(n + 1, "live"), {})
    BY <1>3, <1>12 DEF Request, progress, Write
  <2>2. /\ IntentRecord(n + 1, "live") \in Records
        /\ IntentRecord(n + 1, "live").type = "intent" /\ issued' <= MaxIssued
    BY <2>1, WrittenAreRecords, LedgerAssumption DEF States
  <2> QED
    BY <1>1, <1>5, <1>7, <2>1, <2>2
<1>13. ASSUME NEW i \in Ids, Renew(i)
       PROVE  BoundsKept'
  <2>1. /\ UNCHANGED << policies, retired, issued, call, due, lives, unarmed >>
        /\ WriteFencing(IntentRecord(i, "live"), {})
    BY <1>13 DEF Renew, governor, progress, Write
  <2>2. IntentRecord(i, "live") \in Records /\ IntentRecord(i, "live").type = "intent"
    BY <1>4, <1>13, WrittenAreRecords DEF Renew, States
  <2> QED
    BY <1>1, <1>5, <1>7, <2>1, <2>2
<1>14. ASSUME Lapse
       PROVE  BoundsKept'
  BY <1>1, <1>5, <1>6, <1>14 DEF Lapse, governor
<1>15. ASSUME RetireNext
       PROVE  BoundsKept'
  <2>1. PICK i \in due :
           /\ interventions' = [interventions EXCEPT ![i] = "retired"]
           /\ retired' = Newest(Append(retired, [id |-> i, state |-> "retired"]))
           /\ due' = due \ {i} /\ UNCHANGED << policies, issued, call, lives, unarmed >>
           /\ WriteFencing(IntentRecord(i, "retired"), {})
    BY <1>15 DEF RetireNext, Write
  <2>2. i \in Live(interventions) /\ i \in Nat
    BY <1>4
  <2>3. Len(retired') <= MaxInterventions
    BY <1>3, <2>1, <2>2, RetiredIsHeld
  <2>4. IntentRecord(i, "retired") \in Records /\ IntentRecord(i, "retired").type = "intent"
    BY <2>2, WrittenAreRecords DEF States
  <2>5. call' = "none" => due' = {}
    BY <1>5, <2>1
  <2> QED
    BY <1>1, <1>5, <1>7, <2>1, <2>3, <2>4, <2>5
<1>16. ASSUME FinishSweep
       PROVE  BoundsKept'
  BY <1>1, <1>5, <1>6, <1>16 DEF FinishSweep
<1>17. ASSUME FinishInstall
       PROVE  BoundsKept'
  <2>1. /\ UNCHANGED << policies, retired, issued, due, lives, unarmed >>
        /\ call' = "none" /\ due = {} /\ WriteFencing(PolicyRecord(policies), {})
    BY <1>17 DEF FinishInstall, Write
  <2>2. PolicyRecord(policies) \in Records
        /\ PolicyRecord(policies).generation \in 2 .. MaxGeneration
    BY <1>1, WrittenAreRecords DEF PolicyRecord, Bounded
  <2> QED
    BY <1>1, <1>5, <1>7, <2>1, <2>2
<1>18. ASSUME Checkpoint
       PROVE  BoundsKept'
  <2>1. /\ Saved' = policies' /\ journal' = << >>
        /\ UNCHANGED << policies, retired, issued, call, due, lives, unarmed >>
    BY <1>18 DEF Checkpoint, Saved, Image, governor, progress
  <2>2. RecoveredPolicies' = policies' /\ Len(journal') <= MaxJournal
    BY <2>1, LedgerAssumption DEF RecoveredPolicies, Installs
  <2>3. Bounded(policies)' /\ Bounded(RecoveredPolicies)'
    BY <1>1, <2>1, <2>2 DEF Bounded
  <2> QED
    BY <1>5, <2>1, <2>2, <2>3 DEF BoundsKept, Idle
<1>19. ASSUME Restart
       PROVE  BoundsKept'
  <2>1. PICK known : known = Accumulated
    OBVIOUS
  <2>2. /\ policies' = RecoveredPolicies /\ interventions' = << >> /\ issued' = issued
        /\ retired' = Listed([i \in Live(known) |-> "fenced"])
        /\ call' = "none" /\ due' = {} /\ unarmed' = {}
        /\ lives < MaxLives /\ lives' = lives + 1
        /\ WriteFencing(OtherRecord, Live(known))
    BY <1>19, <2>1 DEF Restart
  <2>3. known \in KnownTo(n)
    BY <1>3, <2>1, DurableIsKnown
  <2>4. Len(retired') <= MaxInterventions
    BY <2>2, <2>3, RestoredIsHeld
  <2>5. lives' \in 1 .. MaxLives
    BY <1>5, <2>2, LedgerAssumption
  <2> QED
    BY <1>1, <1>5, <1>7, <2>2, <2>4, <2>5, WrittenAreRecords
<1> QED
  BY <1>8, <1>9, <1>10, <1>11, <1>12, <1>13, <1>14, <1>15, <1>16, <1>17, <1>18, <1>19 DEF Next
-----------------------------------------------------------------------------
(* The initial states.                                                     *)
LEMMA InitKeepsLedger == Init => LedgerInv
<1> SUFFICES ASSUME Init PROVE LedgerInv
  OBVIOUS
<1>1. /\ policies = Constructed /\ interventions = << >> /\ retired = << >> /\ issued = 0
      /\ call = "none" /\ due = {} /\ snapshot = NoSnapshot /\ journal = << >>
      /\ lives = 1 /\ unarmed = {} /\ fenced = {}
  BY DEF Init
<1>2. DetectionInv
  BY InitKeeps
<1>3. DOMAIN interventions = {} /\ Live(interventions) = {}
  BY <1>1 DEF Live
<1>4. HeldKept(0)
  <2>1. Cardinality(DOMAIN interventions) = 0
    BY <1>3, FS_EmptySet
  <2> QED
    BY <1>1, <1>3, <2>1, LedgerAssumption DEF HeldKept
<1>5. DurableKept(0)
  BY <1>1 DEF DurableKept, SavedIntents, NoSnapshot
<1>6. Durable = << >>
  BY <1>1 DEF Durable, SavedIntents, NoSnapshot
<1>7. Live(Accumulated) = {}
  <2>1. PICK run \in [0 .. Len(<< >>) -> KnownTo(0)] :
           run[0] = << >> /\ AccumulatedOf(<< >>) = run[Len(<< >>)]
    <3>1. << >> \in Seq(RecordsTo(0)) /\ 0 \in Nat
      OBVIOUS
    <3> QED
      BY <3>1, AccumulationRuns
  <2>2. Accumulated = << >>
    BY <1>6, <2>1 DEF Accumulated, AccumulatedOf
  <2> QED
    BY <2>2 DEF Live
<1>8. IntentsInv
  BY <1>1, <1>3, <1>4, <1>5, <1>7 DEF IntentsInv, Kept, LivesKnown
<1>9. BoundsKept
  <2>1. Bounded(Constructed)
    BY PolicySetAssumption DEF Bounded, Constructed, PolicySetOf
  <2>2. RecoveredPolicies = Constructed
    BY <1>1 DEF RecoveredPolicies, Installs, Saved, NoSnapshot
  <2> QED
    BY <1>1, <2>1, <2>2, LedgerAssumption DEF BoundsKept, Idle
<1> QED
  BY <1>2, <1>8, <1>9 DEF LedgerInv

(* The invariant is inductive.                                             *)
LEMMA LedgerInductive == Spec => []LedgerInv
<1>1. LedgerInv /\ [Next]_vars => LedgerInv'
  <2> SUFFICES ASSUME LedgerInv, [Next]_vars PROVE LedgerInv'
    OBVIOUS
  <2>1. DetectionInv /\ IntentsInv /\ BoundsKept /\ PoliciesKept
    BY DEF LedgerInv, DetectionInv
  <2>2. CASE UNCHANGED vars
    <3>1. /\ UNCHANGED << policies, detector, interventions, retired, issued, call, due >>
          /\ UNCHANGED << snapshot, journal, fenced, lives, unarmed >>
      BY <2>2 DEF vars, governor, progress, store
    <3>2. DetectionInv'
      BY <2>1, <3>1 DEF DetectionInv, PoliciesKept, JournalKept, IntentsKept, Saved, Installs,
         DetectsUnderPolicy, Resolve, HasOverride
    <3>3. Accumulated' = Accumulated /\ SavedIntents' = SavedIntents
      BY <3>1 DEF Accumulated, Durable, SavedIntents
    <3>4. IntentsInv'
      BY <2>1, <3>1, <3>3
         DEF IntentsInv, Kept, HeldKept, DurableKept, LivesKnown, Live, Full
    <3>5. RecoveredPolicies' = RecoveredPolicies
      BY <3>1 DEF RecoveredPolicies, Saved, Installs
    <3>6. BoundsKept'
      BY <2>1, <3>1, <3>5 DEF BoundsKept, Bounded, Idle
    <3> QED
      BY <3>2, <3>4, <3>6 DEF LedgerInv
  <2>3. CASE Next
    BY <2>1, <2>3, NextKeepsDetection, NextKeepsIntents, NextKeepsBounds DEF LedgerInv
  <2> QED
    BY <2>2, <2>3
<1> QED
  BY <1>1, InitKeepsLedger, PTL DEF Spec

(* Whatever is called, journaled, checkpointed and restored, the policies  *)
(* keep the index of their list and their bounds, the history and the map  *)
(* of intents keep theirs, and a sweep only has live intents before it.    *)
THEOREM TypeCorrect == Spec => []TypeOK
<1>1. LedgerInv => TypeOK
  <2> SUFFICES ASSUME LedgerInv PROVE TypeOK
    OBVIOUS
  <2>1. DetectionInv /\ IntentsInv /\ BoundsKept
    BY DEF LedgerInv
  <2>2. /\ policies.fallback \in Policies /\ policies.overrides \in Seq(Override)
        /\ policies.index = IndexOf(policies.overrides)
    <3>1. PICK fallback \in Policies, overrides \in Lists, generation \in Nat :
             policies = PolicySetOf(fallback, overrides, generation)
      BY <2>1 DEF DetectionInv, PoliciesKept, Shaped
    <3> QED
      BY <3>1, Lookup DEF Lists
  <2>3. /\ issued \in 0 .. MaxIssued /\ DOMAIN interventions \subseteq 1 .. issued
        /\ fenced \subseteq 1 .. issued /\ due \subseteq Live(interventions)
        /\ retired \in Seq(IntentsTo(issued))
    BY <2>1, LedgerAssumption DEF IntentsInv, Kept, HeldKept, BoundsKept
  <2>4. IntentsTo(issued) \subseteq Intent
    BY <2>3, LedgerAssumption DEF IntentsTo, Intent, Ids
  <2>5. retired \in Seq(Intent)
    BY <2>3, <2>4
  <2>6. detector \in [Resources -> Policies \cup {None}]
    BY <2>1 DEF DetectionInv
  <2> QED
    BY <2>1, <2>2, <2>3, <2>5, <2>6 DEF TypeOK, BoundsKept, Bounded
<1> QED
  BY <1>1, LedgerInductive, PTL

(* A restart fences the intents that were live when the process ended, and *)
(* no others but those that were fenced before since the last checkpoint;  *)
(* it misses one only when the durable list of intents is full.            *)
THEOREM LiveIntentsFenced == Spec => RestartFencesLive
<1> DEFINE Fences == lives' # lives =>
        LET fences == {retired'[k].id : k \in DOMAIN retired'}
        IN  /\ fences \subseteq Live(interventions) \cup fenced
            /\ \A i \in Live(interventions) :
                  i \in fences \/ Cardinality(DOMAIN Accumulated) = MaxInterventions
<1>1. LedgerInv /\ [Next]_vars => [Fences]_vars
  <2> SUFFICES ASSUME LedgerInv, Next, lives' # lives PROVE Fences
    BY DEF vars
  <2>1. Restart
    BY DEF Next, Observe, RemoveResourcePolicy, SetResourcePolicy, InstallPolicy, Request, Renew,
       Lapse, RetireNext, FinishSweep, FinishInstall, Checkpoint
  <2>2. PICK n \in Nat : n = issued /\ DurableKept(n) /\ LivesKnown
    BY DEF LedgerInv, IntentsInv, Kept
  <2>3. PICK known : known = Accumulated
    OBVIOUS
  <2>4. known \in KnownTo(n)
    BY <2>2, <2>3, DurableIsKnown
  <2>5. interventions' = << >> /\ retired' = Listed([i \in Live(known) |-> "fenced"])
    BY <2>1, <2>3 DEF Restart
  <2>6. {retired'[k].id : k \in DOMAIN retired'} = Live(known)
    BY <2>4, <2>5, RestoredIsHeld
  <2> QED
    BY <2>2, <2>3, <2>6 DEF LivesKnown, Full
<1> QED
  BY <1>1, LedgerInductive, PTL DEF Spec, RestartFencesLive
=============================================================================
