--------------------------- MODULE EvidenceProofs ---------------------------
(***************************************************************************)
(* Machine-checked results about Evidence, for any subjects, policies,     *)
(* retention and length of history.                                        *)
(***************************************************************************)
EXTENDS Evidence, WellFoundedInduction, TLAPS

(* What the two properties need of the types: the times of the records.     *)
Records ==
    /\ by_subject_ \in [Subjects -> SUBSET EvidenceRecord]
    /\ entries_ \in [Subjects -> Time]
    /\ cleared_at \in [Subjects -> Time]

(* FailureTable holds the latest failure committed, and no retained         *)
(* authoritative recovery or enablement is later than the latest admitted.  *)
FailureInv ==
    /\ failed_at = entries_
    /\ \A k \in Subjects : \A r \in by_subject_[k] :
          r.trust = "Authoritative" /\ r.claim \in {"recovery", "enabled"} =>
             r.observed_at <= cleared_at[k]

-----------------------------------------------------------------------------
(* Latest. *)

(* A set of natural numbers that is not empty has a least member.           *)
LEMMA Least ==
    ASSUME NEW S, S \subseteq Nat, S # {}
    PROVE  \E n \in S : \A m \in S : n <= m
<1> DEFINE R == OpToRel(<, Nat)
<1>1. IsWellFoundedOn(R, Nat)
  BY NatLessThanWellFounded, Zenon
<1>2. \A x, y \in Nat : <<x, y>> \in R <=> x < y
  BY DEF OpToRel
<1> HIDE DEF R
<1>3. PICK n \in S : \A m \in S : <<m, n>> \notin R
  BY <1>1, WFMin, Zenon
<1>4. ASSUME NEW m \in S PROVE n <= m
  <2>1. n \in Nat /\ m \in Nat /\ <<m, n>> \notin R
    BY <1>3
  <2> QED
    BY <1>2, <2>1
<1> QED
  BY <1>4

(* Max of a set of times is its greatest member.                            *)
LEMMA MaxOfTimes ==
    ASSUME NEW S, S \subseteq Time, S # {}
    PROVE  Max(S) \in S /\ Max(S) \in Time /\ \A x \in S : x <= Max(S)
<1> DEFINE T == {EvidenceTimeMax - x : x \in S}
<1>0. EvidenceTimeMax \in Nat /\ \A x \in S : x \in Nat /\ x <= EvidenceTimeMax
  BY EvidenceAssumption DEF Time
<1>1. T \subseteq Nat /\ T # {}
  BY <1>0
<1>2. PICK n \in T : \A m \in T : n <= m
  BY <1>1, Least, Zenon
<1>3. PICK x \in S : n = EvidenceTimeMax - x
  BY <1>2
<1>4. \A y \in S : x >= y
  <2>1. ASSUME NEW y \in S PROVE x >= y
    <3>1. n <= EvidenceTimeMax - y
      BY <1>2
    <3> QED
      BY <1>0, <1>3, <3>1
  <2> QED
    BY <2>1
<1>5. Max(S) \in S /\ \A y \in S : Max(S) >= y
  BY <1>4 DEF Max
<1> QED
  BY <1>0, <1>5

(* Every observation is made at a time above 0.                             *)
LEMMA ObservedAt == \A r \in EvidenceRecord : r.observed_at \in 1 .. EvidenceTimeMax
  BY DEF EvidenceRecord

(* Latest is 0 for no records, and otherwise the time of the latest.        *)
LEMMA LatestIs ==
    ASSUME NEW R, R \subseteq EvidenceRecord
    PROVE  /\ Latest(R) \in Time
           /\ \A r \in R : 1 <= r.observed_at /\ r.observed_at <= Latest(R)
           /\ Latest(R) # 0 => \E r \in R : r.observed_at = Latest(R)
<1> DEFINE S == {0} \cup {r.observed_at : r \in R}
<1>1. \A r \in R : r.observed_at \in 1 .. EvidenceTimeMax
  BY ObservedAt
<1>2. S \subseteq Time /\ S # {}
  BY <1>1, EvidenceAssumption DEF Time
<1>3. Max(S) \in S /\ Max(S) \in Time /\ \A x \in S : x <= Max(S)
  BY <1>2, MaxOfTimes, Zenon
<1>4. \A r \in R : r.observed_at \in S
  OBVIOUS
<1>5. \A x \in S : x # 0 => \E r \in R : r.observed_at = x
  OBVIOUS
<1>6. Latest(R) = Max(S)
  BY DEF Latest
<1> HIDE DEF S
<1> QED
  BY <1>1, <1>3, <1>4, <1>5, <1>6

(* Comparing the latest of two sets of records asks whether some record of  *)
(* the one postdates all of the other.                                      *)
LEMMA LatestCompared ==
    ASSUME NEW R, R \subseteq EvidenceRecord, NEW S, S \subseteq EvidenceRecord
    PROVE  /\ Latest(R) = 0 <=> R = {}
           /\ Latest(R) > Latest(S) <=>
                 \E r \in R : \A s \in S : s.observed_at < r.observed_at
           /\ \A n \in Time : Latest(R) > n <=> \E r \in R : r.observed_at > n
<1>1. /\ Latest(R) \in Nat
      /\ \A r \in R : 1 <= r.observed_at /\ r.observed_at <= Latest(R)
      /\ Latest(R) # 0 => \E r \in R : r.observed_at = Latest(R)
  BY LatestIs DEF Time
<1>2. /\ Latest(S) \in Nat
      /\ \A s \in S : 1 <= s.observed_at /\ s.observed_at <= Latest(S)
      /\ Latest(S) # 0 => \E s \in S : s.observed_at = Latest(S)
  BY LatestIs DEF Time
<1>3. \A r \in R \cup S : r.observed_at \in Nat
  BY ObservedAt
<1>4. Latest(R) = 0 <=> R = {}
  BY <1>1, <1>3
<1>5. \A n \in Nat : Latest(R) > n <=> \E r \in R : r.observed_at > n
  BY <1>1, <1>3
<1>6. ASSUME Latest(R) > Latest(S)
      PROVE  \E r \in R : \A s \in S : s.observed_at < r.observed_at
  <2>1. PICK r \in R : r.observed_at > Latest(S)
    BY <1>2, <1>5, <1>6
  <2> QED
    BY <1>2, <1>3, <2>1
<1>7. ASSUME NEW r \in R, \A s \in S : s.observed_at < r.observed_at
      PROVE  Latest(R) > Latest(S)
  <2>1. r.observed_at > Latest(S)
    BY <1>1, <1>2, <1>3, <1>7
  <2> QED
    BY <1>2, <1>5, <2>1
<1> QED
  BY <1>4, <1>5, <1>6, <1>7 DEF Time

-----------------------------------------------------------------------------
(* The invariant. *)

(* Eviction only removes.                                                   *)
LEMMA EvictRemoves == \A records : Evict(records) \subseteq records
  BY DEF Evict

(* The records are typed in every reachable state.                          *)
LEMMA RecordsInvariant == EvidenceSpec => []Records
<1>1. EvidenceInit => Records
  BY EvidenceAssumption DEF EvidenceInit, Records, Time
<1>2. ASSUME Records, [EvidenceNext]_evidenceVars PROVE Records'
  <2>1. ASSUME NEW k \in Subjects, NEW r \in EvidenceRecord, admit(k, r) PROVE Records'
    <3>1. by_subject_' \in [Subjects -> SUBSET EvidenceRecord]
      <4>1. Evict(by_subject_[k] \cup {r}) \in SUBSET EvidenceRecord
        BY <1>2, EvictRemoves DEF Records
      <4> QED
        BY <1>2, <2>1, <4>1, Zenon DEF admit, Records
    <3>2. cleared_at' \in [Subjects -> Time]
      <4>1. Note(cleared_at[k], r, {"recovery", "enabled"}) \in Time
        BY <1>2, ObservedAt, EvidenceAssumption DEF Note, Records, Time
      <4> QED
        BY <1>2, <2>1, <4>1 DEF admit, Records
    <3> QED
      BY <1>2, <2>1, <3>1, <3>2, Zenon DEF admit, Records
  <2>2. ASSUME NEW k \in Subjects, NEW t \in 1 .. EvidenceTimeMax, record(k, t) PROVE Records'
    <3>1. t \in Time
      BY EvidenceAssumption DEF Time
    <3> QED
      BY <1>2, <2>2, <3>1 DEF record, Records
  <2>3. CASE EvidenceRestart
    BY <1>2, <2>3, EvidenceAssumption DEF EvidenceRestart, Records, Time
  <2>4. CASE EvidenceTick \/ UNCHANGED evidenceVars
    BY <1>2, <2>4 DEF EvidenceTick, evidenceVars, Records
  <2> QED
    BY <1>2, <2>1, <2>2, <2>3, <2>4 DEF EvidenceNext
<1> QED
  BY <1>1, <1>2, PTL DEF EvidenceSpec

(* The failure table is the history of failures, in whatever order they are *)
(* recorded and over restarts.                                              *)
LEMMA FailureInvariant == EvidenceSpec => []FailureInv
<1>1. EvidenceInit => FailureInv
  BY DEF EvidenceInit, FailureInv
<1>2. ASSUME Records, FailureInv, [EvidenceNext]_evidenceVars PROVE FailureInv'
  <2>1. ASSUME NEW k \in Subjects, NEW r \in EvidenceRecord, admit(k, r) PROVE FailureInv'
    <3>1. /\ cleared_at[k] \in Nat /\ r.observed_at \in Nat
          /\ cleared_at'[k] = Note(cleared_at[k], r, {"recovery", "enabled"})
          /\ \A j \in Subjects : j # k => cleared_at'[j] = cleared_at[j]
      BY <1>2, <2>1, ObservedAt, EvidenceAssumption DEF admit, Records, Time
    <3>2. /\ by_subject_'[k] \subseteq by_subject_[k] \cup {r}
          /\ \A j \in Subjects : j # k => by_subject_'[j] = by_subject_[j]
      BY <1>2, <2>1, EvictRemoves DEF admit, Records
    <3>3. /\ cleared_at[k] <= cleared_at'[k] /\ cleared_at'[k] \in Nat
          /\ r.trust = "Authoritative" /\ r.claim \in {"recovery", "enabled"} =>
                r.observed_at <= cleared_at'[k]
      BY <3>1 DEF Note
    <3>4. \A s \in by_subject_[k] : s.observed_at \in Nat
      BY <1>2, ObservedAt DEF Records
    <3>5. ASSUME NEW s \in by_subject_'[k], s.trust = "Authoritative",
                 s.claim \in {"recovery", "enabled"}
          PROVE  s.observed_at <= cleared_at'[k]
      <4>1. CASE s = r
        BY <3>3, <3>5, <4>1
      <4>2. CASE s \in by_subject_[k]
        <5>1. s.observed_at <= cleared_at[k]
          BY <1>2, <3>5, <4>2 DEF FailureInv
        <5> QED
          BY <3>1, <3>3, <3>4, <4>2, <5>1
      <4> QED
        BY <3>2, <4>1, <4>2
    <3> QED
      BY <1>2, <2>1, <3>1, <3>2, <3>5, Zenon DEF admit, FailureInv
  <2>2. ASSUME NEW k \in Subjects, NEW t \in 1 .. EvidenceTimeMax, record(k, t) PROVE FailureInv'
    <3>1. entries_[k] \in Time /\ t \in Time
      BY <1>2, EvidenceAssumption DEF Records, Time
    <3>2. Max({entries_[k], t}) = IF entries_[k] > t THEN entries_[k] ELSE t
      <4>1. /\ Max({entries_[k], t}) \in {entries_[k], t}
            /\ \A x \in {entries_[k], t} : x <= Max({entries_[k], t})
        BY <3>1, MaxOfTimes
      <4> QED
        BY <3>1, <4>1, EvidenceAssumption DEF Time
    <3> QED
      BY <1>2, <2>2, <3>2, Zenon DEF record, FailureInv
  <2>3. CASE EvidenceRestart
    BY <1>2, <2>3 DEF EvidenceRestart, FailureInv
  <2>4. CASE EvidenceTick \/ UNCHANGED evidenceVars
    BY <1>2, <2>4 DEF EvidenceTick, evidenceVars, FailureInv
  <2> QED
    BY <1>2, <2>1, <2>2, <2>3, <2>4 DEF EvidenceNext
<1> QED
  BY <1>1, <1>2, RecordsInvariant, PTL DEF EvidenceSpec

-----------------------------------------------------------------------------
(* Adjudication. *)

(* The fresh records are among the retained ones.                           *)
LEMMA FreshAreRecords ==
    ASSUME Records, NEW k \in Subjects, NEW trust, NEW claim
    PROVE  Fresh(k, trust, claim) \subseteq EvidenceRecord
  BY DEF Records, Fresh

(* assess_switch: a generation committed as failed demands a fence, and is  *)
(* not usable, until an authoritative recovery or enablement observed later *)
(* is admitted, whatever is admitted, evicted or lapses, and over restarts. *)
THEOREM FailureHolds == EvidenceSpec => []DurableFailureHolds
<1>1. ASSUME Records, FailureInv PROVE DurableFailureHolds
  <2>1. SUFFICES ASSUME NEW k \in Subjects, NEW policy \in Policies, failed_at[k] # 0,
                        policy.allow_same_generation_recovery => cleared_at[k] <= failed_at[k]
                 PROVE  /\ assess_switch(k, policy).fence_required
                        /\ ~assess_switch(k, policy).usable
    BY DEF DurableFailureHolds
  <2> DEFINE R == Fresh(k, "Authoritative", "recovery") \cup Fresh(k, "Authoritative", "enabled")
  <2>2. ASSUME policy.allow_same_generation_recovery PROVE Latest(R) <= entries_[k]
    <3>1. R \subseteq EvidenceRecord
      BY <1>1, FreshAreRecords
    <3>2. /\ Latest(R) \in Time
          /\ Latest(R) # 0 => \E r \in R : r.observed_at = Latest(R)
      BY <3>1, LatestIs, Zenon
    <3>3. \A r \in R : r.observed_at <= cleared_at[k]
      BY <1>1 DEF FailureInv, Fresh
    <3>4. cleared_at[k] <= entries_[k] /\ cleared_at[k] \in Nat /\ entries_[k] \in Nat
      BY <1>1, <2>1, <2>2 DEF FailureInv, Records, Time
    <3> HIDE DEF R
    <3>5. Latest(R) \in Nat /\ (Latest(R) # 0 => Latest(R) <= cleared_at[k])
      BY <3>2, <3>3 DEF Time
    <3> QED
      BY <3>4, <3>5
  <2>3. entries_[k] # 0 /\ entries_[k] \in Nat
    BY <1>1, <2>1 DEF FailureInv, Records, Time
  <2>4. DurableActive(k, policy)
    BY <2>2, <2>3 DEF DurableActive
  <2> QED
    BY <2>4 DEF assess_switch, Assessment
<1> QED
  BY <1>1, RecordsInvariant, FailureInvariant, PTL

(* assess_switch: a generation is usable exactly on an affirmative basis:   *)
(* the chain of early returns over the latest times of eight classes of     *)
(* evidence computes the contract on the records themselves.                *)
THEOREM UsableIsAffirmed == EvidenceSpec => []UsableIffAffirmed
<1>1. ASSUME Records PROVE UsableIffAffirmed
  <2> SUFFICES ASSUME NEW k \in Subjects, NEW policy \in Policies
               PROVE  LET F(claim) == Fresh(k, "Authoritative", claim)
                          Postdates(rs, ss) ==
                             \E r \in rs : \A s \in ss : s.observed_at < r.observed_at
                      IN  assess_switch(k, policy).usable <=>
                            /\ \/ entries_[k] = 0
                               \/ /\ policy.allow_same_generation_recovery
                                  /\ \E r \in F("recovery") \cup F("enabled") :
                                        r.observed_at > entries_[k]
                            /\ \/ Postdates(F("recovery"), F("bad"))
                               \/ /\ F("bad") = {}
                                  /\ F("good") # {}
                                  /\ \/ F("unavailable") = {}
                                     \/ Postdates(F("enabled"), F("unavailable"))
                                  /\ \/ policy.require_authoritative_failure_evidence
                                     \/ Fresh(k, "Advisory", "bad") = {}
    BY DEF UsableIffAffirmed
  <2> DEFINE F(claim) == Fresh(k, "Authoritative", claim)
             A(claim) == Latest(F(claim))
             B == Fresh(k, "Advisory", "bad")
             Postdates(rs, ss) == \E r \in rs : \A s \in ss : s.observed_at < r.observed_at
             R == F("recovery") \cup F("enabled")
             Standing == /\ entries_[k] # 0
                         /\ ~(policy.allow_same_generation_recovery /\
                               \E r \in R : r.observed_at > entries_[k])
  <2>1. \A claim : F(claim) \subseteq EvidenceRecord
    BY <1>1, FreshAreRecords
  <2>2. B \subseteq EvidenceRecord /\ R \subseteq EvidenceRecord
    BY <1>1, FreshAreRecords
  <2>3. entries_[k] \in Time /\ entries_[k] \in Nat
    BY <1>1 DEF Records, Time
  <2>4. DurableActive(k, policy) <=> Standing
    <3>1. Latest(R) > entries_[k] <=> \E r \in R : r.observed_at > entries_[k]
      BY <2>2, <2>3, LatestCompared
    <3>2. Latest(R) \in Nat
      BY <2>2, LatestIs DEF Time
    <3> QED
      BY <2>3, <3>1, <3>2 DEF DurableActive
  <2>5. /\ A("bad") = 0 <=> F("bad") = {}
        /\ A("good") = 0 <=> F("good") = {}
        /\ A("unavailable") = 0 <=> F("unavailable") = {}
        /\ A("recovery") = 0 <=> F("recovery") = {}
        /\ Latest(B) = 0 <=> B = {}
    BY <2>1, <2>2, LatestCompared
  <2>6. /\ A("recovery") > A("bad") <=> Postdates(F("recovery"), F("bad"))
        /\ A("enabled") > A("unavailable") <=> Postdates(F("enabled"), F("unavailable"))
    BY <2>1, LatestCompared
  <2>7. /\ A("bad") \in Nat /\ A("recovery") \in Nat /\ A("enabled") \in Nat
        /\ A("unavailable") \in Nat /\ A("good") \in Nat
    BY <2>1, LatestIs DEF Time
  <2> DEFINE Affirmed ==
               \/ A("recovery") > A("bad")
               \/ /\ A("bad") = 0 /\ A("recovery") = 0
                  /\ A("good") # 0
                  /\ A("unavailable") = 0 \/ A("enabled") > A("unavailable")
                  /\ policy.require_authoritative_failure_evidence \/ Latest(B) = 0
  <2>8. assess_switch(k, policy).usable <=> ~DurableActive(k, policy) /\ Affirmed
    BY <2>7 DEF assess_switch, Assessment
  <2>9. Affirmed <=>
           \/ Postdates(F("recovery"), F("bad"))
           \/ /\ F("bad") = {}
              /\ F("good") # {}
              /\ F("unavailable") = {} \/ Postdates(F("enabled"), F("unavailable"))
              /\ policy.require_authoritative_failure_evidence \/ B = {}
    <3> HIDE DEF F, A, B, Postdates
    <3>1. F("bad") = {} /\ F("recovery") # {} => Postdates(F("recovery"), F("bad"))
      BY DEF Postdates
    <3> QED
      BY <2>5, <2>6, <2>7, <3>1
  <2> QED
    BY <2>4, <2>8, <2>9
<1> QED
  BY <1>1, RecordsInvariant, PTL
=============================================================================
