------------------------------ MODULE Evidence ------------------------------
(***************************************************************************)
(* Evidence about switch generations and its adjudication: EvidenceStore,  *)
(* FailureTable and assess_switch of src/model/evidence.cpp, over time,    *)
(* eviction and restart.                                                   *)
(*                                                                         *)
(* A record is abstracted to what adjudication tells apart: the trust of   *)
(* its source, what it claims, when it was observed and how long it is     *)
(* valid.  "bad" stands for a failure declaration or a health observation  *)
(* of Failed, Unreachable or Suspect; "good" for Healthy or Degraded;      *)
(* "unavailable" and "enabled" for administrative declarations; "other"    *)
(* for kinds that do not adjudicate lifecycle.  Epoch, boot, detail and    *)
(* the lists of supporting identities are left out.                        *)
(***************************************************************************)
EXTENDS Integers, FiniteSets, FiniteSetsExt

CONSTANTS
    Subjects,              \* generation-qualified switches
    EvidenceIds,           \* identities; the order breaks ties of eviction
    Windows,               \* values of valid_for_ns
    Policies,              \* the AssessmentPolicy values in use
    EvidenceTimeMax,       \* bound on observation times and on the clock
    TimestampModulus,      \* timestamps wrap here: 2^64 in the code
    kPerSubjectRetention,
    max_evidence_records,  \* Limits::max_evidence_records
    kFutureSanityBoundNs,
    future_skew_tolerance_ns  \* AssessmentPolicy::future_skew_tolerance_ns

ASSUME EvidenceAssumption ==
    /\ EvidenceIds \subseteq Nat \ {0}
    /\ EvidenceTimeMax \in Nat \ {0}
    /\ TimestampModulus \in Nat /\ TimestampModulus > EvidenceTimeMax
    /\ Windows \subseteq 1..(TimestampModulus - 1)
    /\ Policies \subseteq
         [fence_on_authoritative_conflict : BOOLEAN, fence_on_missing_health : BOOLEAN,
          allow_same_generation_recovery : BOOLEAN,
          require_authoritative_failure_evidence : BOOLEAN]
    /\ kPerSubjectRetention \in Nat \ {0}
    /\ max_evidence_records \in Nat
    /\ kFutureSanityBoundNs \in Nat
    /\ future_skew_tolerance_ns \in Nat

VARIABLES
    by_subject_,  \* subject -> retained records
    entries_,     \* FailureTable: subject -> observation time of its failure, or 0
    now_ns,
    failed_at,    \* history: latest failure ever committed for the subject, or 0
    cleared_at    \* history: latest authoritative recovery or enablement admitted
                  \* for the subject in this incarnation, or 0

evidenceVars == <<by_subject_, entries_, now_ns, failed_at, cleared_at>>

Time == 0..EvidenceTimeMax

\* What a source of each trust may claim: an advisory source may not assert a
\* recovery declaration, and its administrative claims count as "other".
Claims(trust) ==
    CASE trust = "Authoritative" -> {"bad", "recovery", "good", "recovering",
                                     "unavailable", "enabled", "other"}
      [] trust = "Advisory" -> {"bad", "good", "recovering", "other"}
      [] OTHER -> {"other"}

EvidenceRecord ==
    UNION {[id : EvidenceIds, trust : {trust}, claim : Claims(trust),
            observed_at : 1..EvidenceTimeMax, valid_for : Windows] :
           trust \in {"Authoritative", "Advisory", "Untrusted"}}

EvidenceTypeOK ==
    /\ by_subject_ \in [Subjects -> SUBSET EvidenceRecord]
    /\ \A k \in Subjects : Cardinality(by_subject_[k]) <= kPerSubjectRetention
    /\ \A j, k \in Subjects : \A r \in by_subject_[j], s \in by_subject_[k] :
           r.id = s.id => j = k /\ r = s
    /\ entries_ \in [Subjects -> Time]
    /\ now_ns \in 1..EvidenceTimeMax
    /\ failed_at \in [Subjects -> Time]
    /\ cleared_at \in [Subjects -> Time]
-----------------------------------------------------------------------------
(* assess_switch. *)

\* observed + valid_for wraps; a wrapped expiry is never fresh.
expires_at(r) == (r.observed_at + r.valid_for) % TimestampModulus

fresh_at(r, t) ==
    /\ r.observed_at <= t
    /\ expires_at(r) >= r.observed_at
    /\ t <= expires_at(r)

Assessment(outcome, health, usable, fence_required) ==
    [outcome |-> outcome, health |-> health, usable |-> usable,
     fence_required |-> fence_required]

Fresh(k, trust, claim) ==
    {r \in by_subject_[k] : r.trust = trust /\ r.claim = claim /\ fresh_at(r, now_ns)}

\* The latest observation of a set of records, or 0.
Latest(records) == Max({0} \cup {r.observed_at : r \in records})

DurableActiveLoose(k, policy) ==
    LET recovery == IF policy.allow_same_generation_recovery
                    THEN Latest(Fresh(k, "Authoritative", "recovery") \cup
                                Fresh(k, "Authoritative", "enabled"))
                    ELSE 0
    IN  entries_[k] # 0 /\ recovery < entries_[k]

DurableActive(k, policy) ==
    LET recovery == IF policy.allow_same_generation_recovery
                    THEN Latest(Fresh(k, "Authoritative", "recovery") \cup
                                Fresh(k, "Authoritative", "enabled"))
                    ELSE 0
    IN  entries_[k] # 0 /\ recovery <= entries_[k]

assess_switch(k, policy) ==
    LET A(claim) == Latest(Fresh(k, "Authoritative", claim))
        D(claim) == Latest(Fresh(k, "Advisory", claim))
        missing == policy.fence_on_missing_health
        stale == \E r \in by_subject_[k] :
                     /\ r.trust # "Untrusted"
                     /\ ~fresh_at(r, now_ns)
                     /\ r.observed_at - now_ns <= future_skew_tolerance_ns
        recovering == A("recovering") # 0 \/ D("recovering") # 0
    IN  IF DurableActive(k, policy)
        THEN Assessment("Ok", "Failed", FALSE, TRUE)
        ELSE IF A("bad") # 0 /\ A("recovery") = A("bad")
        THEN Assessment("Conflict", "Unknown", FALSE, policy.fence_on_authoritative_conflict)
        ELSE IF A("recovery") > A("bad")
        THEN Assessment("Ok", "Healthy", TRUE, FALSE)
        ELSE IF A("bad") > A("recovery")
        THEN Assessment("Ok", "Failed", FALSE, TRUE)
        ELSE IF D("bad") # 0 /\ ~policy.require_authoritative_failure_evidence
        THEN Assessment("Ok", "Unreachable", FALSE, TRUE)
        ELSE IF A("unavailable") # 0 /\ A("unavailable") >= A("enabled")
        THEN Assessment("Ok", "Unknown", FALSE, FALSE)
        ELSE IF A("good") # 0
        THEN Assessment("Ok", "Healthy", TRUE, FALSE)
        ELSE IF D("bad") # 0
        THEN Assessment("Unknown", "Unreachable", FALSE, missing)
        ELSE IF D("good") # 0
        THEN Assessment("Unknown", "Healthy", FALSE, missing)
        ELSE IF stale
        THEN Assessment("Stale", "Unknown", FALSE, missing)
        ELSE Assessment("Unknown",
                        IF recovering /\ A("enabled") = 0 THEN "Recovering" ELSE "Unknown",
                        FALSE, missing)
-----------------------------------------------------------------------------
(* Operations. *)

Retained == UNION {by_subject_[k] : k \in Subjects}

\* Records are kept in the order of observation, identities breaking ties.
Older(r, s) ==
    r.observed_at < s.observed_at \/ (r.observed_at = s.observed_at /\ r.id < s.id)

\* The oldest record goes when the bucket is over its cap; it may be the new one.
Evict(records) ==
    IF Cardinality(records) <= kPerSubjectRetention THEN records
    ELSE {r \in records : \E s \in records : Older(s, r)}

\* The latest of a time and the observation of r, if r makes one of the claims.
Note(time, r, claims) ==
    IF r.trust = "Authoritative" /\ r.claim \in claims /\ r.observed_at > time
    THEN r.observed_at ELSE time

admit(k, r) ==
    /\ r.observed_at > now_ns => r.observed_at - now_ns <= kFutureSanityBoundNs
    /\ \A s \in Retained : s.id # r.id
    /\ Cardinality(Retained) < max_evidence_records
    /\ by_subject_' = [by_subject_ EXCEPT ![k] = Evict(@ \cup {r})]
    /\ cleared_at' = [cleared_at EXCEPT ![k] = Note(@, r, {"recovery", "enabled"})]
    /\ UNCHANGED <<entries_, now_ns, failed_at>>

RecordUnordered(k, t) ==
    /\ entries_' = [entries_ EXCEPT ![k] = t]
    /\ failed_at' = [failed_at EXCEPT ![k] = Max({@, t})]
    /\ UNCHANGED <<by_subject_, now_ns, cleared_at>>

\* FailureTable::record: a later failure on record is kept.
record(k, t) ==
    /\ entries_' = [entries_ EXCEPT ![k] = IF @ > t THEN @ ELSE t]
    /\ failed_at' = [failed_at EXCEPT ![k] = Max({@, t})]
    /\ UNCHANGED <<by_subject_, now_ns, cleared_at>>

\* A new incarnation: failure lineage is replayed, evidence is not restored.
EvidenceRestart ==
    /\ by_subject_' = [k \in Subjects |-> {}]
    /\ cleared_at' = [k \in Subjects |-> 0]
    /\ UNCHANGED <<entries_, now_ns, failed_at>>

EvidenceTick ==
    /\ now_ns < EvidenceTimeMax
    /\ now_ns' = now_ns + 1
    /\ UNCHANGED <<by_subject_, entries_, failed_at, cleared_at>>

EvidenceInit ==
    /\ by_subject_ = [k \in Subjects |-> {}]
    /\ entries_ = [k \in Subjects |-> 0]
    /\ now_ns = 1
    /\ failed_at = [k \in Subjects |-> 0]
    /\ cleared_at = [k \in Subjects |-> 0]

EvidenceNext ==
    \/ \E k \in Subjects, r \in EvidenceRecord : admit(k, r)
    \/ \E k \in Subjects, t \in 1..EvidenceTimeMax : record(k, t)
    \/ EvidenceRestart
    \/ EvidenceTick

EvidenceSpec == EvidenceInit /\ [][EvidenceNext]_evidenceVars
-----------------------------------------------------------------------------
(* Properties. *)

\* A generation committed as failed demands a fence and is not usable until an
\* authoritative recovery or enablement observed strictly later is admitted:
\* under every policy, whatever else is admitted, evicted or lapses, however many
\* failures are recorded in whatever order, and over restarts (evidence.hpp:104-107).
DurableFailureHolds ==
    \A k \in Subjects, policy \in Policies :
        /\ failed_at[k] # 0
        /\ policy.allow_same_generation_recovery => cleared_at[k] <= failed_at[k]
        => LET a == assess_switch(k, policy) IN a.fence_required /\ ~a.usable

\* A generation is usable exactly on an affirmative basis (evidence.hpp, comment
\* on SwitchAssessment::usable): no durable failure stands, and either a fresh
\* authoritative recovery declaration postdates every fresh authoritative
\* failure, or there is fresh authoritative good health, no fresh authoritative
\* failure, and no administrative withdrawal that no enablement postdates.  So,
\* where only authoritative evidence counts, another observation changes the
\* verdict only by evicting one that counts (evidence.cpp:12-13, 302).
UsableIffAffirmed ==
    \A k \in Subjects, policy \in Policies :
        LET F(claim) == Fresh(k, "Authoritative", claim)
            Postdates(rs, ss) == \E r \in rs : \A s \in ss : s.observed_at < r.observed_at
        IN  assess_switch(k, policy).usable <=>
              /\ \/ entries_[k] = 0
                 \/ /\ policy.allow_same_generation_recovery
                    /\ \E r \in F("recovery") \cup F("enabled") :
                           r.observed_at > entries_[k]
              /\ \/ Postdates(F("recovery"), F("bad"))
                 \/ /\ F("bad") = {}
                    /\ F("good") # {}
                    /\ F("unavailable") = {} \/ Postdates(F("enabled"), F("unavailable"))
                    /\ \/ policy.require_authoritative_failure_evidence
                       \/ Fresh(k, "Advisory", "bad") = {}
=============================================================================
