--------------------------- MODULE FailoverProofs ---------------------------
(* Machine-checked results about Failover: the fence-first promise, for any *)
(* generations, dependents, topologies, limits, failed appends and number   *)
(* of restarts.                                                             *)
EXTENDS Failover, TLAPS

(* The records that actions update field by field.                          *)
Shape ==
    /\ durable = [failures |-> durable.failures, fences |-> durable.fences,
                  plans |-> durable.plans, steps |-> durable.steps]
    /\ assured = [failures |-> assured.failures, fences |-> assured.fences]
    /\ pc \in {"down", "idle", "fencing", "applying", "completing"}
    /\ pc \in {"applying", "completing"} =>
          arg = [plan |-> arg.plan, remaining |-> arg.remaining, steps |-> arg.steps,
                 applied |-> arg.applied, failed |-> arg.failed]

(* Only a failed append damages the journal.                                *)
JournalSound == ~faulted => damage = "none"

(* Before an append fails, a fence in memory is on record, but for the one  *)
(* whose record is being written; a running coordinator has every fence on  *)
(* record in memory; what callers rely on is on record.                     *)
FencesOnRecord ==
    /\ ~faulted => \A k \in fences : k \in durable.fences \/ (pc = "fencing" /\ k = arg)
    /\ pc = "fencing" => arg \in fences
    /\ pc # "down" => durable.fences \subseteq fences
    /\ assured.fences \subseteq durable.fences

(* The same for failures, whose records are written before memory changes;  *)
(* a record that was refused may be in the journal and not in memory.       *)
FailuresOnRecord ==
    /\ pc # "down" => assured.failures \subseteq failures
    /\ assured.failures \subseteq durable.failures
    /\ pc = "fencing" => arg \in failures
    /\ ~faulted /\ pc = "fencing" => arg \in durable.failures

(* Active grants bind no generation fenced in memory, and none is left when *)
(* the process has stopped.                                                 *)
GrantsUnfenced ==
    /\ \A g \in grants : g.bound \cap fences = {}
    /\ pc = "down" => grants = {}

(* Before an append fails, the fences of a plan being applied are on record.*)
EffectsFenced ==
    /\ ~faulted /\ pc = "applying" => arg.plan.failed \subseteq durable.fences
    /\ FencedBeforeReconstruction

PipelineInv ==
    /\ Shape /\ JournalSound /\ FencesOnRecord /\ FailuresOnRecord /\ GrantsUnfenced
    /\ EffectsFenced

-----------------------------------------------------------------------------
(* The lineage that one more record makes of the journal's.                 *)
LEMMA Lineages ==
    ASSUME Shape
    PROVE  /\ \A k : WithFailure(k) = [failures |-> durable.failures \cup {k},
                                       fences |-> durable.fences,
                                       plans |-> durable.plans, steps |-> durable.steps]
           /\ \A k : WithFence(k) = [failures |-> durable.failures,
                                     fences |-> durable.fences \cup {k},
                                     plans |-> durable.plans, steps |-> durable.steps]
           /\ \A p : WithPlan(p) = [failures |-> durable.failures, fences |-> durable.fences,
                                    plans |-> IF Decodes(p) THEN Put(durable.plans, p.id, p)
                                              ELSE durable.plans,
                                    steps |-> durable.steps]
           /\ \A s : WithReceipt(s) = [failures |-> durable.failures, fences |-> durable.fences,
                                       plans |-> durable.plans,
                                       steps |-> Overlay(s, durable.steps)]
<1>1. ASSUME NEW k
      PROVE  WithFailure(k) = [failures |-> durable.failures \cup {k},
                               fences |-> durable.fences,
                               plans |-> durable.plans, steps |-> durable.steps]
  BY DEF Shape, WithFailure
<1>2. ASSUME NEW k
      PROVE  WithFence(k) = [failures |-> durable.failures, fences |-> durable.fences \cup {k},
                             plans |-> durable.plans, steps |-> durable.steps]
  BY DEF Shape, WithFence
<1>3. ASSUME NEW p
      PROVE  WithPlan(p) = [failures |-> durable.failures, fences |-> durable.fences,
                            plans |-> IF Decodes(p) THEN Put(durable.plans, p.id, p)
                                      ELSE durable.plans,
                            steps |-> durable.steps]
  BY DEF Shape, WithPlan
<1>4. ASSUME NEW s
      PROVE  WithReceipt(s) = [failures |-> durable.failures, fences |-> durable.fences,
                               plans |-> durable.plans, steps |-> Overlay(s, durable.steps)]
  BY DEF Shape, WithReceipt
<1> QED
  BY <1>1, <1>2, <1>3, <1>4, Zenon

(* An append that succeeds, and one that fails.                             *)
LEMMA AcceptedAppends ==
    ASSUME JournalSound, NEW lineage, Accepted(lineage)
    PROVE  /\ JournalSound' /\ faulted' = faulted
           /\ ~faulted => durable' = lineage
           /\ durable' = durable \/ (damage = "none" /\ durable' = lineage)
           /\ damage' = "none" => damage = "none" /\ durable' = lineage
BY DEF JournalSound, Accepted, Behind

LEMMA FailedAppends ==
    ASSUME NEW lineage, Failed(lineage)
    PROVE  /\ JournalSound' /\ faulted'
           /\ durable' = durable \/ (damage = "none" /\ durable' = lineage)
BY Zenon DEF JournalSound, Failed

(* Steps on which the lineage does not depend: authority changes, and the   *)
(* journal takes at most a record without fences and failures.              *)
LEMMA AuthorityKeeps ==
    ASSUME PipelineInv, Shape', JournalSound',
           UNCHANGED <<pc, arg, failures, fences, assured, issued>>,
           durable'.fences = durable.fences, durable'.failures = durable.failures,
           ~faulted' => ~faulted,
           \A g \in grants' : g \in grants \/ g.bound \cap fences = {},
           pc # "down"
    PROVE  PipelineInv'
BY Zenon DEF PipelineInv, FencesOnRecord, FailuresOnRecord, GrantsUnfenced, EffectsFenced,
             FencedBeforeReconstruction

(* install_policy and install_topology: a record of another kind, and       *)
(* authority only on paths without a fence.                                 *)
LEMMA InstallKeeps ==
    ASSUME PipelineInv, install_policy \/ \E t \in Topologies : install_topology(t)
    PROVE  PipelineInv'
<1>1. /\ UNCHANGED <<pc, arg, failures, fences, assured, issued>> /\ pc = "idle"
      /\ Accepted(durable) \/ Failed(durable)
  BY Zenon DEF install_policy, install_topology, Running, memory, history
<1>2. durable' = durable /\ JournalSound' /\ (~faulted' => ~faulted)
  BY <1>1, AcceptedAppends, FailedAppends, Zenon DEF PipelineInv
<1>3. \A g \in grants' : g \in grants \/ g.bound \cap fences = {}
  <2>1. CASE install_policy
    BY <2>1, Zenon DEF install_policy, memory
  <2>2. ASSUME NEW t \in Topologies, install_topology(t)
        PROVE  \A g \in grants' : g \in grants \/ g.bound \cap fences = {}
    <3>1. PICK granted :
             /\ granted \subseteq {d \in Dependents : t.paths[d] # {} /\ t.paths[d] \cap fences = {}}
             /\ grants' = grants \cup {[dependent |-> d, bound |-> t.paths[d]] : d \in granted}
      BY <2>2, Zenon DEF install_topology, kSubset
    <3> QED
      BY <3>1
  <2> QED
    BY <2>1, <2>2, Zenon
<1>4. Shape'
  BY <1>1, <1>2, Zenon DEF PipelineInv, Shape
<1> QED
  BY <1>1, <1>2, <1>3, <1>4, AuthorityKeeps, Zenon

(* declare_failure up to the record of the fence, and record_failure.       *)
LEMMA FailureKeeps ==
    ASSUME PipelineInv, NEW k \in Keys, record_failure(k) \/ declare_failure(k)
    PROVE  PipelineInv'
<1> USE DEF PipelineInv
<1>1. /\ Accepted(WithFailure(k))
      /\ failures' = failures \cup {k}
      /\ issued' = issued /\ pc = "idle"
      /\ grants' \subseteq grants
  BY Zenon DEF record_failure, declare_failure, CommitFailure, Running
<1>2. \/ UNCHANGED <<pc, arg, fences>> /\ Assure({k}, {})
      \/ k \in fences /\ UNCHANGED <<pc, arg, fences>> /\ Assure({k}, {k})
      \/ UNCHANGED <<pc, arg, fences, assured>>
      \/ /\ fences' = fences \cup {k} /\ pc' = "fencing" /\ arg' = k /\ assured' = assured
         /\ \A g \in grants' : k \notin g.bound
  BY DEF record_failure, declare_failure, CommitFailure, Acknowledge
<1>3. /\ JournalSound' /\ faulted' = faulted
      /\ ~faulted => durable' = WithFailure(k)
      /\ durable' = durable \/ durable' = WithFailure(k)
  BY <1>1, AcceptedAppends, Zenon
<1>4. /\ durable' = [failures |-> durable'.failures, fences |-> durable'.fences,
                     plans |-> durable'.plans, steps |-> durable'.steps]
      /\ durable'.fences = durable.fences
      /\ durable.failures \subseteq durable'.failures
      /\ ~faulted => k \in durable'.failures
  <2> DEFINE lineage == WithFailure(k)
  <2>1. /\ lineage = [failures |-> lineage.failures, fences |-> lineage.fences,
                      plans |-> lineage.plans, steps |-> lineage.steps]
        /\ lineage.fences = durable.fences /\ lineage.failures = durable.failures \cup {k}
    BY Lineages
  <2>2. durable = [failures |-> durable.failures, fences |-> durable.fences,
                   plans |-> durable.plans, steps |-> durable.steps]
    BY Zenon DEF Shape
  <2> HIDE DEF lineage
  <2> QED
    BY <1>3, <2>1, <2>2, Zenon DEF lineage
<1>5. /\ assured' = [failures |-> assured'.failures, fences |-> assured'.fences]
      /\ \/ UNCHANGED assured
         \/ /\ ~faulted
            /\ assured'.failures = assured.failures \cup {k}
            /\ \/ assured'.fences = assured.fences
               \/ k \in fences /\ assured'.fences = assured.fences \cup {k}
  BY <1>2 DEF Shape, Assure
<1>6. Shape'
  BY <1>1, <1>2, <1>4, <1>5, Zenon DEF Shape
<1>7. FencesOnRecord'
  BY <1>1, <1>2, <1>3, <1>4, <1>5, Zenon DEF FencesOnRecord
<1>8. FailuresOnRecord'
  BY <1>1, <1>2, <1>3, <1>4, <1>5, Zenon DEF FailuresOnRecord
<1>9. GrantsUnfenced'
  BY <1>1, <1>2, Zenon DEF GrantsUnfenced
<1>10. EffectsFenced'
  BY <1>1, <1>2, <1>3, <1>4, Zenon DEF EffectsFenced, FencedBeforeReconstruction
<1> QED
  BY <1>3, <1>6, <1>7, <1>8, <1>9, <1>10, Zenon

(* A failure whose record is not persisted: memory keeps its lineage, while *)
(* the journal may have the record.                                         *)
LEMMA FailureRefusedKeeps ==
    ASSUME PipelineInv, NEW k \in Keys, FailureRefused(k)
    PROVE  PipelineInv'
<1> USE DEF PipelineInv
<1>1. /\ Failed(WithFailure(k)) /\ pc = "idle"
      /\ UNCHANGED <<pc, arg, failures, fences, grants, assured, issued>>
  BY Zenon DEF FailureRefused, Running, history
<1>2. JournalSound' /\ faulted' /\ (durable' = durable \/ durable' = WithFailure(k))
  BY <1>1, FailedAppends, Zenon
<1>3. /\ durable' = [failures |-> durable'.failures, fences |-> durable'.fences,
                     plans |-> durable'.plans, steps |-> durable'.steps]
      /\ durable'.fences = durable.fences
      /\ durable.failures \subseteq durable'.failures
  <2> DEFINE lineage == WithFailure(k)
  <2>1. /\ lineage = [failures |-> lineage.failures, fences |-> lineage.fences,
                      plans |-> lineage.plans, steps |-> lineage.steps]
        /\ lineage.fences = durable.fences /\ lineage.failures = durable.failures \cup {k}
    BY Lineages
  <2>2. durable = [failures |-> durable.failures, fences |-> durable.fences,
                   plans |-> durable.plans, steps |-> durable.steps]
    BY Zenon DEF Shape
  <2> HIDE DEF lineage
  <2> QED
    BY <1>2, <2>1, <2>2, Zenon DEF lineage
<1>4. Shape'
  BY <1>1, <1>3, Zenon DEF Shape
<1> QED
  BY <1>1, <1>2, <1>3, <1>4, Zenon DEF FencesOnRecord, FailuresOnRecord, GrantsUnfenced,
                                       EffectsFenced, FencedBeforeReconstruction

(* The end of declare_failure: the record of the fence is accepted, and the *)
(* fence acknowledged, or it is refused.                                    *)
LEMMA FenceRecordKeeps ==
    ASSUME PipelineInv, FencePersisted \/ FenceRefused
    PROVE  PipelineInv'
<1> USE DEF PipelineInv
<1>1. /\ pc = "fencing" /\ pc' = "idle"
      /\ UNCHANGED <<failures, fences, grants, issued>>
      /\ \/ Accepted(WithFence(arg)) /\ Assure({arg}, {arg})
         \/ Failed(WithFence(arg)) /\ assured' = assured
  BY Zenon DEF FencePersisted, FenceRefused, Acknowledge, memory, history
<1>2. /\ JournalSound' /\ (~faulted' => ~faulted)
      /\ durable' = durable \/ durable' = WithFence(arg)
      /\ Accepted(WithFence(arg)) /\ ~faulted => durable' = WithFence(arg)
      /\ ~faulted' => durable' = WithFence(arg)
  <2>1. ASSUME Accepted(WithFence(arg))
        PROVE  /\ JournalSound' /\ (~faulted' => ~faulted)
               /\ durable' = durable \/ durable' = WithFence(arg)
               /\ ~faulted => durable' = WithFence(arg)
    BY <2>1, AcceptedAppends, Zenon
  <2>2. ASSUME Failed(WithFence(arg))
        PROVE  /\ JournalSound' /\ faulted'
               /\ durable' = durable \/ durable' = WithFence(arg)
    BY <2>2, FailedAppends, Zenon
  <2> QED
    BY <1>1, <2>1, <2>2, Zenon
<1>3. /\ durable' = [failures |-> durable'.failures, fences |-> durable'.fences,
                     plans |-> durable'.plans, steps |-> durable'.steps]
      /\ durable'.failures = durable.failures
      /\ durable.fences \subseteq durable'.fences /\ durable'.fences \subseteq durable.fences \cup {arg}
      /\ Accepted(WithFence(arg)) /\ ~faulted => arg \in durable'.fences
      /\ ~faulted' => arg \in durable'.fences
  <2> DEFINE lineage == WithFence(arg)
  <2>1. /\ lineage = [failures |-> lineage.failures, fences |-> lineage.fences,
                      plans |-> lineage.plans, steps |-> lineage.steps]
        /\ lineage.failures = durable.failures /\ lineage.fences = durable.fences \cup {arg}
    BY Lineages
  <2>2. durable = [failures |-> durable.failures, fences |-> durable.fences,
                   plans |-> durable.plans, steps |-> durable.steps]
    BY Zenon DEF Shape
  <2>3. /\ durable' = durable \/ durable' = lineage
        /\ Accepted(WithFence(arg)) /\ ~faulted => durable' = lineage
        /\ ~faulted' => durable' = lineage
    BY <1>2, Zenon
  <2> HIDE DEF lineage
  <2> QED
    BY <2>1, <2>2, <2>3, Zenon
<1>4. /\ assured' = [failures |-> assured'.failures, fences |-> assured'.fences]
      /\ \/ UNCHANGED assured
         \/ /\ ~faulted /\ Accepted(WithFence(arg))
            /\ assured'.failures = assured.failures \cup {arg}
            /\ assured'.fences = assured.fences \cup {arg}
  BY <1>1 DEF Shape, Assure
<1>5. Shape'
  BY <1>1, <1>3, <1>4, Zenon DEF Shape
<1>6. FencesOnRecord'
  BY <1>1, <1>2, <1>3, <1>4, Zenon DEF FencesOnRecord
<1>7. FailuresOnRecord'
  BY <1>1, <1>2, <1>3, <1>4, Zenon DEF FailuresOnRecord
<1>8. GrantsUnfenced' /\ EffectsFenced'
  BY <1>1, <1>2, <1>3, Zenon DEF GrantsUnfenced, EffectsFenced, FencedBeforeReconstruction
<1> QED
  BY <1>2, <1>5, <1>6, <1>7, <1>8, Zenon

(* The records of apply_plan, accepted or not, touch no fence and no        *)
(* failure.                                                                 *)
LEMMA PlanRecords ==
    ASSUME PipelineInv, NEW lineage,
           \/ lineage = durable
           \/ \E p : lineage = WithPlan(p)
           \/ \E s : lineage = WithReceipt(s),
           Accepted(lineage) \/ Failed(lineage)
    PROVE  /\ durable' = [failures |-> durable'.failures, fences |-> durable'.fences,
                          plans |-> durable'.plans, steps |-> durable'.steps]
           /\ durable'.fences = durable.fences /\ durable'.failures = durable.failures
           /\ JournalSound' /\ (~faulted' => ~faulted)
<1> USE DEF PipelineInv
<1>1. durable = [failures |-> durable.failures, fences |-> durable.fences,
                 plans |-> durable.plans, steps |-> durable.steps]
  BY Zenon DEF Shape
<1>2. /\ lineage = [failures |-> lineage.failures, fences |-> lineage.fences,
                    plans |-> lineage.plans, steps |-> lineage.steps]
      /\ lineage.fences = durable.fences /\ lineage.failures = durable.failures
  <2>1. CASE lineage = durable
    BY <1>1, <2>1, Zenon
  <2>2. ASSUME NEW p, lineage = WithPlan(p)
        PROVE  /\ lineage = [failures |-> lineage.failures, fences |-> lineage.fences,
                             plans |-> lineage.plans, steps |-> lineage.steps]
               /\ lineage.fences = durable.fences /\ lineage.failures = durable.failures
    BY <2>2, Lineages
  <2>3. ASSUME NEW s, lineage = WithReceipt(s)
        PROVE  /\ lineage = [failures |-> lineage.failures, fences |-> lineage.fences,
                             plans |-> lineage.plans, steps |-> lineage.steps]
               /\ lineage.fences = durable.fences /\ lineage.failures = durable.failures
    BY <2>3, Lineages
  <2> QED
    BY <2>1, <2>2, <2>3, Zenon
<1>3. JournalSound' /\ (~faulted' => ~faulted) /\ (durable' = durable \/ durable' = lineage)
  BY AcceptedAppends, FailedAppends, Zenon
<1> QED
  BY <1>1, <1>2, <1>3, Zenon

(* apply_plan up to the write-ahead record: a plan that goes ahead is valid *)
(* now, so the generations it covers are fenced, and no fence is half made. *)
LEMMA ApplyPlanKeeps ==
    ASSUME PipelineInv, NEW id \in PlanIds, apply_plan(id)
    PROVE  PipelineInv'
<1> USE DEF PipelineInv
<1> DEFINE written == WithPlan(WithState(plans[id], "Applying"))
<1>1. /\ pc = "idle"
      /\ UNCHANGED <<failures, fences, grants, assured, issued>>
  BY Zenon DEF apply_plan, Running, history
<1>2. \/ UNCHANGED <<journal, pc, arg>>
      \/ (Accepted(durable) \/ Failed(durable)) /\ UNCHANGED <<pc, arg>>
      \/ Failed(written) /\ UNCHANGED <<pc, arg>>
      \/ Accepted(written) /\ ApplyBegins(plans[id])
  BY Zenon DEF apply_plan, ApplyRejects, ApplyNothing, ApplyRefused, ApplyBegins
<1>3. /\ durable' = [failures |-> durable'.failures, fences |-> durable'.fences,
                     plans |-> durable'.plans, steps |-> durable'.steps]
      /\ durable'.fences = durable.fences /\ durable'.failures = durable.failures
      /\ JournalSound' /\ (~faulted' => ~faulted)
  <2>1. CASE UNCHANGED journal
    BY <2>1, Zenon DEF journal, Shape, JournalSound
  <2>2. CASE Accepted(durable) \/ Failed(durable)
    BY <2>2, PlanRecords, Zenon
  <2>3. CASE Accepted(written) \/ Failed(written)
    <3>1. \E p : written = WithPlan(p)
      BY Zenon
    <3> HIDE DEF written
    <3> QED
      BY <2>3, <3>1, PlanRecords, Zenon
  <2> QED
    BY <1>2, <2>1, <2>2, <2>3, Zenon
<1>4. CASE UNCHANGED <<pc, arg>>
  <2>1. Shape'
    BY <1>1, <1>3, <1>4, Zenon DEF Shape
  <2> QED
    BY <1>1, <1>3, <1>4, <2>1, AuthorityKeeps, Zenon
<1>5. CASE ApplyBegins(plans[id])
  <2>1. /\ pc' = "applying"
        /\ arg' = [plan |-> plans[id], remaining |-> plans[id].restores, steps |-> Empty,
                   applied |-> 0, failed |-> 0]
        /\ plans[id].failed \subseteq fences
    BY <1>5, Zenon DEF ApplyBegins, Valid
  <2>2. Shape'
    BY <1>1, <1>3, <2>1, Zenon DEF Shape
  <2>3. FencesOnRecord' /\ FailuresOnRecord' /\ GrantsUnfenced'
    BY <1>1, <1>3, <2>1, Zenon DEF FencesOnRecord, FailuresOnRecord, GrantsUnfenced
  <2>4. arg'.plan = plans[id]
    BY <2>1
  <2>5. EffectsFenced'
    BY <1>1, <1>3, <2>1, <2>4, Zenon DEF EffectsFenced, FencedBeforeReconstruction, FencesOnRecord
  <2> QED
    BY <1>3, <2>2, <2>3, <2>5, Zenon
<1> QED
  BY <1>2, <1>4, <1>5, Zenon

(* One restore step mints authority only on generations without a fence.    *)
LEMMA ApplyStepKeeps ==
    ASSUME PipelineInv, ApplyStep
    PROVE  PipelineInv'
<1> USE DEF PipelineInv
<1>1. /\ pc = "applying"
      /\ UNCHANGED <<durable, damage, faulted, pc, failures, fences, assured>>
  BY Zenon DEF ApplyStep, journal
<1> DEFINE applied(step) == Admissible(step) /\ Grantable(Hops(step))
           outcome(step) == Put(arg.steps, <<step.dependent, Replacement(step)>>,
                                IF applied(step) THEN "Applied" ELSE "Failed")
<1>2. PICK step \in arg.remaining :
         arg' = [arg EXCEPT !.remaining = arg.remaining \ {step},
                            !.steps = outcome(step),
                            !.applied = arg.applied + (IF applied(step) THEN 1 ELSE 0),
                            !.failed = arg.failed + (IF applied(step) THEN 0 ELSE 1)]
  BY Zenon DEF ApplyStep
<1> HIDE DEF applied, outcome
<1>3. \A g \in grants' : g \in grants \/ g.bound \cap fences = {}
  BY DEF ApplyStep, Grantable
<1>4. \A i \in issued' : i \in issued \/ (i.plan = arg.plan /\ i.faulted = faulted)
  <2>1. issued' = issued \/ issued' = issued \cup {[plan |-> arg.plan, faulted |-> faulted]}
    BY Zenon DEF ApplyStep
  <2> QED
    BY <2>1
<1>5. arg'.plan = arg.plan
  BY <1>1, <1>2, Zenon DEF Shape
<1>6. Shape'
  BY <1>1, <1>2, Zenon DEF Shape
<1>7. EffectsFenced'
  BY <1>1, <1>4, <1>5, Zenon DEF EffectsFenced, FencedBeforeReconstruction
<1> QED
  BY <1>1, <1>3, <1>6, <1>7, Zenon DEF JournalSound, FencesOnRecord, FailuresOnRecord,
                                       GrantsUnfenced

(* The receipt and the final record of the plan, accepted or not.           *)
LEMMA RecordsKeep ==
    ASSUME PipelineInv, ReceiptPersisted \/ ReceiptRefused \/ ApplyCompleted \/ CompletionRefused
    PROVE  PipelineInv'
<1> USE DEF PipelineInv
<1>1. /\ pc \in {"applying", "completing"}
      /\ pc' = "idle" \/ (pc' = "completing" /\ arg' = arg)
      /\ UNCHANGED <<failures, fences, grants, assured, issued>>
  BY Zenon DEF ReceiptPersisted, ReceiptRefused, ApplyCompleted, CompletionRefused, memory, history
<1>2. PICK lineage : /\ lineage = WithPlan(FinalPlan) \/ lineage = WithReceipt(arg.steps)
                     /\ Accepted(lineage) \/ Failed(lineage)
  BY Zenon DEF ReceiptPersisted, ReceiptRefused, ApplyCompleted, CompletionRefused
<1>3. /\ durable' = [failures |-> durable'.failures, fences |-> durable'.fences,
                     plans |-> durable'.plans, steps |-> durable'.steps]
      /\ durable'.fences = durable.fences /\ durable'.failures = durable.failures
      /\ JournalSound' /\ (~faulted' => ~faulted)
  BY <1>2, PlanRecords, Zenon
<1>4. Shape'
  BY <1>1, <1>3, Zenon DEF Shape
<1> QED
  BY <1>1, <1>3, <1>4, Zenon DEF FencesOnRecord, FailuresOnRecord, GrantsUnfenced, EffectsFenced,
                                 FencedBeforeReconstruction

(* A crash or a shutdown loses memory, and open rebuilds the lineage from   *)
(* the journal.                                                             *)
LEMMA RestartKeeps ==
    ASSUME PipelineInv, Crash \/ shutdown \/ open
    PROVE  PipelineInv'
<1>1. CASE Crash \/ shutdown
  <2>1. Lost /\ durable' = durable /\ JournalSound' /\ (~faulted' => ~faulted)
    <3>1. CASE Crash
      BY <3>1, Zenon DEF Crash, journal, PipelineInv, JournalSound
    <3>2. CASE shutdown
      BY <3>2, AcceptedAppends, FailedAppends, Zenon DEF shutdown, PipelineInv
    <3> QED
      BY <1>1, <3>1, <3>2, Zenon
  <2> QED
    BY <2>1, Zenon DEF Lost, history, PipelineInv, Shape, FencesOnRecord, FailuresOnRecord,
              GrantsUnfenced, EffectsFenced, FencedBeforeReconstruction
<1>2. CASE open
  BY <1>2, Zenon DEF open, Replay, history, PipelineInv, Shape, JournalSound, FencesOnRecord,
              FailuresOnRecord, GrantsUnfenced, EffectsFenced, FencedBeforeReconstruction
<1> QED
  BY <1>1, <1>2, Zenon

(* The pipeline invariant holds in every reachable state, over any number   *)
(* of crashes, restarts and failed appends.                                 *)
THEOREM PipelineInvariant == Spec => []PipelineInv
<1>1. Init => PipelineInv
  BY DEF Init, PipelineInv, Shape, JournalSound, FencesOnRecord, FailuresOnRecord,
         GrantsUnfenced, EffectsFenced, FencedBeforeReconstruction
<1>2. ASSUME PipelineInv, [Next]_vars PROVE PipelineInv'
  <2>1. CASE install_policy \/ \E t \in Topologies : install_topology(t)
    BY <1>2, <2>1, InstallKeeps, Zenon
  <2>2. ASSUME NEW d \in Dependents, NEW bound \in Bounds, establish_authority(d, bound)
        PROVE  PipelineInv'
    <3>1. \A g \in grants' : g \in grants \/ g.bound \cap fences = {}
      BY <2>2 DEF establish_authority, Grantable
    <3>2. UNCHANGED <<journal, pc, arg, failures, fences, assured, issued>> /\ pc = "idle"
      BY <2>2, Zenon DEF establish_authority, Running, history
    <3>3. Shape' /\ JournalSound' /\ UNCHANGED <<durable, faulted>>
      BY <1>2, <3>2, Zenon DEF PipelineInv, Shape, JournalSound, journal
    <3> QED
      BY <1>2, <3>1, <3>2, <3>3, AuthorityKeeps, Zenon
  <2>3. ASSUME \/ \E d \in Dependents : withdraw_authority(d)
               \/ Lapse
               \/ install_candidates
               \/ \E report \in Reports : admit_evidence(report[1], report[2])
               \/ \E failed \in Targets, limited \in BOOLEAN, fits \in Fits :
                     propose_plan(failed, limited, fits)
               \/ \E id \in PlanIds, d \in Dependents, verdict \in {"Verified", "Failed"} :
                     record_effect_verification(id, d, verdict)
        PROVE  PipelineInv'
    <3>1. /\ UNCHANGED <<journal, pc, arg, failures, fences, assured, issued>>
          /\ pc # "down"
          /\ \A g \in grants' : g \in grants
      BY <2>3, Zenon DEF withdraw_authority, Lapse, install_candidates, admit_evidence,
                         propose_plan, record_effect_verification, Running, history
    <3>2. Shape' /\ JournalSound' /\ UNCHANGED <<durable, faulted>>
      BY <1>2, <3>1, Zenon DEF PipelineInv, Shape, JournalSound, journal
    <3> QED
      BY <1>2, <3>1, <3>2, AuthorityKeeps, Zenon
  <2>4. ASSUME NEW k \in Keys, record_failure(k) \/ declare_failure(k) PROVE PipelineInv'
    BY <1>2, <2>4, FailureKeeps, Zenon
  <2>5. ASSUME NEW k \in Keys, FailureRefused(k) PROVE PipelineInv'
    BY <1>2, <2>5, FailureRefusedKeeps, Zenon
  <2>6. CASE FencePersisted \/ FenceRefused
    BY <1>2, <2>6, FenceRecordKeeps, Zenon
  <2>7. ASSUME NEW id \in PlanIds, apply_plan(id) PROVE PipelineInv'
    BY <1>2, <2>7, ApplyPlanKeeps, Zenon
  <2>8. CASE ApplyStep
    BY <1>2, <2>8, ApplyStepKeeps, Zenon
  <2>9. CASE ReceiptPersisted \/ ReceiptRefused \/ ApplyCompleted \/ CompletionRefused
    BY <1>2, <2>9, RecordsKeep, Zenon
  <2>10. CASE Crash \/ shutdown \/ open
    BY <1>2, <2>10, RestartKeeps, Zenon
  <2>11. CASE UNCHANGED vars
    BY <1>2, <2>11, Zenon DEF vars, journal, memory, history, PipelineInv, Shape, JournalSound,
                       FencesOnRecord, FailuresOnRecord, GrantsUnfenced, EffectsFenced,
                       FencedBeforeReconstruction
  <2> QED
    BY <1>2, <2>1, <2>2, <2>3, <2>4, <2>5, <2>6, <2>7, <2>8, <2>9, <2>10, <2>11, Zenon
       DEF Next
<1> QED
  BY <1>1, <1>2, PTL DEF Spec

-----------------------------------------------------------------------------
(* A fence acknowledged by declare_failure before an append failed is in    *)
(* force in every later incarnation, whatever appends fail afterwards.      *)
THEOREM FencesSurvive == Spec => []AcknowledgedFencesHold
<1>1. PipelineInv => AcknowledgedFencesHold
  BY Zenon DEF PipelineInv, FencesOnRecord, AcknowledgedFencesHold
<1> QED
  BY <1>1, PipelineInvariant, PTL

(* No active authority binds a fenced generation or one whose fence was     *)
(* acknowledged, whatever topologies, grants and plans come after it.       *)
THEOREM FencedCarryNothing == Spec => []NoAuthorityBehindFence
<1>1. ASSUME PipelineInv PROVE NoAuthorityBehindFence
  <2>1. SUFFICES ASSUME NEW g \in grants PROVE g.bound \cap (fences \cup assured.fences) = {}
    BY Zenon DEF NoAuthorityBehindFence
  <2>2. pc # "down"
    BY <1>1, <2>1, Zenon DEF PipelineInv, GrantsUnfenced
  <2>3. assured.fences \subseteq fences
    BY <1>1, <2>2, Zenon DEF PipelineInv, FencesOnRecord
  <2> QED
    BY <1>1, <2>3, Zenon DEF PipelineInv, GrantsUnfenced
<1> QED
  BY <1>1, PipelineInvariant, PTL

(* evaluate_restore never lets service back onto a failure acknowledged     *)
(* before an append failed, without fresh evidence of a recovery.           *)
THEOREM RestoresAvoidFailures == Spec => []RestoreAvoidsFailures
<1>1. ASSUME PipelineInv PROVE RestoreAvoidsFailures
  <2>1. SUFFICES ASSUME NEW d \in Dependents, NEW k \in assured.failures,
                        evaluate_restore(d).may_restore, k \in Bound(d)
                 PROVE  evidence[k] = "recovery" /\ k \notin assured.fences
    BY Zenon DEF RestoreAvoidsFailures
  <2>2. Blocking(d) = {} /\ HasAuthority(d)
    BY <2>1, Zenon DEF evaluate_restore
  <2>3. pc # "down"
    BY <1>1, <2>2, Zenon DEF HasAuthority, PipelineInv, GrantsUnfenced
  <2>4. k \notin fences /\ ~fence_required(k)
    BY <2>1, <2>2, Zenon DEF Blocking
  <2>5. k \in failures
    BY <1>1, <2>1, <2>3, Zenon DEF PipelineInv, FailuresOnRecord
  <2>6. assured.fences \subseteq fences
    BY <1>1, <2>3, Zenon DEF PipelineInv, FencesOnRecord
  <2> QED
    BY <2>4, <2>5, <2>6, Zenon DEF fence_required
<1> QED
  BY <1>1, PipelineInvariant, PTL

(* Until an append fails, apply_plan mints authority only when every        *)
(* generation it reconstructs has its fence in the journal, for good.       *)
THEOREM FencedFirst == Spec => []FencedBeforeReconstruction
<1>1. PipelineInv => FencedBeforeReconstruction
  BY Zenon DEF PipelineInv, EffectsFenced
<1> QED
  BY <1>1, PipelineInvariant, PTL

-----------------------------------------------------------------------------
(* Write-ahead.  Plans are records whose identity, epoch and restores no    *)
(* step changes; an identity is used for one plan in an epoch, although it  *)
(* is used again in the next one.                                           *)
IsPlan(p) ==
    /\ p = [id |-> p.id, epoch |-> p.epoch, topology |-> p.topology, failed |-> p.failed,
            restores |-> p.restores, feasibility |-> p.feasibility, fits |-> p.fits,
            state |-> p.state]
    /\ p.id \in Nat /\ p.epoch \in Nat

(* Plans that took effect, that decode, and that were written to a journal  *)
(* no append had failed on.                                                 *)
Written == {i.plan : i \in {j \in issued : ~j.faulted /\ Decodes(j.plan)}}

Lineal(f) == \A id \in DOMAIN f : IsPlan(f[id]) /\ f[id].id = id /\ f[id].epoch <= epoch

Agrees(f) ==
    \A p \in Written :
        p.id \in DOMAIN f /\ f[p.id].epoch = p.epoch => f[p.id].restores = p.restores

StepKey(step) == <<step.dependent, Replacement(step)>>

(* The plan being applied is in memory as Applying, and in the journal when *)
(* that is sound and the plan decodes; the outcome of each of its steps is  *)
(* to come, in the receipt, or durable.                                     *)
InFlight ==
    pc \in {"applying", "completing"} =>
        /\ IsPlan(arg.plan) /\ arg.plan.epoch = epoch /\ arg.plan.id < next_plan
        /\ arg.plan.id \in DOMAIN plans /\ plans[arg.plan.id] = WithState(arg.plan, "Applying")
        /\ damage = "none" /\ Decodes(arg.plan) =>
              /\ arg.plan.id \in DOMAIN durable.plans
              /\ durable.plans[arg.plan.id] = WithState(arg.plan, "Applying")
        /\ \A step \in arg.plan.restores :
              IF pc = "applying"
              THEN step \in arg.remaining \/ StepKey(step) \in DOMAIN arg.steps
              ELSE damage = "none" => StepKey(step) \in DOMAIN durable.steps

Numbered ==
    /\ epoch \in Nat /\ next_plan \in Nat
    /\ \A id \in DOMAIN plans : plans[id].epoch = epoch => id < next_plan
    /\ \A p \in Written :
          /\ p.id \in Nat /\ p.epoch \in Nat /\ p.epoch <= epoch
          /\ pc # "down" /\ p.epoch = epoch => p.id < next_plan

WriteAheadInv ==
    Lineal(plans) /\ Lineal(durable.plans) /\ Agrees(plans) /\ Numbered /\ InFlight
    /\ EffectIsWrittenAhead

(* A plan that changes state remains the same plan.                         *)
LEMMA StateChange ==
    ASSUME NEW p, IsPlan(p), NEW s
    PROVE  /\ IsPlan(WithState(p, s))
           /\ WithState(p, s).id = p.id /\ WithState(p, s).epoch = p.epoch
           /\ WithState(p, s).restores = p.restores /\ WithState(p, s).state = s
           /\ Decodes(WithState(p, s)) <=> Decodes(p)
BY DEF IsPlan, WithState, Decodes

(* The order of epochs, which open raises by one.                           *)
LEMMA Order ==
    \A x, e \in Nat : e <= e /\ e >= e /\ (x <= e => x <= e + 1 /\ x # e + 1)
OBVIOUS

(* Identities and epochs of plans are numbers.                              *)
LEMMA PlanNumbers ==
    ASSUME NEW p, IsPlan(p)
    PROVE  p.id \in Nat /\ p.epoch \in Nat
BY Zenon DEF IsPlan

(* What EffectIsWrittenAhead says of one plan, for the records ps of plans  *)
(* and ss of step outcomes.                                                 *)
OnRecord(p, ps, ss) ==
    /\ p.id \in DOMAIN ps
    /\ ps[p.id].epoch = p.epoch =>
          /\ ps[p.id].restores = p.restores
          /\ \/ ps[p.id].state = "Applying"
             \/ /\ ps[p.id].state \in {"Applied", "PartiallyApplied", "Failed"}
                /\ \A step \in ps[p.id].restores : StepKey(step) \in DOMAIN ss

(* EffectIsWrittenAhead, plan by plan, before and after a step.             *)
LEMMA WrittenAheadPlanwise ==
    /\ EffectIsWrittenAhead <=> \A p \in Written : OnRecord(p, durable.plans, durable.steps)
    /\ EffectIsWrittenAhead' <=> \A p \in Written' : OnRecord(p, durable'.plans, durable'.steps)
BY Zenon DEF EffectIsWrittenAhead, OnRecord, StepKey, Written

(* Without new authority, the same plans are written.                       *)
LEMMA SameWritten ==
    ASSUME UNCHANGED issued
    PROVE  Written' = Written
BY Zenon DEF Written

(* Steps outside apply_plan: memory's plans change state, go, or are joined *)
(* by a plan of a new identity; plans on record do not change.              *)
LEMMA PlansKeep ==
    ASSUME WriteAheadInv, pc = "idle" \/ pc = "fencing",
           pc' = "idle" \/ pc' = "fencing",
           durable'.plans = durable.plans, durable'.steps = durable.steps,
           UNCHANGED epoch, Written' = Written, next_plan' \in Nat, next_plan' >= next_plan,
           \A id \in DOMAIN plans' :
              \/ /\ IsPlan(plans'[id]) /\ plans'[id].id = id /\ plans'[id].epoch = epoch
                 /\ id >= next_plan /\ id < next_plan'
              \/ /\ id \in DOMAIN plans
                 /\ IsPlan(plans'[id]) /\ plans'[id].id = id
                 /\ plans'[id].epoch = plans[id].epoch
                 /\ plans'[id].restores = plans[id].restores
    PROVE  WriteAheadInv'
<1> USE DEF WriteAheadInv
<1>0. epoch \in Nat /\ next_plan \in Nat
  BY Zenon DEF Numbered
<1>1. Lineal(plans)' /\ Lineal(durable.plans)'
  <2>1. ASSUME NEW id \in DOMAIN plans'
        PROVE  IsPlan(plans'[id]) /\ plans'[id].id = id /\ plans'[id].epoch <= epoch
    BY <1>0 DEF Lineal
  <2>2. Lineal(plans)'
    BY <2>1, Zenon DEF Lineal
  <2>3. Lineal(durable.plans)'
    BY Zenon DEF Lineal
  <2> QED
    BY <2>2, <2>3, Zenon
<1>2. Agrees(plans)'
  <2>1. SUFFICES ASSUME NEW p \in Written, p.id \in DOMAIN plans', plans'[p.id].epoch = p.epoch
                 PROVE  plans'[p.id].restores = p.restores
    BY Zenon DEF Agrees
  <2>2. p.epoch = epoch => p.id < next_plan /\ p.id \in Nat
    BY Zenon DEF Numbered
  <2>3. p.id \in DOMAIN plans /\ plans'[p.id].epoch = plans[p.id].epoch
        /\ plans'[p.id].restores = plans[p.id].restores
    BY <1>0, <2>1, <2>2
  <2> QED
    BY <2>1, <2>3, Zenon DEF Agrees
<1>3. Numbered'
  <2>1. ASSUME NEW id \in DOMAIN plans', plans'[id].epoch = epoch
        PROVE  id < next_plan'
    <3>1. id \in Nat
      BY PlanNumbers, Zenon
    <3>2. CASE id \in DOMAIN plans /\ plans'[id].epoch = plans[id].epoch
      BY <1>0, <2>1, <3>1, <3>2 DEF Numbered
    <3> QED
      BY <3>2, Zenon
  <2>2. ASSUME NEW p \in Written
        PROVE  /\ p.id \in Nat /\ p.epoch \in Nat /\ p.epoch <= epoch
               /\ p.epoch = epoch => p.id < next_plan'
    <3>1. /\ p.id \in Nat /\ p.epoch \in Nat /\ p.epoch <= epoch
          /\ p.epoch = epoch => p.id < next_plan
      BY Zenon DEF Numbered
    <3> QED
      BY <1>0, <3>1
  <2> QED
    BY <1>0, <2>1, <2>2, Zenon DEF Numbered
<1>4. InFlight'
  BY Zenon DEF InFlight
<1>5. EffectIsWrittenAhead'
  BY WrittenAheadPlanwise, Zenon
<1> QED
  BY <1>1, <1>2, <1>3, <1>4, <1>5, Zenon

(* The plans a failure supersedes change state and nothing else.            *)
LEMMA SupersedeKeeps ==
    ASSUME Lineal(plans), NEW k
    PROVE  /\ DOMAIN Superseded(k) = DOMAIN plans
           /\ \A id \in DOMAIN plans :
                 /\ IsPlan(Superseded(k)[id]) /\ Superseded(k)[id].id = id
                 /\ Superseded(k)[id].epoch = plans[id].epoch
                 /\ Superseded(k)[id].restores = plans[id].restores
<1>1. ASSUME NEW id \in DOMAIN plans
      PROVE  Superseded(k)[id] = plans[id]
             \/ Superseded(k)[id] = WithState(plans[id], "Superseded")
  BY Zenon DEF Superseded, WithState
<1>2. ASSUME NEW id \in DOMAIN plans
      PROVE  IsPlan(plans[id]) /\ plans[id].id = id
  BY Zenon DEF Lineal
<1>3. DOMAIN Superseded(k) = DOMAIN plans
  BY Zenon DEF Superseded
<1>4. ASSUME NEW id \in DOMAIN plans
      PROVE  /\ IsPlan(Superseded(k)[id]) /\ Superseded(k)[id].id = id
             /\ Superseded(k)[id].epoch = plans[id].epoch
             /\ Superseded(k)[id].restores = plans[id].restores
  <2> DEFINE q == WithState(plans[id], "Superseded")
  <2>1. IsPlan(q) /\ q.id = id /\ q.epoch = plans[id].epoch /\ q.restores = plans[id].restores
    BY <1>2, StateChange
  <2> HIDE DEF q
  <2>2. Superseded(k)[id] = plans[id] \/ Superseded(k)[id] = q
    BY <1>1, Zenon DEF q
  <2> QED
    BY <1>2, <2>1, <2>2, Zenon
<1> QED
  BY <1>3, <1>4, Zenon

(* propose_plan: the plan has a new identity, and making room only drops    *)
(* plans.                                                                   *)
LEMMA ProposeKeeps ==
    ASSUME WriteAheadInv, NEW failed \in Targets, NEW limited \in BOOLEAN,
           NEW fits \in Fits, propose_plan(failed, limited, fits)
    PROVE  WriteAheadInv'
<1> USE DEF WriteAheadInv
<1>1. /\ pc = "idle" /\ next_plan \in Nat /\ epoch \in Nat /\ next_plan' = next_plan + 1
      /\ UNCHANGED <<durable, epoch, pc, arg, issued>> /\ Written' = Written
  BY SameWritten, Zenon DEF propose_plan, Running, journal, history, Numbered
<1>2. PICK restores, feasibility :
         LET plan == [id |-> next_plan, epoch |-> epoch, topology |-> topology[1],
                      failed |-> failed, restores |-> restores, feasibility |-> feasibility,
                      fits |-> fits, state |-> "Validated"]
         IN  \/ plans' = Put(Evicted, next_plan, plan)
             \/ plans' = Put(plans, next_plan, WithState(plan, "Rejected"))
  BY Zenon DEF propose_plan, WithState
<1> DEFINE plan == [id |-> next_plan, epoch |-> epoch, topology |-> topology[1],
                    failed |-> failed, restores |-> restores, feasibility |-> feasibility,
                    fits |-> fits, state |-> "Validated"]
<1>3. IsPlan(plan) /\ plan.id = next_plan /\ plan.epoch = epoch
  BY <1>1, Zenon DEF IsPlan
<1>4. \E f : /\ DOMAIN f \subseteq DOMAIN plans
             /\ \A id \in DOMAIN f : f[id] = plans[id]
             /\ plans' = Put(f, next_plan, plan) \/ plans' = Put(f, next_plan, WithState(plan, "Rejected"))
  <2>1. DOMAIN Evicted \subseteq DOMAIN plans /\ \A id \in DOMAIN Evicted : Evicted[id] = plans[id]
    BY Zenon DEF Evicted, Restrict
  <2> QED
    BY <1>2, <2>1, Zenon
<1> HIDE DEF plan
<1>5. \A id \in DOMAIN plans' :
         \/ id = next_plan /\ (plans'[id] = plan \/ plans'[id] = WithState(plan, "Rejected"))
         \/ id \in DOMAIN plans /\ plans'[id] = plans[id]
  BY <1>4, Zenon DEF Put
<1>6. \A id \in DOMAIN plans' :
         \/ /\ IsPlan(plans'[id]) /\ plans'[id].id = id /\ plans'[id].epoch = epoch
            /\ id >= next_plan /\ id < next_plan'
         \/ /\ id \in DOMAIN plans
            /\ IsPlan(plans'[id]) /\ plans'[id].id = id
            /\ plans'[id].epoch = plans[id].epoch
            /\ plans'[id].restores = plans[id].restores
  <2> DEFINE q == WithState(plan, "Rejected")
  <2>1. IsPlan(q) /\ q.id = next_plan /\ q.epoch = epoch
    BY <1>3, StateChange, Zenon
  <2> HIDE DEF q
  <2> SUFFICES ASSUME NEW id \in DOMAIN plans'
               PROVE  \/ /\ IsPlan(plans'[id]) /\ plans'[id].id = id /\ plans'[id].epoch = epoch
                         /\ id >= next_plan /\ id < next_plan'
                      \/ /\ id \in DOMAIN plans
                         /\ IsPlan(plans'[id]) /\ plans'[id].id = id
                         /\ plans'[id].epoch = plans[id].epoch
                         /\ plans'[id].restores = plans[id].restores
    BY Zenon
  <2>2. CASE id = next_plan /\ (plans'[id] = plan \/ plans'[id] = q)
    BY <1>1, <1>3, <2>1, <2>2
  <2>3. CASE id \in DOMAIN plans /\ plans'[id] = plans[id]
    BY <2>3, Zenon DEF Lineal
  <2> QED
    BY <1>5, <2>2, <2>3, Zenon DEF q
<1>7. /\ durable'.plans = durable.plans /\ durable'.steps = durable.steps
      /\ pc' = "idle" /\ next_plan' \in Nat /\ next_plan' >= next_plan
  BY <1>1
<1> QED
  BY <1>1, <1>6, <1>7, PlansKeep, Zenon

(* record_failure and both parts of declare_failure, their records accepted *)
(* or not: plans are superseded or left alone.                              *)
LEMMA FailureKeepsPlans ==
    ASSUME PipelineInv, WriteAheadInv,
           \/ \E k \in Keys : record_failure(k) \/ declare_failure(k) \/ FailureRefused(k)
           \/ FencePersisted \/ FenceRefused
    PROVE  WriteAheadInv'
<1> USE DEF WriteAheadInv
<1>1. /\ pc \in {"idle", "fencing"} /\ pc' \in {"idle", "fencing"}
      /\ UNCHANGED <<epoch, issued, next_plan>>
      /\ plans' = plans \/ \E k : plans' = Superseded(k)
      /\ \E k : \/ Accepted(WithFailure(k)) \/ Failed(WithFailure(k))
                \/ Accepted(WithFence(k)) \/ Failed(WithFence(k))
  BY Zenon DEF record_failure, declare_failure, CommitFailure, FailureRefused, FencePersisted,
               FenceRefused, Running, memory, history
<1>2. durable'.plans = durable.plans /\ durable'.steps = durable.steps
  <2>1. PICK k : durable' \in {durable, WithFailure(k), WithFence(k)}
    BY <1>1, AcceptedAppends, FailedAppends, Zenon DEF PipelineInv
  <2>2. /\ WithFailure(k).plans = durable.plans /\ WithFailure(k).steps = durable.steps
        /\ WithFence(k).plans = durable.plans /\ WithFence(k).steps = durable.steps
    BY Lineages DEF PipelineInv
  <2> QED
    BY <2>1, <2>2, Zenon
<1>3. \A id \in DOMAIN plans' :
         /\ id \in DOMAIN plans
         /\ IsPlan(plans'[id]) /\ plans'[id].id = id
         /\ plans'[id].epoch = plans[id].epoch
         /\ plans'[id].restores = plans[id].restores
  <2>1. CASE plans' = plans
    BY <2>1, Zenon DEF Lineal
  <2>2. ASSUME NEW k, plans' = Superseded(k)
        PROVE  \A id \in DOMAIN plans' :
                  /\ id \in DOMAIN plans
                  /\ IsPlan(plans'[id]) /\ plans'[id].id = id
                  /\ plans'[id].epoch = plans[id].epoch
                  /\ plans'[id].restores = plans[id].restores
    BY <2>2, SupersedeKeeps
  <2> QED
    BY <1>1, <2>1, <2>2, Zenon
<1>4. next_plan' \in Nat /\ next_plan' >= next_plan
  BY <1>1 DEF Numbered
<1> QED
  BY <1>1, <1>2, <1>3, <1>4, SameWritten, PlansKeep, Zenon

(* Steps that touch neither plans nor their records.                        *)
LEMMA QuietKeeps ==
    ASSUME WriteAheadInv, UNCHANGED <<durable, epoch, plans, next_plan, issued>>,
           \/ UNCHANGED <<damage, pc, arg>>
           \/ pc # "down" /\ pc' = "idle"
    PROVE  WriteAheadInv'
<1>1. Written' = Written
  BY SameWritten, Zenon
<1>2. EffectIsWrittenAhead'
  BY <1>1, WrittenAheadPlanwise, Zenon DEF WriteAheadInv
<1> QED
  BY <1>1, <1>2, Zenon DEF WriteAheadInv, Lineal, Agrees, Numbered, InFlight

(* The write-ahead record of a plan in memory supersedes what the journal   *)
(* has of that plan, and of no other plan of its epoch.                     *)
LEMMA ApplyingRecorded ==
    ASSUME PipelineInv, WriteAheadInv, NEW id \in DOMAIN plans,
           UNCHANGED <<epoch, issued>>,
           durable' = durable \/ durable' = WithPlan(WithState(plans[id], "Applying"))
    PROVE  Lineal(durable.plans)' /\ EffectIsWrittenAhead'
<1> USE DEF WriteAheadInv
<1> DEFINE plan == plans[id]
           q == WithState(plan, "Applying")
<1>0. IsPlan(plan) /\ plan.id = id /\ plan.epoch <= epoch
  BY Zenon DEF Lineal
<1>1. /\ IsPlan(q) /\ q.id = id /\ q.epoch <= epoch /\ q.epoch = plan.epoch
      /\ q.restores = plan.restores /\ q.state = "Applying"
  BY <1>0, StateChange, Zenon
<1>2. Written' = Written
  BY SameWritten, Zenon
<1>3. CASE durable' = durable
  BY <1>2, <1>3, WrittenAheadPlanwise, Zenon DEF Lineal
<1>4. CASE durable' = WithPlan(q)
  <2> HIDE DEF q
  <2>1. /\ durable'.steps = durable.steps
        /\ durable'.plans = durable.plans \/ durable'.plans = Put(durable.plans, id, q)
    BY <1>1, <1>4, Lineages DEF PipelineInv
  <2>2. CASE durable'.plans = durable.plans
    BY <1>2, <2>1, <2>2, WrittenAheadPlanwise, Zenon DEF Lineal
  <2>3. CASE durable'.plans = Put(durable.plans, id, q)
    <3>1. /\ DOMAIN durable'.plans = DOMAIN durable.plans \cup {id}
          /\ \A i \in DOMAIN durable'.plans :
                durable'.plans[i] = IF i = id THEN q ELSE durable.plans[i]
      BY <2>3, Zenon DEF Put
    <3>2. Lineal(durable.plans)'
      BY <1>1, <3>1, Zenon DEF Lineal
    <3>3. SUFFICES ASSUME NEW p \in Written
                   PROVE  OnRecord(p, durable'.plans, durable'.steps)
      BY <1>2, <3>2, WrittenAheadPlanwise, Zenon
    <3>4. CASE p.id = id
      <4>1. p.id \in DOMAIN durable'.plans /\ durable'.plans[p.id] = q
        BY <3>1, <3>4, Zenon
      <4>2. plan.epoch = p.epoch => plan.restores = p.restores
        BY <3>4, Zenon DEF Agrees
      <4> QED
        BY <1>1, <4>1, <4>2, Zenon DEF OnRecord
    <3>5. CASE p.id # id
      <4>1. OnRecord(p, durable.plans, durable.steps)
        BY WrittenAheadPlanwise, Zenon
      <4>2. /\ p.id \in DOMAIN durable.plans => p.id \in DOMAIN durable'.plans
            /\ p.id \in DOMAIN durable'.plans => durable'.plans[p.id] = durable.plans[p.id]
        BY <3>1, <3>5, Zenon
      <4> QED
        BY <2>1, <4>1, <4>2, Zenon DEF OnRecord
    <3> QED
      BY <3>4, <3>5, Zenon
  <2> QED
    BY <2>1, <2>2, <2>3, Zenon
<1> QED
  BY <1>3, <1>4, Zenon

(* A plan that changes state in memory.                                     *)
LEMMA PutKeepsPlans ==
    ASSUME WriteAheadInv, NEW id \in DOMAIN plans, NEW s,
           plans' = Put(plans, id, WithState(plans[id], s))
    PROVE  /\ DOMAIN plans' = DOMAIN plans
           /\ plans'[id] = WithState(plans[id], s)
           /\ \A i \in DOMAIN plans' :
                 /\ IsPlan(plans'[i]) /\ plans'[i].id = i
                 /\ plans'[i].epoch = plans[i].epoch
                 /\ plans'[i].restores = plans[i].restores
<1> DEFINE q == WithState(plans[id], s)
<1>0. IsPlan(plans[id]) /\ plans[id].id = id
  BY Zenon DEF WriteAheadInv, Lineal
<1>1. IsPlan(q) /\ q.id = id /\ q.epoch = plans[id].epoch /\ q.restores = plans[id].restores
  BY <1>0, StateChange, Zenon
<1>2. /\ DOMAIN plans' = DOMAIN plans /\ plans'[id] = q
      /\ \A i \in DOMAIN plans' : plans'[i] = IF i = id THEN q ELSE plans[i]
  BY Zenon DEF Put
<1> HIDE DEF q
<1>3. ASSUME NEW i \in DOMAIN plans'
      PROVE  /\ IsPlan(plans'[i]) /\ plans'[i].id = i
             /\ plans'[i].epoch = plans[i].epoch
             /\ plans'[i].restores = plans[i].restores
  <2>1. CASE i = id
    BY <1>1, <1>2, <2>1, Zenon
  <2>2. CASE i # id
    <3>1. i \in DOMAIN plans /\ plans'[i] = plans[i]
      BY <1>2, <2>2, Zenon
    <3> QED
      BY <3>1, Zenon DEF WriteAheadInv, Lineal
  <2> QED
    BY <2>1, <2>2, Zenon
<1> QED
  BY <1>2, <1>3, Zenon DEF q

(* apply_plan: a plan rejected or without steps changes state in memory; a  *)
(* plan that begins is on record as Applying before it takes effect.        *)
LEMMA ApplyKeepsPlans ==
    ASSUME PipelineInv, WriteAheadInv, NEW id \in PlanIds, apply_plan(id)
    PROVE  WriteAheadInv'
<1> USE DEF WriteAheadInv
<1> DEFINE plan == plans[id]
           written == WithPlan(WithState(plan, "Applying"))
<1>1. /\ pc = "idle" /\ id \in DOMAIN plans
      /\ UNCHANGED <<epoch, next_plan, issued>>
  BY Zenon DEF apply_plan, Running, history
<1>2. /\ IsPlan(plan) /\ plan.id = id /\ plan.epoch <= epoch /\ epoch \in Nat /\ next_plan \in Nat
      /\ Written' = Written
  BY <1>1, SameWritten, Zenon DEF Lineal, Numbered
<1>3. CASE ApplyRejects(plan) \/ ApplyNothing(plan)
  <2>1. /\ durable' = durable /\ UNCHANGED <<pc, arg>>
        /\ plans' = plans \/ \E s : plans' = Put(plans, id, WithState(plan, s))
    <3>1. \/ UNCHANGED journal
          \/ Accepted(durable) \/ Failed(durable)
      BY <1>3, Zenon DEF ApplyRejects, ApplyNothing
    <3>2. durable' = durable
      BY <3>1, AcceptedAppends, FailedAppends, Zenon DEF PipelineInv, journal
    <3> QED
      BY <1>2, <1>3, <3>2, Zenon DEF ApplyRejects, ApplyNothing
  <2>2. CASE plans' = plans
    BY <1>1, <2>1, <2>2, QuietKeeps, Zenon
  <2>3. ASSUME NEW s, plans' = Put(plans, id, WithState(plan, s))
        PROVE  WriteAheadInv'
    <3>1. \A i \in DOMAIN plans' :
             /\ i \in DOMAIN plans
             /\ IsPlan(plans'[i]) /\ plans'[i].id = i
             /\ plans'[i].epoch = plans[i].epoch
             /\ plans'[i].restores = plans[i].restores
      BY <1>1, <2>3, PutKeepsPlans, Zenon
    <3>2. /\ durable'.plans = durable.plans /\ durable'.steps = durable.steps
          /\ pc' = "idle" /\ next_plan' \in Nat /\ next_plan' >= next_plan
      BY <1>1, <1>2, <2>1, Order, Zenon
    <3> QED
      BY <1>1, <1>2, <3>1, <3>2, PlansKeep, Zenon
  <2> QED
    BY <2>1, <2>2, <2>3, Zenon
<1>4. CASE ApplyRefused(plan)
  <2>1. durable' = durable \/ durable' = written
    BY <1>4, FailedAppends, Zenon DEF ApplyRefused
  <2>2. Lineal(durable.plans)' /\ EffectIsWrittenAhead'
    BY <1>1, <2>1, ApplyingRecorded, Zenon
  <2>3. UNCHANGED <<plans, pc, arg>>
    BY <1>4, Zenon DEF ApplyRefused
  <2> QED
    BY <1>1, <1>2, <2>2, <2>3, Zenon DEF Lineal, Agrees, Numbered, InFlight
<1>5. CASE ApplyBegins(plan)
  <2>1. /\ pc' = "applying" /\ arg'.plan = plan /\ arg'.remaining = plan.restores
        /\ plan.epoch = epoch
        /\ plans' = Put(plans, id, WithState(plan, "Applying"))
        /\ Accepted(written)
    BY <1>2, <1>5 DEF ApplyBegins, Valid
  <2>2. /\ durable' = durable \/ durable' = written
        /\ damage' = "none" => durable' = written
    BY <2>1, AcceptedAppends, Zenon DEF PipelineInv
  <2>3. Lineal(durable.plans)' /\ EffectIsWrittenAhead'
    BY <1>1, <2>2, ApplyingRecorded, Zenon
  <2>4. /\ DOMAIN plans' = DOMAIN plans
        /\ plans'[id] = WithState(plan, "Applying")
        /\ \A i \in DOMAIN plans' :
              /\ IsPlan(plans'[i]) /\ plans'[i].id = i
              /\ plans'[i].epoch = plans[i].epoch
              /\ plans'[i].restores = plans[i].restores
    BY <1>1, <2>1, PutKeepsPlans, Zenon
  <2>5. Lineal(plans)' /\ Agrees(plans)'
    BY <1>1, <1>2, <2>4, ZenonT(20) DEF Lineal, Agrees
  <2>6. Numbered'
    BY <1>1, <1>2, <2>1, <2>4, Zenon DEF Numbered
  <2>7. damage' = "none" /\ Decodes(plan) =>
           id \in DOMAIN durable'.plans /\ durable'.plans[id] = WithState(plan, "Applying")
    <3> DEFINE q == WithState(plan, "Applying")
    <3>1. q.id = id /\ (Decodes(q) <=> Decodes(plan))
      BY <1>2, StateChange, Zenon
    <3> HIDE DEF q
    <3>2. WithPlan(q).plans = IF Decodes(q) THEN Put(durable.plans, q.id, q) ELSE durable.plans
      BY Lineages DEF PipelineInv
    <3>3. damage' = "none" => durable' = WithPlan(q)
      BY <2>2, Zenon DEF q
    <3>4. damage' = "none" /\ Decodes(plan) => durable'.plans = Put(durable.plans, id, q)
      BY <3>1, <3>2, <3>3, Zenon
    <3>5. damage' = "none" /\ Decodes(plan) => id \in DOMAIN durable'.plans /\ durable'.plans[id] = q
      BY <3>4, Zenon DEF Put
    <3> QED
      BY <3>5, Zenon DEF q
  <2>8. InFlight'
    <3>1. id < next_plan
      BY <1>1, <2>1, Zenon DEF Numbered
    <3> QED
      BY <1>1, <1>2, <2>1, <2>4, <2>7, <3>1, Zenon DEF InFlight
  <2> QED
    BY <2>3, <2>5, <2>6, <2>8, Zenon
<1> QED
  BY <1>3, <1>4, <1>5, Zenon DEF apply_plan

(* A restore step mints authority under a plan that is on record, and its   *)
(* outcome goes into the receipt.                                           *)
LEMMA ApplyStepKeepsPlans ==
    ASSUME PipelineInv, WriteAheadInv, ApplyStep
    PROVE  WriteAheadInv'
<1> USE DEF WriteAheadInv
<1>1. /\ pc = "applying"
      /\ UNCHANGED <<durable, damage, epoch, pc, plans, next_plan>>
      /\ issued' = issued \/ issued' = issued \cup {[plan |-> arg.plan, faulted |-> faulted]}
  BY Zenon DEF ApplyStep, journal
<1>w. \A p \in Written' :
         p \in Written \/ (p = arg.plan /\ damage = "none" /\ Decodes(arg.plan))
  <2>1. ~faulted => damage = "none"
    BY Zenon DEF PipelineInv, JournalSound
  <2> SUFFICES ASSUME NEW p \in Written'
               PROVE  p \in Written \/ (p = arg.plan /\ damage = "none" /\ Decodes(arg.plan))
    BY Zenon
  <2>2. PICK i \in issued' : p = i.plan /\ ~i.faulted /\ Decodes(i.plan)
    BY Zenon DEF Written
  <2>3. CASE i \in issued
    BY <2>2, <2>3, Zenon DEF Written
  <2>4. CASE i = [plan |-> arg.plan, faulted |-> faulted]
    <3>1. i.plan = arg.plan /\ i.faulted = faulted
      BY <2>4, Zenon
    <3> QED
      BY <2>1, <2>2, <3>1, Zenon
  <2> QED
    BY <1>1, <2>3, <2>4, Zenon
<1> DEFINE applied(step) == Admissible(step) /\ Grantable(Hops(step))
           outcome(step) == IF applied(step) THEN "Applied" ELSE "Failed"
<1>2. PICK step \in arg.remaining :
         arg' = [arg EXCEPT !.remaining = arg.remaining \ {step},
                            !.steps = Put(arg.steps, StepKey(step), outcome(step)),
                            !.applied = arg.applied + (IF applied(step) THEN 1 ELSE 0),
                            !.failed = arg.failed + (IF applied(step) THEN 0 ELSE 1)]
  BY Zenon DEF ApplyStep, StepKey
<1> HIDE DEF applied, outcome
<1>3. /\ arg'.plan = arg.plan
      /\ arg'.remaining = arg.remaining \ {step}
      /\ arg'.steps = Put(arg.steps, StepKey(step), outcome(step))
  BY <1>1, <1>2, Zenon DEF PipelineInv, Shape
<1>4. DOMAIN arg'.steps = DOMAIN arg.steps \cup {StepKey(step)}
  BY <1>3, Zenon DEF Put
<1>5. /\ IsPlan(arg.plan) /\ arg.plan.epoch = epoch /\ arg.plan.id < next_plan
      /\ arg.plan.id \in DOMAIN plans /\ plans[arg.plan.id] = WithState(arg.plan, "Applying")
      /\ damage = "none" /\ Decodes(arg.plan) =>
            /\ arg.plan.id \in DOMAIN durable.plans
            /\ durable.plans[arg.plan.id] = WithState(arg.plan, "Applying")
  BY <1>1, Zenon DEF InFlight
<1>6. Lineal(plans)' /\ Lineal(durable.plans)'
  BY <1>1, Zenon DEF Lineal
<1> DEFINE q == WithState(arg.plan, "Applying")
<1>a. q.epoch = arg.plan.epoch /\ q.restores = arg.plan.restores /\ q.state = "Applying"
  BY <1>5, StateChange, Zenon
<1> HIDE DEF q
<1>b. /\ plans[arg.plan.id] = q
      /\ damage = "none" /\ Decodes(arg.plan) =>
            arg.plan.id \in DOMAIN durable.plans /\ durable.plans[arg.plan.id] = q
  BY <1>5, Zenon DEF q
<1>7. Agrees(plans)'
  <2>1. SUFFICES ASSUME NEW p \in Written', p.id \in DOMAIN plans, plans[p.id].epoch = p.epoch
                 PROVE  plans[p.id].restores = p.restores
    BY <1>1, Zenon DEF Agrees
  <2>2. CASE p = arg.plan
    BY <1>a, <1>b, <2>2, Zenon
  <2>3. CASE p \in Written
    BY <2>1, <2>3, Zenon DEF Agrees
  <2> QED
    BY <1>w, <2>2, <2>3, Zenon
<1>8. Numbered'
  <2>1. /\ arg.plan.id \in Nat /\ arg.plan.epoch \in Nat /\ arg.plan.epoch <= epoch
        /\ arg.plan.id < next_plan
    <3>1. arg.plan.id \in Nat /\ arg.plan.epoch \in Nat
      BY <1>5, PlanNumbers, Zenon
    <3> QED
      BY <1>5, <3>1, Order, Zenon
  <2>2. ASSUME NEW p \in Written'
        PROVE  /\ p.id \in Nat /\ p.epoch \in Nat /\ p.epoch <= epoch
               /\ p.epoch = epoch => p.id < next_plan
    <3>1. CASE p = arg.plan
      BY <2>1, <3>1, Zenon
    <3>2. CASE p \in Written
      BY <1>1, <3>2, Zenon DEF Numbered
    <3> QED
      BY <1>w, <3>1, <3>2, Zenon
  <2> QED
    BY <1>1, <2>2, Zenon DEF Numbered
<1>9. InFlight'
  BY <1>1, <1>3, <1>4, <1>5, Zenon DEF InFlight
<1>10. EffectIsWrittenAhead'
  <2>1. SUFFICES ASSUME NEW p \in Written'
                 PROVE  OnRecord(p, durable.plans, durable.steps)
    BY <1>1, WrittenAheadPlanwise, Zenon
  <2>2. CASE p = arg.plan /\ damage = "none" /\ Decodes(arg.plan)
    BY <1>a, <1>b, <2>2, Zenon DEF OnRecord
  <2>3. CASE p \in Written
    BY <2>3, WrittenAheadPlanwise, Zenon
  <2> QED
    BY <1>w, <2>2, <2>3, Zenon
<1> QED
  BY <1>6, <1>7, <1>8, <1>9, <1>10, Zenon

(* The receipt makes the outcome of every step durable, in a sound journal, *)
(* before the plan's record says that it is finished.                       *)
LEMMA ReceiptKeepsPlans ==
    ASSUME PipelineInv, WriteAheadInv, ReceiptPersisted \/ ReceiptRefused
    PROVE  WriteAheadInv'
<1> USE DEF WriteAheadInv
<1>1. /\ pc = "applying" /\ arg.remaining = {}
      /\ UNCHANGED <<epoch, plans, next_plan, issued>> /\ Written' = Written
      /\ \/ pc' = "completing" /\ arg' = arg /\ Accepted(WithReceipt(arg.steps))
         \/ pc' = "idle" /\ Failed(WithReceipt(arg.steps))
  BY SameWritten, Zenon DEF ReceiptPersisted, ReceiptRefused, memory, history
<1>2. /\ durable' = durable \/ durable' = WithReceipt(arg.steps)
      /\ pc' = "completing" /\ damage' = "none" =>
            damage = "none" /\ durable' = WithReceipt(arg.steps)
  BY <1>1, AcceptedAppends, FailedAppends, Zenon DEF PipelineInv
<1>3. /\ WithReceipt(arg.steps).plans = durable.plans
      /\ WithReceipt(arg.steps).steps = Overlay(arg.steps, durable.steps)
  BY Lineages DEF PipelineInv
<1>4. DOMAIN Overlay(arg.steps, durable.steps) = DOMAIN arg.steps \cup DOMAIN durable.steps
  BY Zenon DEF Overlay
<1>5. /\ durable'.plans = durable.plans
      /\ DOMAIN durable.steps \subseteq DOMAIN durable'.steps
      /\ pc' = "completing" /\ damage' = "none" =>
            damage = "none" /\ DOMAIN arg.steps \subseteq DOMAIN durable'.steps
  BY <1>2, <1>3, <1>4, Zenon
<1>6. Lineal(plans)' /\ Lineal(durable.plans)' /\ Agrees(plans)' /\ Numbered'
  BY <1>1, <1>5, Zenon DEF Lineal, Agrees, Numbered
<1>7. InFlight'
  BY <1>1, <1>5, Zenon DEF InFlight
<1>8. EffectIsWrittenAhead'
  <2>1. SUFFICES ASSUME NEW p \in Written
                 PROVE  OnRecord(p, durable'.plans, durable'.steps)
    BY <1>1, WrittenAheadPlanwise, Zenon
  <2>2. OnRecord(p, durable.plans, durable.steps)
    BY WrittenAheadPlanwise, Zenon
  <2> QED
    BY <1>5, <2>2, Zenon DEF OnRecord
<1> QED
  BY <1>6, <1>7, <1>8, Zenon

(* The final record of the plan, where it reaches the journal, follows the  *)
(* outcome of every step.                                                   *)
LEMMA CompletionRecorded ==
    ASSUME PipelineInv, WriteAheadInv, pc = "completing", UNCHANGED <<epoch, issued>>,
           durable' = durable \/ (damage = "none" /\ durable' = WithPlan(FinalPlan))
    PROVE  Lineal(durable.plans)' /\ EffectIsWrittenAhead'
<1> USE DEF WriteAheadInv
<1> DEFINE id == arg.plan.id
<1>1. /\ IsPlan(arg.plan) /\ arg.plan.epoch = epoch /\ epoch \in Nat
      /\ id \in DOMAIN plans /\ plans[id] = WithState(arg.plan, "Applying")
      /\ damage = "none" =>
            \A step \in arg.plan.restores : StepKey(step) \in DOMAIN durable.steps
      /\ Written' = Written
  BY SameWritten, Zenon DEF InFlight, Numbered
<1>2. /\ IsPlan(FinalPlan) /\ FinalPlan.id = id /\ FinalPlan.epoch = epoch
      /\ FinalPlan.restores = arg.plan.restores
      /\ FinalPlan.state \in {"Applied", "PartiallyApplied", "Failed"}
  <2>1. FinalState(arg) \in {"Applied", "PartiallyApplied", "Failed"}
    BY Zenon DEF FinalState
  <2>2. /\ IsPlan(FinalPlan) /\ FinalPlan.id = id /\ FinalPlan.epoch = arg.plan.epoch
        /\ FinalPlan.restores = arg.plan.restores /\ FinalPlan.state = FinalState(arg)
    BY <1>1, StateChange, ZenonT(20) DEF FinalPlan
  <2> QED
    BY <1>1, <2>1, <2>2, Zenon
<1>3. plans[id].restores = arg.plan.restores /\ plans[id].epoch = epoch
  <2> DEFINE q == WithState(arg.plan, "Applying")
  <2>1. q.epoch = arg.plan.epoch /\ q.restores = arg.plan.restores
    BY <1>1, StateChange, Zenon
  <2> HIDE DEF q
  <2>2. plans[id] = q
    BY <1>1, Zenon DEF q
  <2> QED
    BY <1>1, <2>1, <2>2, Zenon
<1> HIDE DEF id
<1>4. CASE durable' = durable
  BY <1>1, <1>4, WrittenAheadPlanwise, Zenon DEF Lineal
<1>5. CASE damage = "none" /\ durable' = WithPlan(FinalPlan)
  <2>1. /\ durable'.steps = durable.steps
        /\ durable'.plans = durable.plans \/ durable'.plans = Put(durable.plans, id, FinalPlan)
    BY <1>2, <1>5, Lineages DEF PipelineInv
  <2>2. CASE durable'.plans = durable.plans
    BY <1>1, <2>1, <2>2, WrittenAheadPlanwise, Zenon DEF Lineal
  <2>3. CASE durable'.plans = Put(durable.plans, id, FinalPlan)
    <3>1. /\ DOMAIN durable'.plans = DOMAIN durable.plans \cup {id}
          /\ \A i \in DOMAIN durable'.plans :
                durable'.plans[i] = IF i = id THEN FinalPlan ELSE durable.plans[i]
      BY <2>3, Zenon DEF Put
    <3>2. Lineal(durable.plans)'
      BY <1>1, <1>2, <3>1, Order, ZenonT(20) DEF Lineal
    <3>3. SUFFICES ASSUME NEW p \in Written
                   PROVE  OnRecord(p, durable'.plans, durable'.steps)
      BY <1>1, <3>2, WrittenAheadPlanwise, Zenon
    <3>4. CASE p.id = id
      <4>1. p.id \in DOMAIN durable'.plans /\ durable'.plans[p.id] = FinalPlan
        BY <3>1, <3>4, Zenon
      <4>2. p.epoch = epoch => arg.plan.restores = p.restores
        BY <1>1, <1>3, <3>4, Zenon DEF Agrees
      <4>3. \A step \in FinalPlan.restores : StepKey(step) \in DOMAIN durable'.steps
        BY <1>1, <1>2, <1>5, <2>1, Zenon
      <4> QED
        BY <1>2, <4>1, <4>2, <4>3, Zenon DEF OnRecord
    <3>5. CASE p.id # id
      <4>1. OnRecord(p, durable.plans, durable.steps)
        BY WrittenAheadPlanwise, Zenon
      <4>2. /\ p.id \in DOMAIN durable.plans => p.id \in DOMAIN durable'.plans
            /\ p.id \in DOMAIN durable'.plans => durable'.plans[p.id] = durable.plans[p.id]
        BY <3>1, <3>5, Zenon
      <4> QED
        BY <2>1, <4>1, <4>2, Zenon DEF OnRecord
    <3> QED
      BY <3>4, <3>5, Zenon
  <2> QED
    BY <2>1, <2>2, <2>3, Zenon
<1> QED
  BY <1>4, <1>5, Zenon

(* The end of apply_plan: the plan's final state replaces Applying in       *)
(* memory when its record is accepted.                                      *)
LEMMA CompletionKeepsPlans ==
    ASSUME PipelineInv, WriteAheadInv, ApplyCompleted \/ CompletionRefused
    PROVE  WriteAheadInv'
<1> USE DEF WriteAheadInv
<1> DEFINE id == arg.plan.id
<1>1. /\ pc = "completing" /\ pc' = "idle"
      /\ UNCHANGED <<epoch, next_plan, issued>> /\ Written' = Written
      /\ Accepted(WithPlan(FinalPlan)) \/ Failed(WithPlan(FinalPlan))
      /\ plans' = plans \/ plans' = Put(plans, FinalPlan.id, FinalPlan)
  BY SameWritten, Zenon DEF ApplyCompleted, CompletionRefused, memory, history
<1>2. Lineal(durable.plans)' /\ EffectIsWrittenAhead'
  <2>1. durable' = durable \/ (damage = "none" /\ durable' = WithPlan(FinalPlan))
    BY <1>1, AcceptedAppends, FailedAppends, Zenon DEF PipelineInv
  <2> QED
    BY <1>1, <2>1, CompletionRecorded, Zenon
<1>3. InFlight'
  BY <1>1, Zenon DEF InFlight
<1>4. CASE plans' = plans
  BY <1>1, <1>2, <1>3, <1>4, Zenon DEF Lineal, Agrees, Numbered
<1>5. CASE plans' = Put(plans, FinalPlan.id, FinalPlan)
  <2>1. IsPlan(arg.plan) /\ id \in DOMAIN plans /\ plans[id] = WithState(arg.plan, "Applying")
    BY <1>1, Zenon DEF InFlight
  <2>2. FinalPlan = WithState(plans[id], FinalState(arg)) /\ FinalPlan.id = id
    BY <2>1, StateChange, Zenon DEF FinalPlan, WithState
  <2>3. /\ DOMAIN plans' = DOMAIN plans
        /\ \A i \in DOMAIN plans' :
              /\ IsPlan(plans'[i]) /\ plans'[i].id = i
              /\ plans'[i].epoch = plans[i].epoch
              /\ plans'[i].restores = plans[i].restores
    <3> DEFINE state == FinalState(arg)
    <3>1. plans' = Put(plans, id, WithState(plans[id], state))
      BY <1>5, <2>2, Zenon
    <3> HIDE DEF state, id
    <3> QED
      BY <2>1, <3>1, PutKeepsPlans, Zenon
  <2>4. Lineal(plans)' /\ Agrees(plans)' /\ Numbered'
    BY <1>1, <2>3, ZenonT(20) DEF Lineal, Agrees, Numbered
  <2> QED
    BY <1>2, <1>3, <2>4, Zenon
<1> QED
  BY <1>1, <1>4, <1>5, Zenon

(* After a restart the plans in memory are those on record, of earlier      *)
(* epochs: identities may start again.                                      *)
LEMMA RestartKeepsPlans ==
    ASSUME PipelineInv, WriteAheadInv, Crash \/ shutdown \/ open
    PROVE  WriteAheadInv'
<1> USE DEF WriteAheadInv
<1>0. Written' = Written
  BY SameWritten, Zenon DEF Crash, shutdown, open, Lost, history
<1>1. CASE Crash \/ shutdown
  <2>1. Lost /\ durable' = durable
    BY <1>1, AcceptedAppends, FailedAppends, Zenon DEF Crash, shutdown, journal, PipelineInv
  <2>2. EffectIsWrittenAhead'
    BY <1>0, <2>1, WrittenAheadPlanwise, Zenon
  <2> QED
    BY <1>0, <2>1, <2>2, Zenon DEF Lost, Empty, Lineal, Agrees, Numbered, InFlight
<1>2. CASE open
  <2>1. /\ pc' = "idle" /\ epoch' = epoch + 1 /\ epoch \in Nat /\ next_plan \in Nat
        /\ plans' = durable.plans /\ UNCHANGED <<durable, next_plan>> /\ Written' = Written
    BY <1>0, <1>2, Zenon DEF open, Replay, Numbered
  <2>2. ASSUME NEW id \in DOMAIN durable.plans
        PROVE  /\ IsPlan(durable.plans[id]) /\ durable.plans[id].id = id
               /\ durable.plans[id].epoch <= epoch' /\ durable.plans[id].epoch # epoch'
    <3>1. IsPlan(durable.plans[id]) /\ durable.plans[id].id = id /\ durable.plans[id].epoch <= epoch
      BY Zenon DEF Lineal
    <3>2. durable.plans[id].epoch \in Nat
      BY <3>1, PlanNumbers, Zenon
    <3> QED
      BY <2>1, <3>1, <3>2, Order, Zenon
  <2>3. Lineal(plans)' /\ Lineal(durable.plans)'
    BY <2>1, <2>2, Zenon DEF Lineal
  <2>4. Agrees(plans)'
    <3>1. \A p \in Written : OnRecord(p, durable.plans, durable.steps)
      BY WrittenAheadPlanwise, Zenon
    <3> QED
      BY <2>1, <3>1, Zenon DEF Agrees, OnRecord
  <2>5. ASSUME NEW p \in Written
        PROVE  /\ p.id \in Nat /\ p.epoch \in Nat
               /\ p.epoch <= epoch' /\ p.epoch # epoch'
    <3>1. p.id \in Nat /\ p.epoch \in Nat /\ p.epoch <= epoch
      BY Zenon DEF Numbered
    <3> QED
      BY <2>1, <3>1, Order, Zenon
  <2>6. Numbered'
    <3>1. epoch' \in Nat /\ next_plan' \in Nat
      BY <2>1
    <3>2. \A id \in DOMAIN plans' : plans'[id].epoch # epoch'
      BY <2>1, <2>2, Zenon
    <3>3. \A p \in Written' :
             p.id \in Nat /\ p.epoch \in Nat /\ p.epoch <= epoch' /\ p.epoch # epoch'
      BY <2>1, <2>5, Zenon
    <3> QED
      BY <3>1, <3>2, <3>3, Zenon DEF Numbered
  <2>7. EffectIsWrittenAhead'
    BY <2>1, WrittenAheadPlanwise, Zenon
  <2>8. InFlight'
    BY <2>1, Zenon DEF InFlight
  <2> QED
    BY <2>3, <2>4, <2>6, <2>7, <2>8, Zenon
<1> QED
  BY <1>1, <1>2, Zenon

(* Write-ahead: authority minted by apply_plan is preceded in the journal   *)
(* by its plan, and a plan recorded as finished by the outcome of every     *)
(* step, for any number of plans, steps, restarts and failed appends, where *)
(* the plan decodes and was written before an append failed.                *)
THEOREM WrittenAhead == Spec => []EffectIsWrittenAhead
<1>1. Init => WriteAheadInv
  <2> SUFFICES ASSUME Init PROVE WriteAheadInv
    BY Zenon
  <2>1. DOMAIN plans = {} /\ DOMAIN durable.plans = {} /\ Written = {}
    BY Zenon DEF Init, Empty, Written
  <2>2. Lineal(plans) /\ Lineal(durable.plans) /\ Agrees(plans)
    BY <2>1, Zenon DEF Lineal, Agrees
  <2>3. Numbered
    BY <2>1, Zenon DEF Init, Numbered
  <2>4. InFlight
    BY Zenon DEF Init, InFlight
  <2>5. EffectIsWrittenAhead
    BY <2>1, WrittenAheadPlanwise, Zenon
  <2> QED
    BY <2>2, <2>3, <2>4, <2>5, Zenon DEF WriteAheadInv
<1>2. ASSUME PipelineInv, WriteAheadInv, [Next]_vars PROVE WriteAheadInv'
  <2>1. ASSUME \/ install_candidates
               \/ \E d \in Dependents, bound \in Bounds : establish_authority(d, bound)
               \/ \E d \in Dependents : withdraw_authority(d)
               \/ \E report \in Reports : admit_evidence(report[1], report[2])
               \/ Lapse
               \/ \E id \in PlanIds, d \in Dependents, verdict \in {"Verified", "Failed"} :
                     record_effect_verification(id, d, verdict)
               \/ UNCHANGED vars
        PROVE  WriteAheadInv'
    <3>1. UNCHANGED <<durable, damage, epoch, pc, arg, plans, next_plan, issued>>
      BY <2>1, Zenon DEF install_candidates, establish_authority, withdraw_authority,
                         admit_evidence, Lapse, record_effect_verification, journal, history,
                         vars, memory
    <3> QED
      BY <1>2, <3>1, QuietKeeps, Zenon
  <2>2. CASE install_policy \/ \E t \in Topologies : install_topology(t)
    <3>1. /\ UNCHANGED <<epoch, plans, next_plan, issued>> /\ pc = "idle" /\ pc' = "idle"
          /\ Accepted(durable) \/ Failed(durable)
      BY <2>2, Zenon DEF install_policy, install_topology, Running, memory, history
    <3>2. durable' = durable
      BY <1>2, <3>1, AcceptedAppends, FailedAppends, Zenon DEF PipelineInv
    <3> QED
      BY <1>2, <3>1, <3>2, QuietKeeps, Zenon
  <2>3. CASE \/ \E k \in Keys : record_failure(k) \/ declare_failure(k) \/ FailureRefused(k)
             \/ FencePersisted \/ FenceRefused
    BY <1>2, <2>3, FailureKeepsPlans, Zenon
  <2>4. ASSUME NEW failed \in Targets, NEW limited \in BOOLEAN, NEW fits \in Fits,
               propose_plan(failed, limited, fits)
        PROVE  WriteAheadInv'
    BY <1>2, <2>4, ProposeKeeps, Zenon
  <2>5. ASSUME NEW id \in PlanIds, apply_plan(id) PROVE WriteAheadInv'
    BY <1>2, <2>5, ApplyKeepsPlans, Zenon
  <2>6. CASE ApplyStep
    BY <1>2, <2>6, ApplyStepKeepsPlans, Zenon
  <2>7. CASE ReceiptPersisted \/ ReceiptRefused
    BY <1>2, <2>7, ReceiptKeepsPlans, Zenon
  <2>8. CASE ApplyCompleted \/ CompletionRefused
    BY <1>2, <2>8, CompletionKeepsPlans, Zenon
  <2>9. CASE Crash \/ shutdown \/ open
    BY <1>2, <2>9, RestartKeepsPlans, Zenon
  <2> QED
    BY <1>2, <2>1, <2>2, <2>3, <2>4, <2>5, <2>6, <2>7, <2>8, <2>9, Zenon DEF Next
<1>3. WriteAheadInv => EffectIsWrittenAhead
  BY Zenon DEF WriteAheadInv
<1> QED
  BY <1>1, <1>2, <1>3, PipelineInvariant, PTL DEF Spec
=============================================================================
