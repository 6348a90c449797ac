------------------------------ MODULE Failover ------------------------------
(***************************************************************************)
(* The failover pipeline of the coordinator (src/runtime/failover.cpp and  *)
(* coordinator.cpp): declare a failure, fence, plan, apply, verify and     *)
(* restore, over the journal, crashes and restarts.                        *)
(*                                                                         *)
(* Every call holds the coordinator's state mutex from its first to its    *)
(* last step, so calls do not interleave with each other; a call is split  *)
(* at each record it persists, where the process may crash or the append   *)
(* fail.  The journal is represented by the state its replay rebuilds,     *)
(* since a later record supersedes an earlier one for the same generation, *)
(* plan or step, and by what a failed append left in it: from then on an   *)
(* append may succeed and the record still not be there after a restart.   *)
(*                                                                         *)
(* AuthorityRegistry and Evidence are abstracted: a grant is here while it *)
(* is active and may lapse at any time, and evidence[k] is what the fresh  *)
(* evidence about k says.  The planner chooses any admissible replacement. *)
(***************************************************************************)
EXTENDS Integers, FiniteSets, Sequences, TLC, FiniteSetsExt, Functions

CONSTANTS
    Keys,                 \* generation-qualified switches, ordered
    Dependents,
    Topologies,           \* [switches, paths : Dependents -> SUBSET Keys]
    Candidates,           \* hop lists of the reconstruction alternatives
    Bounds,               \* generations callers ask authority for
    Targets,              \* failed generations callers ask a plan for
    Reports,              \* <<generation, verdict>> of the evidence callers admit
    max_fences,           \* Limits::max_fences
    max_authority_grants, \* Limits::max_authority_grants
    max_retained_plans,   \* Policy::max_retained_plans
    allow_acknowledgement_restore, \* Policy::allow_acknowledgement_restore
    max_plan_steps,       \* Limits::max_plan_steps, which bounds the lists of a plan
    Fits,                 \* whether the rest of a plan is within what decode accepts
    MaxPlans,             \* bound on the plans of one incarnation
    MaxEpoch,             \* bound on restarts
    FaultyEpochs          \* bound: the incarnations whose appends may fail

ASSUME FailoverAssumption ==
    /\ Keys \subseteq Nat \ {0}
    /\ Topologies \subseteq [switches : SUBSET Keys, paths : [Dependents -> SUBSET Keys]]
    /\ Candidates \subseteq Seq(Keys) \ {<<>>}
    /\ Bounds \subseteq SUBSET Keys
    /\ Targets \subseteq SUBSET Keys
    /\ Reports \subseteq Keys \X {"bad", "recovery"}
    /\ max_fences \in Nat
    /\ max_authority_grants \in Nat
    /\ max_retained_plans \in Nat \ {0}
    /\ allow_acknowledgement_restore \in BOOLEAN
    /\ max_plan_steps \in Nat \ {0}
    /\ Fits \subseteq BOOLEAN
    /\ MaxPlans \in Nat
    /\ MaxEpoch \in Nat \ {0}
    /\ FaultyEpochs \subseteq 1..MaxEpoch

VARIABLES
    durable,      \* what replay of the journal rebuilds
    damage,       \* what a failed append left in the journal
    epoch,
    pc,           \* "down", "idle", or where the running call stands
    arg,          \* the generation or the apply in progress, or <<>>
    failures,     \* FailureTable: generations committed failed
    fences,       \* AuthorityRegistry: fenced generations
    grants,       \* AuthorityRegistry: active grants
    minted,       \* grants minted by this incarnation
    evidence,     \* generation -> "none", "bad" or "recovery"
    topology,     \* <<>> or <<the installed topology>>
    candidates_present,
    plans,        \* retained plans by identity
    next_plan,
    apply_steps,  \* <<dependent, replacement>> -> "Applied", "Failed", "Verified"
    faulted,      \* history: an append of this incarnation has failed
    acked,        \* history: fences acknowledged to callers
    assured,      \* history: [failures, fences] acknowledged before an append failed
    issued        \* history: [plan, faulted] of every grant minted by apply_plan

memory == <<failures, fences, grants, minted, evidence, topology, candidates_present,
            plans, next_plan, apply_steps>>
journal == <<durable, damage, faulted>>
history == <<acked, assured, issued>>
vars == <<journal, epoch, pc, arg, memory, history>>

PlanIds == 1..MaxPlans
Step == [dependent : Dependents, covers_failed : Keys, hops : Candidates]
PlanState == {"Validated", "Rejected", "Applying", "Applied", "PartiallyApplied",
              "Failed", "Superseded"}
Feasibility == {"ProvenFeasible", "NothingToRestore", "Unproven"}
ReconstructionPlan ==
    [id : PlanIds, epoch : 1..MaxEpoch, topology : Topologies, failed : SUBSET Keys,
     restores : SUBSET Step, feasibility : Feasibility, fits : BOOLEAN, state : PlanState]

Empty == [x \in {} |-> x]
AckState == {"Applied", "Failed", "Verified"}

TypeOK ==
    /\ durable.failures \subseteq Keys /\ durable.fences \subseteq Keys
    /\ \A f \in {plans, durable.plans} :
           /\ DOMAIN f \subseteq PlanIds
           /\ \A id \in DOMAIN f : f[id] \in ReconstructionPlan /\ f[id].id = id
    /\ \A f \in {apply_steps, durable.steps} :
           DOMAIN f \subseteq Dependents \X Keys /\ Range(f) \subseteq AckState
    /\ damage \in {"none", "fragment", "unpublished", "broken"} /\ faulted \in BOOLEAN
    /\ epoch \in 1..MaxEpoch
    /\ pc \in {"down", "idle", "fencing", "applying", "completing"}
    /\ failures \subseteq Keys /\ fences \subseteq Keys
    /\ Cardinality(fences) <= max_fences
    /\ grants \subseteq [dependent : Dependents, bound : SUBSET Keys]
    /\ minted \in 0..max_authority_grants
    /\ evidence \in [Keys -> {"none", "bad", "recovery"}]
    /\ topology = <<>> \/ \E t \in Topologies : topology = <<t>>
    /\ candidates_present \in BOOLEAN
    /\ next_plan \in 1..(MaxPlans + 1)
    /\ acked \subseteq Keys
    /\ assured.failures \subseteq Keys /\ assured.fences \subseteq Keys
    /\ issued \subseteq [plan : ReconstructionPlan, faulted : BOOLEAN]
-----------------------------------------------------------------------------
(* The journal: DurableStore::append and replay, as the coordinator sees them. *)

Put(f, x, value) == [y \in DOMAIN f \cup {x} |-> IF y = x THEN value ELSE f[y]]
Overlay(f, g) == [x \in DOMAIN f \cup DOMAIN g |-> IF x \in DOMAIN f THEN f[x] ELSE g[x]]

\* ReconstructionPlan::decode bounds every list by max_plan_steps; the fences, the
\* unresolved dependents with their texts, the links and the writer's limit are in
\* fits.  Replay skips a plan that does not decode.
Decodes(plan) ==
    /\ plan.fits
    /\ Cardinality(plan.failed) <= max_plan_steps
    /\ Cardinality(plan.restores) <= max_plan_steps
    /\ \A step \in plan.restores : Len(step.hops) <= max_plan_steps

\* The lineage once one more record is replayed.
WithFailure(k) == [durable EXCEPT !.failures = @ \cup {k}]
WithFence(k) == [durable EXCEPT !.fences = @ \cup {k}]
WithPlan(plan) ==
    IF Decodes(plan) THEN [durable EXCEPT !.plans = Put(@, plan.id, plan)] ELSE durable
WithReceipt(steps) == [durable EXCEPT !.steps = Overlay(steps, @)]

\* What a failed append left takes what is appended behind it along: bytes behind a
\* fragment are cut off with it or make the open fail, and a record behind an
\* unpublished one has its sequence number, which no open accepts.
Behind ==
    CASE damage = "none" -> {"none"}
      [] damage = "fragment" -> {"fragment", "broken"}
      [] OTHER -> {"broken"}

\* append succeeds
Accepted(lineage) ==
    /\ durable' = IF damage = "none" THEN lineage ELSE durable
    /\ damage' \in Behind
    /\ UNCHANGED faulted

\* append fails: at its limits or before a byte was written, in the middle of the
\* record, or with the record written and not forced, which stays in the journal
\* unpublished.
Failed(lineage) ==
    /\ epoch \in FaultyEpochs
    /\ faulted' = TRUE
    /\ \/ UNCHANGED <<durable, damage>>
       \/ /\ damage' \in IF damage \in {"none", "unpublished"} THEN {"fragment"} ELSE Behind
          /\ UNCHANGED durable
       \/ /\ damage' \in IF damage = "none" THEN {"unpublished"} ELSE Behind
          /\ durable' = IF damage = "none" THEN lineage ELSE durable
-----------------------------------------------------------------------------
(* The coordinator's reads. *)

\* assess_switch: durable lineage holds until a strictly later recovery.
fence_required(k) ==
    evidence[k] = "bad" \/ (k \in failures /\ evidence[k] # "recovery")

Hops(step) == Range(step.hops)
Replacement(step) == step.hops[1]

Bound(d) == UNION {g.bound : g \in {h \in grants : h.dependent = d}}
HasAuthority(d) ==
    (\E g \in grants : g.dependent = d) /\ Bound(d) \cap fences = {}

\* The checks of a restore step that depend on state.
Admissible(step) ==
    \A hop \in Hops(step) :
        /\ hop \notin fences
        /\ hop \in topology[1].switches
        /\ ~fence_required(hop)

ValidUnfenced(plan) ==
    /\ plan.epoch = epoch
    /\ plan.topology = topology[1]
    /\ plan.failed # {}
    /\ \A step \in plan.restores :
           Hops(step) \cap plan.failed = {} /\ Admissible(step)

\* validate_plan against the current inputs.
Valid(plan) ==
    /\ plan.epoch = epoch
    /\ plan.topology = topology[1]
    /\ plan.failed # {}
    /\ plan.failed \subseteq fences
    /\ \A step \in plan.restores :
           Hops(step) \cap plan.failed = {} /\ Admissible(step)

\* The recorded outcome evaluate_restore consults: the step of d with the
\* greatest replacement, the last of a walk over the ordered map.
LatestStep(d) ==
    LET replacements == {r \in Keys : <<d, r>> \in DOMAIN apply_steps}
    IN  IF replacements = {} THEN "none" ELSE apply_steps[<<d, Max(replacements)>>]

Blocking(d) == {k \in Bound(d) : k \in fences \/ fence_required(k)}

evaluate_restore(d) ==
    LET allowed == Blocking(d) = {} /\ HasAuthority(d)
    IN  [may_restore |-> /\ allowed
                         /\ \/ LatestStep(d) = "Verified"
                            \/ LatestStep(d) = "Applied" /\ allow_acknowledgement_restore,
         effect_verified |-> allowed /\ LatestStep(d) = "Verified"]
-----------------------------------------------------------------------------
(* Inputs and authority. *)

Running == pc = "idle"

\* AuthorityRegistry::grant: refused for a fenced generation and at the limit.
Grantable(bound) == bound # {} /\ bound \cap fences = {} /\ minted < max_authority_grants

\* Records from which replay takes nothing: a policy, and the topology below.
install_policy ==
    /\ Running
    /\ Accepted(durable) \/ Failed(durable)
    /\ UNCHANGED <<epoch, pc, arg, memory, history>>

\* Authority for every declared dependent whose generations are not fenced, as
\* far as the limit allows, once the record is persisted; install_policy has the
\* failed append, which leaves no more behind.
install_topology(t) ==
    /\ Running
    /\ Accepted(durable)
    /\ topology' = <<t>>
    /\ LET eligible == {d \in Dependents : t.paths[d] # {} /\ t.paths[d] \cap fences = {}}
           room == Min({Cardinality(eligible), max_authority_grants - minted})
       IN  \E granted \in kSubset(room, eligible) :
               grants' = grants \cup {[dependent |-> d, bound |-> t.paths[d]] : d \in granted}
               /\ minted' = minted + room
    /\ UNCHANGED <<epoch, pc, arg, failures, fences, evidence,
                   candidates_present, plans, next_plan, apply_steps, history>>

install_candidates ==
    /\ Running
    /\ ~candidates_present
    /\ candidates_present' = TRUE
    /\ UNCHANGED <<journal, epoch, pc, arg, failures, fences, grants, minted, evidence,
                   topology, plans, next_plan, apply_steps, history>>

establish_authority(d, bound) ==
    /\ Running
    /\ Grantable(bound)
    /\ grants' = grants \cup {[dependent |-> d, bound |-> bound]}
    /\ minted' = minted + 1
    /\ UNCHANGED <<journal, epoch, pc, arg, failures, fences, evidence, topology,
                   candidates_present, plans, next_plan, apply_steps, history>>

withdraw_authority(d) ==
    /\ Running
    /\ grants' = {g \in grants : g.dependent # d}
    /\ UNCHANGED <<journal, epoch, pc, arg, failures, fences, minted, evidence, topology,
                   candidates_present, plans, next_plan, apply_steps, history>>

\* Evidence that turns the verdict of the fresh evidence about k; a declaration
\* that establishes no fence obligation leaves this behind and nothing else.
admit_evidence(k, verdict) ==
    /\ Running
    /\ evidence' = [evidence EXCEPT ![k] = verdict]
    /\ UNCHANGED <<journal, epoch, pc, arg, failures, fences, grants, minted, topology,
                   candidates_present, plans, next_plan, apply_steps, history>>

\* Time passes, also during a call: evidence leaves its validity window, a grant
\* its lifetime.
Lapse ==
    /\ pc # "down"
    /\ \/ /\ \E k \in Keys : evidence' = [evidence EXCEPT ![k] = "none"]
          /\ UNCHANGED grants
       \/ /\ \E g \in grants : grants' = grants \ {g}
          /\ UNCHANGED evidence
    /\ UNCHANGED <<journal, epoch, pc, arg, failures, fences, minted, topology,
                   candidates_present, plans, next_plan, apply_steps, history>>
-----------------------------------------------------------------------------
(* Failure and fencing. *)

\* record_failure_locked: the evidence, the record, then the table.
CommitFailure(k) ==
    /\ Running
    /\ topology # <<>>
    /\ Accepted(WithFailure(k))
    /\ failures' = failures \cup {k}
    /\ evidence' = [evidence EXCEPT ![k] = "bad"]
    /\ UNCHANGED <<epoch, minted, topology, candidates_present, next_plan, apply_steps,
                   issued>>

\* ... whose record is not persisted, in record_failure or declare_failure
FailureRefused(k) ==
    /\ Running
    /\ topology # <<>>
    /\ Failed(WithFailure(k))
    /\ evidence' = [evidence EXCEPT ![k] = "bad"]
    /\ UNCHANGED <<epoch, pc, arg, failures, fences, grants, minted, topology,
                   candidates_present, plans, next_plan, apply_steps, history>>

\* What callers may rely on across a restart
Assure(committed, fenced) ==
    assured' = IF faulted THEN assured
               ELSE [failures |-> assured.failures \cup committed,
                     fences |-> assured.fences \cup fenced]

record_failure(k) ==
    /\ CommitFailure(k)
    /\ Assure({k}, {})
    /\ UNCHANGED <<pc, arg, fences, grants, plans, acked>>

Touches(plan, k) ==
    \E step \in plan.restores : step.covers_failed = k \/ k \in Hops(step)

Superseded(k) ==
    [id \in DOMAIN plans |->
        IF Touches(plans[id], k) /\ plans[id].state # "Failed"
        THEN [plans[id] EXCEPT !.state = "Superseded"] ELSE plans[id]]

Acknowledge(k) ==
    /\ acked' = acked \cup {k}
    /\ Assure({k}, {k})

DeclareKeepingGrants(k) ==
    /\ CommitFailure(k)
    /\ k \notin fences /\ Cardinality(fences) < max_fences
    /\ fences' = fences \cup {k}
    /\ pc' = "fencing" /\ arg' = k
    /\ UNCHANGED <<grants, plans, acked, assured>>

\* declare_failure up to its second record: the failure is committed, the grants
\* of the generation are fenced, and the fence is committed in memory unless it
\* is there already or the limit is reached.
declare_failure(k) ==
    /\ CommitFailure(k)
    /\ grants' = {g \in grants : k \notin g.bound}
    /\ \/ /\ k \in fences
          /\ plans' = Superseded(k)
          /\ Acknowledge(k)
          /\ UNCHANGED <<fences, pc, arg>>
       \/ /\ k \notin fences /\ Cardinality(fences) >= max_fences
          /\ UNCHANGED <<fences, plans, pc, arg, acked, assured>>
       \/ /\ k \notin fences /\ Cardinality(fences) < max_fences
          /\ fences' = fences \cup {k}
          /\ pc' = "fencing" /\ arg' = k
          /\ UNCHANGED <<plans, acked, assured>>

FencePersisted ==
    /\ pc = "fencing"
    /\ Accepted(WithFence(arg))
    /\ plans' = Superseded(arg)
    /\ Acknowledge(arg)
    /\ pc' = "idle" /\ arg' = <<>>
    /\ UNCHANGED <<epoch, failures, fences, grants, minted, evidence, topology,
                   candidates_present, next_plan, apply_steps, issued>>

\* The fence is in memory when the call returns the error.
FenceRefused ==
    /\ pc = "fencing"
    /\ Failed(WithFence(arg))
    /\ pc' = "idle" /\ arg' = <<>>
    /\ UNCHANGED <<epoch, memory, history>>
-----------------------------------------------------------------------------
(* Planning. *)

Demands(failed) ==
    {dk \in Dependents \X failed : dk[2] \in topology[1].paths[dk[1]]}

\* The restore sets the planner may produce: at most one admissible alternative
\* for each demand.
RestoreSets(failed) ==
    LET assignments == UNION {[ds -> Candidates] : ds \in SUBSET Demands(failed)}
        StepsOf(a) == {[dependent |-> dk[1], covers_failed |-> dk[2], hops |-> a[dk]] :
                       dk \in DOMAIN a}
    IN  {rs \in {StepsOf(a) : a \in assignments} : \A step \in rs : Admissible(step)}

\* What remains when room is made for one more plan: the oldest identities that
\* are not being applied go first.
Evicted ==
    LET idle == {id \in DOMAIN plans : plans[id].state # "Applying"}
        excess == Cardinality(DOMAIN plans) - max_retained_plans + 1
        victims == {id \in idle : Cardinality({j \in idle : j < id}) < excess}
    IN  Restrict(plans, DOMAIN plans \ victims)

\* limited: a declared search bound was reached.
propose_plan(failed, limited, fits) ==
    /\ Running
    /\ topology # <<>> /\ candidates_present
    /\ next_plan \in PlanIds
    /\ failed # {}
    /\ \A k \in failed : k \in fences \/ fence_required(k)
    /\ next_plan' = next_plan + 1
    /\ \E restores \in RestoreSets(failed) :
         LET plan == [id |-> next_plan, epoch |-> epoch, topology |-> topology[1],
                      failed |-> failed, restores |-> restores,
                      feasibility |-> IF limited THEN "Unproven"
                                      ELSE IF Demands(failed) = {} THEN "NothingToRestore"
                                      ELSE IF restores = {} THEN "Unproven"
                                      ELSE "ProvenFeasible",
                      fits |-> fits, state |-> "Validated"]
         IN  plans' = IF Valid(plan) THEN Put(Evicted, next_plan, plan)
                      ELSE Put(plans, next_plan, [plan EXCEPT !.state = "Rejected"])
    /\ UNCHANGED <<journal, epoch, pc, arg, failures, fences, grants, minted, evidence,
                   topology, candidates_present, apply_steps, history>>
-----------------------------------------------------------------------------
(* Applying. *)

WithState(plan, state) == [plan EXCEPT !.state = state]

ApplyRejects(plan) ==
    /\ ~Valid(plan)
    /\ plans' = Put(plans, plan.id, WithState(plan, "Rejected"))
    /\ UNCHANGED <<journal, pc, arg>>

\* A receipt without steps is persisted; replay takes nothing from it.
ApplyNothing(plan) ==
    /\ Valid(plan)
    /\ plan.feasibility = "NothingToRestore"
    /\ \/ Accepted(durable) /\ plans' = Put(plans, plan.id, WithState(plan, "Applied"))
       \/ Failed(durable) /\ UNCHANGED plans
    /\ UNCHANGED <<pc, arg>>

ApplyInMemory(plan) ==
    /\ Valid(plan)
    /\ plan.feasibility = "ProvenFeasible"
    /\ plans' = Put(plans, plan.id, WithState(plan, "Applying"))
    /\ pc' = "applying"
    /\ arg' = [plan |-> plan, remaining |-> plan.restores, steps |-> Empty,
                applied |-> 0, failed |-> 0]
    /\ UNCHANGED journal

\* Write-ahead of a plan about to take effect.
ApplyBegins(plan) ==
    /\ Valid(plan)
    /\ plan.feasibility = "ProvenFeasible"
    /\ Accepted(WithPlan(WithState(plan, "Applying")))
    /\ plans' = Put(plans, plan.id, WithState(plan, "Applying"))
    /\ pc' = "applying"
    /\ arg' = [plan |-> plan, remaining |-> plan.restores, steps |-> Empty,
                applied |-> 0, failed |-> 0]

ApplyRefused(plan) ==
    /\ Valid(plan)
    /\ plan.feasibility = "ProvenFeasible"
    /\ Failed(WithPlan(WithState(plan, "Applying")))
    /\ UNCHANGED <<plans, pc, arg>>

apply_plan(id) ==
    /\ Running
    /\ topology # <<>>
    /\ id \in DOMAIN plans
    /\ LET plan == plans[id]
       IN  ApplyRejects(plan) \/ ApplyNothing(plan) \/ ApplyBegins(plan) \/ ApplyRefused(plan)
    /\ UNCHANGED <<epoch, failures, fences, grants, minted, evidence, topology,
                   candidates_present, next_plan, apply_steps, history>>

\* One restore step: its hops are checked again, then authority is minted.  The
\* steps are taken in any order; the code takes them in the canonical one.
ApplyStep ==
    /\ pc = "applying"
    /\ \E step \in arg.remaining :
         LET applied == Admissible(step) /\ Grantable(Hops(step))
             key == <<step.dependent, Replacement(step)>>
             state == IF applied THEN "Applied" ELSE "Failed"
         IN  /\ grants' = IF applied
                          THEN grants \cup {[dependent |-> step.dependent,
                                             bound |-> Hops(step)]}
                          ELSE grants
             /\ minted' = IF applied THEN minted + 1 ELSE minted
             /\ issued' = IF applied THEN issued \cup {[plan |-> arg.plan, faulted |-> faulted]}
                          ELSE issued
             /\ apply_steps' = Put(apply_steps, key, state)
             /\ arg' = [arg EXCEPT !.remaining = @ \ {step},
                                   !.steps = Put(@, key, state),
                                   !.applied = @ + (IF applied THEN 1 ELSE 0),
                                   !.failed = @ + (IF applied THEN 0 ELSE 1)]
    /\ UNCHANGED <<journal, epoch, pc, failures, fences, evidence, topology,
                   candidates_present, plans, next_plan, acked, assured>>

ReceiptPersisted ==
    /\ pc = "applying"
    /\ arg.remaining = {}
    /\ Accepted(WithReceipt(arg.steps))
    /\ pc' = "completing"
    /\ UNCHANGED <<epoch, arg, memory, history>>

\* The call returns the error; grants and recorded steps stay, and the plan is
\* retained as Applying.
ReceiptRefused ==
    /\ pc = "applying"
    /\ arg.remaining = {}
    /\ Failed(WithReceipt(arg.steps))
    /\ pc' = "idle" /\ arg' = <<>>
    /\ UNCHANGED <<epoch, memory, history>>

FinalState(receipt) ==
    IF receipt.failed = 0 THEN "Applied"
    ELSE IF receipt.applied = 0 THEN "Failed"
    ELSE "PartiallyApplied"

FinalPlan == WithState(arg.plan, FinalState(arg))

ApplyCompleted ==
    /\ pc = "completing"
    /\ Accepted(WithPlan(FinalPlan))
    /\ plans' = Put(plans, FinalPlan.id, FinalPlan)
    /\ pc' = "idle" /\ arg' = <<>>
    /\ UNCHANGED <<epoch, failures, fences, grants, minted, evidence, topology,
                   candidates_present, next_plan, apply_steps, history>>

CompletionRefused ==
    /\ pc = "completing"
    /\ Failed(WithPlan(FinalPlan))
    /\ pc' = "idle" /\ arg' = <<>>
    /\ UNCHANGED <<epoch, memory, history>>

\* Independent verification marks the recorded steps of the plan for d; it is
\* not persisted.
record_effect_verification(id, d, verdict) ==
    /\ Running
    /\ id \in DOMAIN plans
    /\ LET marked == {<<d, Replacement(step)>> :
                      step \in {t \in plans[id].restores : t.dependent = d}}
       IN  /\ marked \cap DOMAIN apply_steps # {}
           /\ apply_steps' = [key \in DOMAIN apply_steps |->
                                IF key \in marked THEN verdict ELSE apply_steps[key]]
    /\ UNCHANGED <<journal, epoch, pc, arg, failures, fences, grants, minted, evidence,
                   topology, candidates_present, plans, next_plan, history>>
-----------------------------------------------------------------------------
(* Crash and restart. *)

\* Memory is gone.
Lost ==
    /\ pc' = "down" /\ arg' = <<>>
    /\ grants' = {} /\ minted' = 0
    /\ evidence' = [k \in Keys |-> "none"]
    /\ topology' = <<>> /\ candidates_present' = FALSE
    /\ next_plan' = 1
    /\ failures' = {} /\ fences' = {} /\ plans' = Empty /\ apply_steps' = Empty
    /\ UNCHANGED <<epoch, history>>

\* The process stops at any point.
Crash == pc # "down" /\ Lost /\ UNCHANGED journal

\* Its last record is one from which replay takes no lineage.
shutdown == Running /\ Lost /\ (Accepted(durable) \/ Failed(durable))

Replay(lineage) ==
    /\ failures' = lineage.failures
    /\ fences' = lineage.fences
    /\ plans' = lineage.plans
    /\ apply_steps' = lineage.steps

OpenWithoutFences ==
    /\ pc = "down" /\ epoch < MaxEpoch /\ damage # "broken"
    /\ pc' = "idle" /\ epoch' = epoch + 1
    /\ Replay([durable EXCEPT !.fences = {}])
    /\ damage' = "none" /\ faulted' = FALSE
    /\ UNCHANGED <<durable, arg, grants, minted, evidence, topology, candidates_present,
                   next_plan, history>>

OpenWithoutFailures ==
    /\ pc = "down" /\ epoch < MaxEpoch /\ damage # "broken"
    /\ pc' = "idle" /\ epoch' = epoch + 1
    /\ Replay([durable EXCEPT !.failures = {}])
    /\ damage' = "none" /\ faulted' = FALSE
    /\ UNCHANGED <<durable, arg, grants, minted, evidence, topology, candidates_present,
                   next_plan, history>>

\* Coordinator::open: a fragment at the end of the journal is cut off, and the
\* lineage replayed; no evidence, topology, candidates or authority is, since no
\* grant is ever persisted, and identities start again.  An open that is refused
\* changes nothing that the next one would not repair.
open ==
    /\ pc = "down" /\ epoch < MaxEpoch /\ damage # "broken"
    /\ pc' = "idle" /\ epoch' = epoch + 1
    /\ Replay(durable)
    /\ damage' = "none" /\ faulted' = FALSE
    /\ UNCHANGED <<durable, arg, grants, minted, evidence, topology, candidates_present,
                   next_plan, history>>
-----------------------------------------------------------------------------
Init ==
    /\ durable = [failures |-> {}, fences |-> {}, plans |-> Empty, steps |-> Empty]
    /\ damage = "none" /\ faulted = FALSE
    /\ epoch = 1
    /\ pc = "idle" /\ arg = <<>>
    /\ failures = {} /\ fences = {} /\ grants = {} /\ minted = 0
    /\ evidence = [k \in Keys |-> "none"]
    /\ topology = <<>> /\ candidates_present = FALSE
    /\ plans = Empty /\ next_plan = 1 /\ apply_steps = Empty
    /\ acked = {}
    /\ assured = [failures |-> {}, fences |-> {}]
    /\ issued = {}

Next ==
    \/ install_policy
    \/ \E t \in Topologies : install_topology(t)
    \/ install_candidates
    \/ \E d \in Dependents, bound \in Bounds : establish_authority(d, bound)
    \/ \E d \in Dependents : withdraw_authority(d)
    \/ \E report \in Reports : admit_evidence(report[1], report[2])
    \/ Lapse
    \/ \E k \in Keys : record_failure(k)
    \/ \E k \in Keys : declare_failure(k)
    \/ \E k \in Keys : FailureRefused(k)
    \/ FencePersisted
    \/ FenceRefused
    \/ \E failed \in Targets, limited \in BOOLEAN, fits \in Fits :
           propose_plan(failed, limited, fits)
    \/ \E id \in PlanIds : apply_plan(id)
    \/ ApplyStep
    \/ ReceiptPersisted
    \/ ReceiptRefused
    \/ ApplyCompleted
    \/ CompletionRefused
    \/ \E id \in PlanIds, d \in Dependents, verdict \in {"Verified", "Failed"} :
           record_effect_verification(id, d, verdict)
    \/ shutdown
    \/ Crash
    \/ open

Spec == Init /\ [][Next]_vars
-----------------------------------------------------------------------------
(* Properties. *)

\* A fence that declare_failure acknowledged is in force whenever the
\* coordinator runs, however often it crashed since and wherever the crash fell,
\* and whatever appends failed after the acknowledgement: the fence is persisted
\* before the call returns (failover.cpp:287-291) and replayed by open
\* (coordinator.cpp:152-159).  FencesArePermanent is about the fences acknowledged
\* by an incarnation whose journal has failed it already.
AcknowledgedFencesHold ==
    pc # "down" => assured.fences \subseteq fences

\* No authority is active on a fenced generation, nor on one whose fence was
\* acknowledged: not through a topology reinstalled after a restart, an explicit
\* grant, or a plan that was made before the fence and is applied after it.
NoAuthorityBehindFence ==
    \A g \in grants : g.bound \cap (fences \cup assured.fences) = {}

\* Service is never restored over a generation whose failure was acknowledged,
\* by declare_failure or by record_failure, in this or an earlier incarnation,
\* unless fresh evidence of a later recovery exists and no fence holds.
RestoreAvoidsFailures ==
    \A d \in Dependents, k \in assured.failures :
        evaluate_restore(d).may_restore /\ k \in Bound(d) =>
            evidence[k] = "recovery" /\ k \notin assured.fences

\* Authority minted by apply_plan is preceded in the journal by its plan
\* (failover.cpp:487-493): after a crash at any point of the apply, and whatever
\* append fails from then on, replay shows the plan in flight, or finished with
\* every step's outcome on record.  This is for a plan that decodes and a journal
\* that no earlier append has damaged; PlanSurvivesCrash is about the others.
EffectIsWrittenAhead ==
    \A i \in issued : ~i.faulted /\ Decodes(i.plan) =>
        LET p == i.plan
            q == durable.plans[p.id]
        IN  /\ p.id \in DOMAIN durable.plans
            /\ q.epoch = p.epoch =>
                 /\ q.restores = p.restores
                 /\ \/ q.state = "Applying"
                    \/ /\ q.state \in {"Applied", "PartiallyApplied", "Failed"}
                       /\ \A step \in q.restores :
                            <<step.dependent, Replacement(step)>> \in DOMAIN durable.steps

\* As long as no append has failed, every generation a reconstruction covers has
\* a fence in the journal by the time authority is minted for its replacement,
\* and keeps it (ordering contract, failover.cpp:5-12).
\* FenceDurableBeforeReconstruction is what a failed append leaves of this.
FencedBeforeReconstruction ==
    \A i \in issued : ~i.faulted => i.plan.failed \subseteq durable.fences
-----------------------------------------------------------------------------
(* What the documentation says and the code does not keep. *)

\* "fencing that authority first, and committing the fence durably before any
\* reconstruction" (README.md:24): whenever authority is minted for a
\* replacement, the generations it replaces have a fence in the journal.
FenceDurableBeforeReconstruction ==
    \A i \in issued : i.plan.failed \subseteq durable.fences

\* "a plan that is about to take effect must survive a crash" (failover.cpp:487):
\* with a journal that accepted every record, a plan under which authority was
\* minted is one that replay rebuilds.
PlanSurvivesCrash ==
    \A i \in issued : ~i.faulted => i.plan.id \in DOMAIN durable.plans

\* "Fencing is permanent lineage. A fence record is never removed." (README.md:94):
\* every fence that was acknowledged to a caller is in force from then on.
FencesArePermanent ==
    pc # "down" => acked \subseteq fences

\* "distinguishing proposal from acknowledgement from verified effect"
\* (README.md:27-28): a restore reported as verified rests on the verification of
\* a step whose replacement carries the dependent's authority now.
VerifiedEffectIsCurrent ==
    \A d \in Dependents :
        Running /\ evaluate_restore(d).effect_verified =>
            \E r \in Bound(d) :
                <<d, r>> \in DOMAIN apply_steps /\ apply_steps[<<d, r>>] = "Verified"
=============================================================================
