------------------------------ MODULE Planner ------------------------------
(***************************************************************************)
(* Reconstruction planning (src/plan): the candidate table, the admission  *)
(* of alternatives, the bounded branch-and-bound over capacity components, *)
(* the reference solver, and the independent validator, over a world whose *)
(* fences, evidence, topology and candidates change between the calls.     *)
(*                                                                         *)
(* Generations, dependents, links and evidence identities are naturals     *)
(* with the code's order; capabilities are bit masks.  A digest of a       *)
(* document is the document.  The dependency closure (Topology) and the    *)
(* adjudication of evidence (Evidence) are inputs here.                    *)
(***************************************************************************)
EXTENDS Integers, Sequences, FiniteSets, TLC, SequencesExt, FiniteSetsExt, Functions, Bitwise

CONSTANTS
    Keys,        \* generations, naturals from 1
    IdentityOf,  \* Keys -> the identity a generation belongs to
    Scenarios,   \* [topology, supply, planning, limits, failed, fenced]
    Topologies,  \* what a later install may bring
    Supplies,    \* what a later supply of candidates may bring
    Verdicts,    \* what evidence may come to say about a generation
    UINT64_MAX,  \* where the sum of costs saturates
    MaxChanges   \* bound on changes of the world in one behaviour

\* A topology is [switches : generation -> [domain, capacity_score, capabilities], links,
\* reach : generation -> the dependents of its closure, required : dependent -> mask,
\* cut : the root sets whose traversal a bound stopped].  A bound that stops the
\* traversal from some roots stops it from more of them too.
ASSUME PlannerAssumption ==
    /\ Keys \subseteq Nat \ {0}
    /\ DOMAIN IdentityOf = Keys
    /\ \A t \in Topologies \cup {s.topology : s \in Scenarios} :
           \A F \in t.cut, G \in SUBSET Keys : F \subseteq G => G \in t.cut
    /\ \A s \in Scenarios : s.limits.max_candidates_evaluated > 0
    /\ MaxChanges \in Nat

VARIABLES
    topology, table, planning, limits,
    fenced,      \* AuthorityRegistry::is_fenced
    verdict,     \* generation -> "usable", "failing" or "conflict"
    epoch,
    request,     \* the failed generations a plan is asked for, and the first supply
    plan,        \* <<>> or the plan that was produced
    refusal,     \* the code of the last refused call, or "Ok"
    changes      \* changes of the world so far

world == <<topology, table, planning, limits, fenced, verdict, epoch>>
vars == <<world, request, plan, refusal, changes>>
-----------------------------------------------------------------------------
(* Orders. *)

\* std::vector's order: lexicographic, a proper prefix first.
LexLess(a, b) ==
    \E i \in 1..Len(b) :
        /\ i <= Len(a) + 1
        /\ \A j \in 1..(i - 1) : a[j] = b[j]
        /\ i = Len(a) + 1 \/ a[i] < b[i]

\* The fields candidate_order_less compares, in its order; 0 ends the list of links.
Canonical(c) == <<c.cost, Len(c.hops)>> \o c.hops \o c.links \o <<0, c.capabilities>>
candidate_order_less(a, b) ==
    LexLess(Canonical(a) \o <<a.evidence>>, Canonical(b) \o <<b.evidence>>)

\* CandidateTable::build sorts on the same fields behind the dependent, with the failed
\* generation before the evidence.
Identity(c) == <<c.dependent>> \o Canonical(c) \o <<c.covers_failed>>
identity_less(a, b) ==
    LexLess(Identity(a) \o <<a.evidence>>, Identity(b) \o <<b.evidence>>)

validate_candidate(c) == c.hops # <<>> /\ c.cost # 0

\* The tables build may return: of each group that differs only in evidence and source one
\* entry survives, of least evidence; between sources the unstable sort decides.
Tables(supply) ==
    LET Group(c) == {b \in supply : Identity(b) = Identity(c)}
        First(c) == {b \in Group(c) : \A a \in Group(c) : b.evidence <= a.evidence}
    IN  {SetToSortSeq(kept, identity_less) :
            kept \in {K \in SUBSET supply :
                         \A c \in supply : /\ Cardinality(K \cap Group(c)) = 1
                                           /\ K \cap Group(c) \subseteq First(c)}}
-----------------------------------------------------------------------------
(* Admission of alternatives. *)

fence_required(k) ==
    verdict[k] = "failing" \/ (verdict[k] = "conflict" /\ planning.fence_on_conflict)
has_all_capabilities(mask, required) == (mask & required) = required
Installed == DOMAIN topology.switches

\* Why one hop of an alternative is refused, in the order of the checks.
HopFault(c, failed, hop) ==
    LET sw == topology.switches[hop]
        required == topology.required[c.dependent]
        lacking == ~has_all_capabilities(sw.capabilities, required)
                   \/ ~has_all_capabilities(c.capabilities, required)
        together == \/ failed \notin Installed
                    \/ topology.switches[failed].domain = 0
                    \/ sw.domain \in {0, topology.switches[failed].domain}
    IN  IF hop = failed THEN "BehindFence"
        ELSE IF hop \notin Installed
             THEN IF \E k \in Installed : IdentityOf[k] = IdentityOf[hop]
                  THEN "CandidateGenerationStale" ELSE "HopNotInTopology"
        ELSE IF hop \in fenced THEN "BehindFence"
        ELSE IF verdict[hop] = "conflict" THEN "ContradictoryEvidence"
        ELSE IF fence_required(hop) THEN "BehindFence"
        ELSE IF planning.require_superset /\ lacking THEN "CapabilityInsufficient"
        ELSE IF planning.separation /\ together THEN "FailureDomainConflict"
        ELSE IF sw.capacity_score = 0 THEN "CapacityExhausted"
        ELSE "Eligible"

\* The verdict on one alternative for one failed generation.
Eligibility(c, failed) ==
    LET faulty == {i \in DOMAIN c.hops : HopFault(c, failed, c.hops[i]) # "Eligible"}
    IN  IF c.covers_failed # failed
        THEN IF IdentityOf[c.covers_failed] = IdentityOf[failed]
             THEN "CandidateGenerationStale" ELSE "NoCandidateSupplied"
        ELSE IF planning.require_authoritative /\ ~c.authoritative
             THEN "NonAuthoritativeOrigin"
        ELSE IF faulty # {} THEN HopFault(c, failed, c.hops[Min(faulty)])
        ELSE "Eligible"

is_proven_negative(reason) == reason \notin {"ClosureTruncated", "SearchLimitReached"}

for_dependent(d) == SelectSeq(table, LAMBDA c : c.dependent = d)

\* The admissible alternatives of a demand <<dependent, failed>>, and why there is none.
evaluate_demand(demand) ==
    LET supplied == for_dependent(demand[1])
        complete == Len(supplied) <= planning.max_candidates
        examined == IF complete THEN supplied ELSE SubSeq(supplied, 1, planning.max_candidates)
        reasons  == [i \in DOMAIN examined |-> Eligibility(examined[i], demand[2])]
        rejected == SelectSeq(reasons, LAMBDA r : r # "Eligible")
        proven   == SelectSeq(rejected, is_proven_negative)
    IN  [demand   |-> demand,
         complete |-> complete,
         eligible |-> SortSeq(SelectSeq(examined, LAMBDA c : Eligibility(c, demand[2]) = "Eligible"),
                              candidate_order_less),
         blocking |-> IF ~complete THEN "SearchLimitReached"
                      ELSE Head(proven \o rejected \o <<"NoCandidateSupplied">>)]

\* build_demand_plan: every dependent of every root's closure, in order.
closure_complete(failed) == failed \notin topology.cut /\ failed \subseteq Installed
Demands(failed) ==
    SetToSortSeq(UNION {{<<d, k>> : d \in topology.reach[k]} : k \in failed \cap Installed}, LexLess)
Fences(failed) == {[failed |-> k, truncated |-> {k} \in topology.cut] : k \in failed}
-----------------------------------------------------------------------------
(* The assignment search.  An assignment names for each demand an index    *)
(* into its admissible alternatives, or kSkipped, which sorts last.        *)

kSkipped == 100

Chosen(choice) == {i \in DOMAIN choice : choice[i] # kSkipped}
Use(options, choice, i) == options[i].eligible[choice[i]]
CapacityKeys(c) == ToSet(c.hops)
Usage(options, choice, k) ==
    Cardinality({i \in Chosen(choice) : k \in CapacityKeys(Use(options, choice, i))})
capacity_of(k) == topology.switches[k].capacity_score

\* An assignment under construction: [choice, skipped, cost, hops].
NoChoice == [choice |-> <<>>, skipped |-> 0, cost |-> 0, hops |-> 0]
Skip(a) == [a EXCEPT !.choice = Append(@, kSkipped), !.skipped = @ + 1]
Take(a, index, c) ==
    [a EXCEPT !.choice = Append(@, index), !.cost = Min({UINT64_MAX, @ + c.cost}),
              !.hops = @ + Len(c.hops)]

RECURSIVE summarise(_, _)
summarise(options, choice) ==
    IF choice = <<>> THEN NoChoice
    ELSE LET n == Len(choice)
             shorter == summarise(options, SubSeq(choice, 1, n - 1))
         IN  IF choice[n] = kSkipped THEN Skip(shorter)
             ELSE Take(shorter, choice[n], options[n].eligible[choice[n]])

assignment_better(a, b) ==
    LexLess(<<a.skipped, a.cost, a.hops>> \o a.choice, <<b.skipped, b.cost, b.hops>> \o b.choice)

\* A mutant's test: one dependent more than the spare capacity.
FitsMutant(options, choice, c) ==
    \A k \in CapacityKeys(c) : Usage(options, choice, k) <= capacity_of(k)

Fits(options, choice, c) ==
    \A k \in CapacityKeys(c) : Usage(options, choice, k) < capacity_of(k)

\* A mutant's bound: ties on cost are cut as well.
PrunedMutant(partial, best) ==
    \/ partial.skipped > best.skipped
    \/ partial.skipped = best.skipped /\ partial.cost >= best.cost

Pruned(partial, best) ==
    \/ partial.skipped > best.skipped
    \/ partial.skipped = best.skipped /\ partial.cost > best.cost

\* ComponentSearch::dfs on the search state [best, have_best, remaining, exhausted], and
\* its loop over the alternatives of a position, the branch that skips it last.
RECURSIVE dfs(_, _, _), Branches(_, _, _, _)
dfs(options, partial, search) ==
    IF ~search.exhausted \/ (search.have_best /\ Pruned(partial, search.best)) THEN search
    ELSE IF Len(partial.choice) < Len(options) THEN Branches(options, partial, 1, search)
    ELSE IF search.have_best /\ ~assignment_better(partial, search.best) THEN search
    ELSE [search EXCEPT !.best = partial, !.have_best = TRUE]
Branches(options, partial, index, search) ==
    LET eligible == options[Len(partial.choice) + 1].eligible
        spent    == [search EXCEPT !.remaining = @ - 1]
    IN  IF ~search.exhausted THEN search
        ELSE IF search.remaining = 0 THEN [search EXCEPT !.exhausted = FALSE]
        ELSE IF index > Len(eligible) THEN dfs(options, Skip(partial), spent)
        ELSE Branches(options, partial, index + 1,
                      IF Fits(options, partial.choice, eligible[index])
                      THEN dfs(options, Take(partial, index, eligible[index]), spent) ELSE spent)

run(options, budget) ==
    dfs(options, NoChoice,
        [best |-> [NoChoice EXCEPT !.choice = [i \in DOMAIN options |-> kSkipped]],
         have_best |-> FALSE, remaining |-> budget, exhausted |-> TRUE])

\* The generations any alternative of a demand would use.
Touched(option) == UNION {CapacityKeys(c) : c \in ToSet(option.eligible)}
Users(options, k) == {i \in DOMAIN options : k \in Touched(options[i])}

\* DisjointSet: demands that may compete for a generation are one component; components
\* are searched in the order of their first demand.
Components(options) ==
    LET Unite(k, blocks) ==
            LET joined == {b \in blocks : b \cap Users(options, k) # {}}
            IN  (blocks \ joined) \cup {UNION joined}
        blocks == FoldSet(Unite, {{i} : i \in DOMAIN options},
                          UNION {Touched(options[i]) : i \in DOMAIN options})
    IN  SetToSortSeq(blocks, LAMBDA a, b : Min(a) < Min(b))

capacity_binding(options) ==
    \E k \in UNION {Touched(options[i]) : i \in DOMAIN options} :
        Cardinality(Users(options, k)) > capacity_of(k)

\* The whole assignment: [choice, proven, nodes].
Greedy(options) ==
    [choice |-> [i \in DOMAIN options |-> IF options[i].eligible = <<>> THEN kSkipped ELSE 1],
     proven |-> TRUE, nodes |-> 0]

SearchComponents(options, budget) ==
    LET Search(sofar, block) ==
            LET positions == SetToSortSeq(block, <)
                evaluations == FoldLeft(LAMBDA s, i : Append(s, options[i]), <<>>, positions)
                result == run(evaluations, sofar.remaining)
            IN  [choice |-> [i \in DOMAIN options |->
                                IF i \in block
                                THEN result.best.choice[CHOOSE p \in DOMAIN positions : positions[p] = i]
                                ELSE sofar.choice[i]],
                 proven |-> sofar.proven /\ result.exhausted,
                 remaining |-> result.remaining]
        done == FoldLeft(Search, [choice |-> [i \in DOMAIN options |-> kSkipped],
                                  proven |-> TRUE, remaining |-> budget], Components(options))
    IN  [choice |-> done.choice, proven |-> done.proven, nodes |-> budget - done.remaining]

Assign(options, budget, reference_mode) ==
    IF reference_mode \/ capacity_binding(options)
    THEN SearchComponents(options, budget) ELSE Greedy(options)
-----------------------------------------------------------------------------
(* Plans. *)

RestoreStep(option, c) ==
    [dependent |-> option.demand[1], covers_failed |-> option.demand[2],
     hops |-> c.hops, links |-> c.links, cost |-> c.cost, evidence |-> c.evidence]
Restores(options, choice) ==
    LET steps == [i \in DOMAIN options |->
                     IF choice[i] = kSkipped THEN <<>>
                     ELSE <<RestoreStep(options[i], Use(options, choice, i))>>]
    IN  FlattenSeq(steps)

UnresolvedReason(option, proven) ==
    IF option.eligible = <<>> THEN option.blocking
    ELSE IF proven THEN "CapacityExhausted" ELSE "SearchLimitReached"

Unresolved(options, assignment) ==
    LET entries == [i \in DOMAIN options |->
                       IF assignment.choice[i] # kSkipped THEN <<>>
                       ELSE <<[dependent |-> options[i].demand[1],
                               covers_failed |-> options[i].demand[2],
                               reason |-> UnresolvedReason(options[i], assignment.proven)]>>]
    IN  FlattenSeq(entries)

Options(failed) ==
    FoldLeft(LAMBDA options, demand : Append(options, evaluate_demand(demand)), <<>>, Demands(failed))

\* A mutant's verdict: a cut enumeration still proves.
feasibility_ofMutant(failed, options, assignment) ==
    IF ~closure_complete(failed) \/ ~assignment.proven THEN "SearchLimitReached"
    ELSE IF Chosen(assignment.choice) = {} THEN "ProvenInfeasible" ELSE "ProvenFeasible"

feasibility_of(failed, options, assignment) ==
    IF \/ ~closure_complete(failed)
       \/ \E i \in DOMAIN options : ~options[i].complete
       \/ ~assignment.proven
    THEN "SearchLimitReached"
    ELSE IF options = <<>> THEN "NothingToRestore"
    ELSE IF Chosen(assignment.choice) = {} THEN "ProvenInfeasible"
    ELSE "ProvenFeasible"

\* What the plan remembers of the policy and the candidates: PlanInputs::policy_digest.
policy_digest == <<planning, table>>

BuildPlan(failed, budget, reference_mode) ==
    LET options == Options(failed)
        assignment == Assign(options, budget, reference_mode)
        unresolved == Unresolved(options, assignment)
    IN  [failed |-> failed, epoch |-> epoch, topology |-> topology, policy |-> policy_digest,
         fences |-> Fences(failed), closure_complete |-> closure_complete(failed),
         restores |-> Restores(options, assignment.choice), unresolved |-> unresolved,
         service_withheld |-> planning.allow_withhold /\ unresolved # <<>>,
         feasibility |-> feasibility_of(failed, options, assignment),
         nodes |-> assignment.nodes]

\* The refusals of plan_internal, "Ok" when there is none.
plan_outcome(failed, budget, reference_mode) ==
    IF failed = {} \/ \E k \in failed : k \notin fenced /\ ~fence_required(k) THEN "Invalid"
    ELSE IF Len(BuildPlan(failed, budget, reference_mode).unresolved)
                > limits.max_unresolved_dependents THEN "Exhausted"
    ELSE "Ok"

\* solve_reference: [optimal_found, plan]; a budget of zero counts as one.
solve_reference(failed, node_budget) ==
    LET solution == BuildPlan(failed, Max({node_budget, 1}), TRUE)
    IN  [plan |-> solution,
         optimal_found |-> solution.feasibility \in {"ProvenFeasible", "ProvenInfeasible"}]
-----------------------------------------------------------------------------
(* The validator: the codes of its findings; a plan is valid without any.  *)

check(condition, code) == IF condition THEN {} ELSE {code}

validate_fences(p) ==
    UNION {check(step.truncated => ~p.closure_complete, "Invalid")
              \cup check(step.failed \in fenced, "Fenced") : step \in p.fences}
        \cup check(p.failed \subseteq {step.failed : step \in p.fences}, "Fenced")

HopFindings(p, hop) ==
    check(hop \notin p.failed, "Fenced") \cup
    (IF hop \in fenced THEN {"Fenced"}
     ELSE IF hop \notin Installed
          THEN IF \E k \in Installed : IdentityOf[k] = IdentityOf[hop] THEN {"Stale"} ELSE {"NotFound"}
     ELSE check(~fence_required(hop), "Fenced") \cup check(verdict[hop] # "conflict", "Conflict"))

\* A mutant's usage: hop occurrences instead of the dependents that use a generation.
UsedMutant(p, k) ==
    MapThenSumSet(LAMBDA i : Cardinality({j \in DOMAIN p.restores[i].hops : p.restores[i].hops[j] = k}),
                  DOMAIN p.restores)

Used(p, k) == Cardinality({i \in DOMAIN p.restores : k \in CapacityKeys(p.restores[i])})

validate_restores(p) ==
    UNION {    check(step.covers_failed \in p.failed, "Invalid")
          \cup check(step.hops # <<>> /\ step.cost # 0, "Invalid")
          \cup UNION {HopFindings(p, hop) : hop \in ToSet(step.hops)}
          \cup check(ToSet(step.links) \subseteq topology.links, "NotFound") :
               step \in ToSet(p.restores)}
    \cup check(\A i, j \in DOMAIN p.restores :
                  p.restores[i].dependent = p.restores[j].dependent =>
                      p.restores[i].covers_failed # p.restores[j].covers_failed \/ i = j,
               "AlreadyExists")
    \cup check(\A k \in Installed : Used(p, k) <= capacity_of(k), "Exhausted")

Resolved(p) == {<<e.dependent, e.covers_failed>> : e \in ToSet(p.restores) \cup ToSet(p.unresolved)}

validate_coverage(p) ==
    check(ToSet(Demands(p.failed)) \subseteq Resolved(p), "PartialClosure")
    \cup check(p.closure_complete = closure_complete(p.failed), "Invalid")

\* The order of restores; two steps of one demand are refused above.
validate_ordering(p) ==
    LET Demand(e) == <<e.dependent, e.covers_failed>>
        Sorted(s) == \A i \in 1..(Len(s) - 1) : ~LexLess(Demand(s[i + 1]), Demand(s[i]))
    IN  check(Sorted(p.restores) /\ Sorted(p.unresolved), "Invalid")

\* A mutant's header: the plan's topology is not compared.
CurrentMutant(p) == p.epoch = epoch /\ p.policy = policy_digest

Current(p) == p.epoch = epoch /\ p.topology = topology /\ p.policy = policy_digest

validate_plan(p) ==
    check(Current(p), "Stale")
    \cup check(p.failed # {}, "Invalid")
    \cup check(p.feasibility = "ProvenInfeasible" => p.restores = <<>> /\ p.unresolved # <<>>, "Invalid")
    \cup check(p.feasibility = "NothingToRestore" => p.restores = <<>>, "Invalid")
    \cup validate_fences(p) \cup validate_restores(p)
    \cup validate_coverage(p) \cup validate_ordering(p)
-----------------------------------------------------------------------------
(* The calls and the changes of the world between them. *)

Accepted(supply, lim) ==
    Cardinality(supply) <= lim.max_candidates_evaluated /\ \A c \in supply : validate_candidate(c)

Init ==
    \E s \in Scenarios :
        /\ Accepted(s.supply, s.limits)
        /\ topology = s.topology
        /\ table \in Tables(s.supply)
        /\ planning = s.planning
        /\ limits = s.limits
        /\ fenced = s.fenced
        /\ verdict = [k \in Keys |-> IF k \in s.failed THEN "failing" ELSE "usable"]
        /\ epoch = 1
        /\ request = s.failed
        /\ plan = <<>>
        /\ refusal = "Ok"
        /\ changes = 0

\* plan_reconstruction, production mode; one plan per behaviour.
plan_reconstruction ==
    /\ plan = <<>>
    /\ LET code == plan_outcome(request, limits.max_candidates_evaluated, FALSE)
       IN  /\ refusal' = code
           /\ plan' = IF code = "Ok"
                      THEN <<BuildPlan(request, limits.max_candidates_evaluated, FALSE)>> ELSE <<>>
    /\ UNCHANGED <<world, request, changes>>

Change == changes < MaxChanges /\ changes' = changes + 1

install_topology(t) ==
    /\ Change
    /\ topology' = t
    /\ refusal' = "Ok"
    /\ UNCHANGED <<table, planning, limits, fenced, verdict, epoch, request, plan>>

install_candidates(supply) ==
    /\ Change
    /\ IF Accepted(supply, limits)
       THEN table' \in Tables(supply) /\ refusal' = "Ok"
       ELSE /\ refusal' = IF Cardinality(supply) > limits.max_candidates_evaluated
                          THEN "Exhausted" ELSE "Invalid"
            /\ UNCHANGED table
    /\ UNCHANGED <<topology, planning, limits, fenced, verdict, epoch, request, plan>>

Fence(k) ==
    /\ Change
    /\ fenced' = fenced \cup {k}
    /\ refusal' = "Ok"
    /\ UNCHANGED <<topology, table, planning, limits, verdict, epoch, request, plan>>

Observe(k, v) ==
    /\ Change
    /\ verdict' = [verdict EXCEPT ![k] = v]
    /\ refusal' = "Ok"
    /\ UNCHANGED <<topology, table, planning, limits, fenced, epoch, request, plan>>

\* A restart: durable plans come back under the epoch they were made in.
Restart ==
    /\ Change
    /\ epoch' = epoch + 1
    /\ refusal' = "Ok"
    /\ UNCHANGED <<topology, table, planning, limits, fenced, verdict, request, plan>>

Next ==
    \/ plan_reconstruction
    \/ \E t \in Topologies : install_topology(t)
    \/ \E supply \in Supplies : install_candidates(supply)
    \/ \E k \in Keys : Fence(k)
    \/ \E k \in Keys, v \in Verdicts : Observe(k, v)
    \/ Restart

Spec == Init /\ [][Next]_vars
-----------------------------------------------------------------------------
(* Properties. *)

\* Every variable has its type, and no plan counts more search nodes than its budget.
TypeOK ==
    /\ fenced \subseteq Keys
    /\ verdict \in [Keys -> {"usable", "failing", "conflict"}]
    /\ refusal \in {"Ok", "Invalid", "Exhausted"}
    /\ changes \in 0..MaxChanges /\ epoch \in 1..(MaxChanges + 1)
    /\ \A p \in ToSet(plan) :
           /\ p.feasibility \in {"ProvenFeasible", "ProvenInfeasible", "SearchLimitReached",
                                 "NothingToRestore"}
           /\ p.nodes \in 0..limits.max_candidates_evaluated

\* All the assignments that respect admission and spare capacity.
Assignments(options) ==
    LET Indices == UNION {DOMAIN options[i].eligible : i \in DOMAIN options} \cup {kSkipped}
    IN  {a \in [DOMAIN options -> Indices] :
            /\ \A i \in Chosen(a) : a[i] \in DOMAIN options[i].eligible
            /\ \A k \in Installed : Usage(options, a, k) <= capacity_of(k)}
Proven(p) == p.feasibility \in {"ProvenFeasible", "ProvenInfeasible"}

\* plan_reconstruction (planning_core.cpp:473): a plan that claims to be proven is the
\* first, under the documented objective, of all assignments within admission and capacity,
\* whether the fast path, one component or several produced it; and so is the solution of
\* the reference solver, whatever its budget, when it claims an optimum.  Where the sum of
\* its costs saturates, it still restores as many dependents as any.
ProvenPlanIsOptimal ==
    [][plan' # plan =>
         LET options == Options(request)
             feasible == {summarise(options, a) : a \in Assignments(options)}
             Best(restores) ==
                 \E a \in feasible : /\ Restores(options, a.choice) = restores
                                     /\ \A b \in feasible :
                                           IF a.cost = UINT64_MAX THEN a.skipped <= b.skipped
                                           ELSE ~assignment_better(b, a)
         IN  /\ Proven(plan'[1]) => Best(plan'[1].restores)
             /\ \A budget \in {0, limits.max_candidates_evaluated} :
                    LET s == solve_reference(request, budget)
                    IN  s.optimal_found => Best(s.plan.restores)]_vars

\* ComponentSearch (planning_core.cpp:295): within any budget the search respects it and
\* every spare capacity, and a larger budget never gives a worse assignment.
BudgetOnlyHelps ==
    [][plan' # plan =>
         LET options == Options(request)
             feasible == Assignments(options)
             Found(b) == LET a == Assign(options, b, TRUE)
                         IN  [budget |-> b, nodes |-> a.nodes, result |-> summarise(options, a.choice)]
             found == {Found(b) : b \in 1..limits.max_candidates_evaluated}
         IN  \A f, g \in found :
                /\ f.nodes <= f.budget
                /\ f.result.choice \in feasible
                /\ f.budget < g.budget => ~assignment_better(f.result, g.result)]_vars

\* propose_plan (failover.cpp:373): the validator accepts what the planner just produced,
\* unless a failed generation is not fenced yet or an alternative names an unknown link,
\* which the planner does not look at.
PlannerOutputValidates ==
    [][plan' # plan =>
         LET p == plan'[1]
             known == \A step \in ToSet(p.restores) : ToSet(step.links) \subseteq topology.links
         IN  validate_plan(p) = check(p.failed \subseteq fenced, "Fenced") \cup check(known, "NotFound")]_vars

\* validate_plan (validator.cpp:47): whatever changed since planning, an accepted plan uses
\* only alternatives that are admissible now, capabilities and failure domains included,
\* within the spare capacity of now, and leaves no affected dependent out.
AcceptedPlanIsAdmissibleNow ==
    \A p \in ToSet(plan) : validate_plan(p) = {} =>
        /\ p.failed \subseteq fenced
        /\ Resolved(p) = ToSet(Demands(p.failed))
        /\ \A step \in ToSet(p.restores) :
               \E c \in ToSet(for_dependent(step.dependent)) :
                   /\ RestoreStep([demand |-> <<step.dependent, step.covers_failed>>], c) = step
                   /\ Eligibility(c, step.covers_failed) = "Eligible"
        /\ \A k \in Installed : Used(p, k) <= capacity_of(k)

\* is_proven_negative (plan.hpp:60): in a plan whose enumeration was complete, a dependent
\* left out for a proven reason could not be added on any alternative of the table.
CertificatesHold ==
    [][plan' # plan =>
         LET p == plan'[1]
         IN  Proven(p) => \A u \in ToSet(p.unresolved) :
                /\ is_proven_negative(u.reason)
                /\ \A c \in ToSet(for_dependent(u.dependent)) :
                      Eligibility(c, u.covers_failed) = "Eligible" =>
                          \E k \in CapacityKeys(c) : Used(p, k) = capacity_of(k)]_vars
=============================================================================
