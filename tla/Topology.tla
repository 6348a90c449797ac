------------------------------ MODULE Topology ------------------------------
(* TopologySnapshot (src/model/topology.cpp): build canonicalises supplied  *)
(* descriptors into a dependency graph and its reverse index, once; closure *)
(* then walks the index breadth first from failed switch generations, under *)
(* a node and an edge budget, to find everything that depends on them.      *)
(*                                                                          *)
(* The declarations are sets of records, so a declaration repeated word for *)
(* word is one element and two elements with one identity contradict each   *)
(* other.  The queue and the adjacency lists are walked in canonical order  *)
(* by the code; here they are sets walked in any order, which allows every  *)
(* order the code can take.                                                 *)
EXTENDS Naturals, FiniteSets

CONSTANTS
    SwitchKeys,   \* switch generations
    Dependents,   \* links, paths and everything only explicit edges name
    Definitions,  \* the inputs of build that are explored
    Budgets,      \* the [nodes, edges] limits that are explored
    RootSets      \* the roots a caller may ask about

AllNodes == SwitchKeys \cup Dependents

Definition == [switches : SUBSET [key : SwitchKeys, domain : Nat],
               links    : SUBSET [id : Dependents, a : SwitchKeys, b : SwitchKeys],
               paths    : SUBSET [id : Dependents, hops : SUBSET SwitchKeys,
                                  links : SUBSET Dependents],
               explicit_edges : SUBSET (AllNodes \X AllNodes)]

Limit == [nodes : Nat, edges : Nat]

ASSUME DefinitionsAssumption == Definitions \subseteq Definition
ASSUME BudgetsAssumption == Budgets \subseteq Limit
ASSUME RootSetsAssumption == RootSets \subseteq SUBSET AllNodes
\* The roots are a vector in the code.
ASSUME FiniteRootsAssumption == \A rs \in RootSets : IsFiniteSet(rs)
\* The declarations, hops and path links are vectors too.
ASSUME FiniteDefinitionsAssumption ==
    \A d \in Definitions :
        /\ IsFiniteSet(d.links) /\ IsFiniteSet(d.paths) /\ IsFiniteSet(d.explicit_edges)
        /\ \A p \in d.paths : IsFiniteSet(p.hops) /\ IsFiniteSet(p.links)

VARIABLES
    supplied,            \* the declarations given to build
    limits_,             \* the limits given to build, kept by the snapshot
    phase,               \* "supplied", "refused", "ready" or "running"
    reverse_adjacency_,  \* node -> the nodes that directly depend on it
    roots,               \* the roots of the latest closure
    budget,              \* node_budget and edge_budget of the latest closure
    members,             \* result.members
    frontier,            \* discovered nodes not yet expanded: queue[head..]
    todo,                \* adjacency of the node being expanded, unexamined
    edges_examined,
    state,               \* "None" until the closure returns
    omitted_frontier,
    omitted_edges

snapshot == <<supplied, limits_, reverse_adjacency_>>
request == <<roots, budget>>
omitted == <<omitted_frontier, omitted_edges>>
vars == <<supplied, limits_, phase, reverse_adjacency_, roots, budget, members,
          frontier, todo, edges_examined, state, omitted_frontier, omitted_edges>>

-----------------------------------------------------------------------------
(* build *)

Ids(descriptors) == {d.id : d \in descriptors}

switch_known(d, keys) == keys \subseteq {s.key : s \in d.switches}

\* Two declarations of one identity that differ
Contradictory(d) ==
    \/ \E s, t \in d.switches : s.key = t.key /\ s # t
    \/ \E s, t \in d.links : s.id = t.id /\ s # t
    \/ \E s, t \in d.paths : s.id = t.id /\ s # t

\* The part of validate the graph depends on; ports, costs and capabilities
\* are not modelled
Malformed(d) == \E p \in d.paths : p.hops = {}

Dangling(d) ==
    \/ \E l \in d.links : ~switch_known(d, {l.a, l.b})
    \/ \E p \in d.paths : \/ ~switch_known(d, p.hops)
                          \/ ~(p.links \subseteq Ids(d.links))

\* <<x, y>>: x depends on y.  A link depends on its endpoints, a path on its
\* hops and links; anything else is declared.
DependencyEdges(d) ==
    {e \in AllNodes \X AllNodes :
        \/ \E l \in d.links : e[1] = l.id /\ e[2] \in {l.a, l.b}
        \/ \E p \in d.paths : e[1] = p.id /\ e[2] \in p.hops \cup p.links
        \/ e \in d.explicit_edges}

Nodes(d) ==
    {n \in AllNodes :
        \/ n \in {s.key : s \in d.switches}
        \/ n \in Ids(d.links) \cup Ids(d.paths)
        \/ \E e \in DependencyEdges(d) : n = e[1] \/ n = e[2]}

ReverseAdjacency(d) ==
    [n \in Nodes(d) |-> {x \in Nodes(d) : <<x, n>> \in DependencyEdges(d)}]

Refused(d, limits) ==
    \/ Cardinality(d.explicit_edges) > limits.edges
    \/ Malformed(d)
    \/ Contradictory(d)
    \/ Dangling(d)
    \/ Cardinality(Nodes(d)) > limits.nodes

build ==
    /\ phase = "supplied"
    /\ IF Refused(supplied, limits_)
         THEN phase' = "refused" /\ UNCHANGED reverse_adjacency_
         ELSE phase' = "ready" /\ reverse_adjacency_' = ReverseAdjacency(supplied)
    /\ UNCHANGED <<supplied, limits_, request, members, frontier, todo,
                   edges_examined, state, omitted>>

-----------------------------------------------------------------------------
(* closure_from *)

\* Mutant: one node short
AtNodeBudgetEarly == Cardinality(members) + 1 >= budget.nodes

AtNodeBudget == Cardinality(members) >= budget.nodes

AtEdgeBudget == edges_examined >= budget.edges

\* A new call: every root is a member, the ones the snapshot holds are queued
closure(rs, limits) ==
    /\ phase = "ready"
    /\ phase' = "running"
    /\ roots' = rs
    /\ budget' = [nodes |-> IF limits.nodes < limits_.nodes THEN limits.nodes ELSE limits_.nodes,
                  edges |-> IF limits.edges < limits_.edges THEN limits.edges ELSE limits_.edges]
    /\ members' = rs
    /\ frontier' = rs \cap DOMAIN reverse_adjacency_
    /\ todo' = {}
    /\ edges_examined' = 0
    /\ state' = "None"
    /\ omitted_frontier' = 0
    /\ omitted_edges' = 0
    /\ UNCHANGED snapshot

Expand ==
    /\ phase = "running" /\ todo = {} /\ frontier # {}
    /\ ~AtNodeBudget /\ ~AtEdgeBudget
    /\ \E n \in frontier :
          /\ frontier' = frontier \ {n}
          /\ todo' = reverse_adjacency_[n]
    /\ UNCHANGED <<snapshot, phase, request, members, edges_examined, state, omitted>>

\* Mutants: an entry is examined without the node budget, or without queueing
\* what it finds
ExaminePastNodes ==
    /\ phase = "running" /\ ~AtEdgeBudget
    /\ edges_examined' = edges_examined + 1
    /\ \E d \in todo :
          /\ todo' = todo \ {d}
          /\ members' = members \cup {d}
          /\ frontier' = IF d \in members THEN frontier ELSE frontier \cup {d}
    /\ UNCHANGED <<snapshot, phase, request, state, omitted>>

ExamineOneHop ==
    /\ phase = "running" /\ ~AtEdgeBudget
    /\ edges_examined' = edges_examined + 1
    /\ \E d \in todo :
          /\ d \in members \/ ~AtNodeBudget
          /\ todo' = todo \ {d}
          /\ members' = members \cup {d}
    /\ UNCHANGED <<snapshot, phase, request, frontier, state, omitted>>

\* One adjacency entry: skipped when visited, otherwise a member and queued
Examine ==
    /\ phase = "running" /\ ~AtEdgeBudget
    /\ edges_examined' = edges_examined + 1
    /\ \E d \in todo :
          /\ d \in members \/ ~AtNodeBudget
          /\ todo' = todo \ {d}
          /\ members' = members \cup {d}
          /\ frontier' = IF d \in members THEN frontier ELSE frontier \cup {d}
    /\ UNCHANGED <<snapshot, phase, request, state, omitted>>

Truncate(examined) ==
    /\ phase' = "ready"
    /\ state' = "Truncated"
    /\ edges_examined' = examined
    /\ omitted_frontier' = Cardinality(frontier)
    /\ omitted_edges' = Cardinality({e \in DependencyEdges(supplied) : e[2] \in frontier})
    /\ UNCHANGED <<snapshot, request, members, frontier, todo>>

\* Mutant: the loop does not stop at the edge budget
StopAtNodesOnly ==
    /\ phase = "running" /\ todo = {} /\ frontier # {}
    /\ AtNodeBudget
    /\ Truncate(edges_examined)

\* At the head of the loop, with nodes still queued
StopBeforeExpanding ==
    /\ phase = "running" /\ todo = {} /\ frontier # {}
    /\ AtNodeBudget \/ AtEdgeBudget
    /\ Truncate(edges_examined)

\* In the middle of a node: its other adjacency entries are never examined
StopWhileExpanding ==
    /\ phase = "running" /\ todo # {}
    /\ \/ AtEdgeBudget /\ Truncate(edges_examined)
       \/ /\ ~AtEdgeBudget /\ AtNodeBudget
          /\ \E d \in todo : d \notin members
          /\ Truncate(edges_examined + 1)

Return ==
    /\ phase = "running" /\ todo = {} /\ frontier = {}
    /\ phase' = "ready"
    /\ state' = IF members \cap Dependents = {} THEN "Empty" ELSE "Complete"
    /\ UNCHANGED <<snapshot, request, members, frontier, todo, edges_examined, omitted>>

-----------------------------------------------------------------------------
Init ==
    /\ supplied \in Definitions
    /\ limits_ \in Budgets
    /\ phase = "supplied"
    /\ reverse_adjacency_ = [n \in {} |-> {}]
    /\ roots = {}
    /\ budget = [nodes |-> 0, edges |-> 0]
    /\ members = {} /\ frontier = {} /\ todo = {}
    /\ edges_examined = 0
    /\ state = "None"
    /\ omitted_frontier = 0 /\ omitted_edges = 0

call == \E rs \in RootSets, limits \in Budgets : closure(rs, limits)

traverse == Expand \/ Examine \/ StopBeforeExpanding \/ StopWhileExpanding \/ Return

Next == build \/ call \/ traverse

\* The traversal is one thread's loop: it keeps taking steps until it returns
Spec == Init /\ [][Next]_vars /\ WF_vars(traverse)

-----------------------------------------------------------------------------
(* Properties *)

\* Every node that transitively depends on a member of rs, by the supplied
\* declarations: the least set that holds rs and, with a node, its dependents
ClosedUnderDependents(S) ==
    \A e \in DependencyEdges(supplied) : e[2] \in S => e[1] \in S

Affected(rs) ==
    {n \in AllNodes : \A S \in SUBSET AllNodes :
        rs \subseteq S /\ ClosedUnderDependents(S) => n \in S}

\* The state of the snapshot and of a traversal has its type.
TypeOK ==
    /\ supplied \in Definition
    /\ limits_ \in Limit
    /\ phase \in {"supplied", "refused", "ready", "running"}
    /\ DOMAIN reverse_adjacency_ \subseteq AllNodes
    /\ \A n \in DOMAIN reverse_adjacency_ : reverse_adjacency_[n] \subseteq AllNodes
    /\ roots \subseteq AllNodes
    /\ budget \in Limit
    /\ members \subseteq AllNodes
    /\ frontier \subseteq members
    /\ todo \subseteq AllNodes
    /\ edges_examined \in Nat
    /\ state \in {"None", "Empty", "Complete", "Truncated"}
    /\ omitted_frontier \in Nat
    /\ omitted_edges \in Nat

\* A closure that is not reported Truncated holds exactly the roots and what
\* transitively depends on them: cycles, diamonds, links shared by paths and
\* roots the snapshot does not hold never make closure_from miss a dependent.
NoSilentOmission ==
    state \in {"Empty", "Complete"} => members = Affected(roots)

\* At every moment of a traversal, and in a truncated result, each member does
\* depend on a root: closure_from never widens a fence to an unrelated node.
MembersAreAffected ==
    members \subseteq Affected(roots)

\* A traversal examines no more adjacency entries than its edge budget, and the
\* node budget bounds the members closure_from adds.  The roots alone are taken
\* without it, so a call with more roots than budget keeps just those.
BudgetsHold ==
    /\ edges_examined <= budget.edges
    /\ Cardinality(members) <= budget.nodes \/ members = roots

\* A budget with room to spare is never the reason to stop: closure_from
\* reports Truncated only when the affected nodes fill the node budget or
\* their adjacency entries fill the edge budget.
TruncatedOnlyAtABound ==
    state = "Truncated" =>
        \/ Cardinality(Affected(roots)) >= budget.nodes
        \/ Cardinality({e \in DependencyEdges(supplied) : e[2] \in Affected(roots)})
             >= budget.edges

\* Every call of closure returns, on cyclic dependency graphs too.
ClosureReturns ==
    phase = "running" ~> phase = "ready"
=============================================================================
