--------------------------- MODULE TopologyProofs ---------------------------
(* Machine-checked results about Topology, for every set of declarations,   *)
(* every budget and every set of roots.                                     *)
EXTENDS Topology, FiniteSetTheorems, TLAPS

(* The members found so far lie inside the affected set.  A member is still *)
(* queued, or its direct dependents are members or about to be examined:    *)
(* when nothing is queued and nothing is left to examine, the members are   *)
(* closed, and the affected set is the least closed one.                    *)
Sound ==
    /\ roots \subseteq AllNodes
    /\ frontier \subseteq members
    /\ frontier \subseteq DOMAIN reverse_adjacency_
    /\ members \subseteq Affected(roots)
    /\ todo \subseteq Affected(roots)
    /\ todo \subseteq DOMAIN reverse_adjacency_

Covered ==
    \/ state = "Truncated"
    \/ /\ roots \subseteq members
       /\ \A e \in DependencyEdges(supplied) :
             e[2] \in members /\ e[2] \notin frontier => e[1] \in members \cup todo

Indexed ==
    phase \in {"ready", "running"} => reverse_adjacency_ = ReverseAdjacency(supplied)

ClosureInv ==
    /\ phase \in {"supplied", "refused", "ready", "running"}
    /\ Indexed
    /\ Sound
    /\ Covered
    /\ phase # "running" /\ state # "Truncated" => todo = {} /\ frontier = {}
    /\ phase # "ready" => state = "None"

-----------------------------------------------------------------------------
(* Affected is a subset of the nodes, holds its roots, is closed under      *)
(* direct dependents, and is inside every closed set that holds the roots.  *)
LEMMA AffectedLeast ==
    ASSUME NEW rs \in SUBSET AllNodes
    PROVE  /\ Affected(rs) \subseteq AllNodes
           /\ rs \subseteq Affected(rs)
           /\ ClosedUnderDependents(Affected(rs))
           /\ \A S \in SUBSET AllNodes :
                 rs \subseteq S /\ ClosedUnderDependents(S) => Affected(rs) \subseteq S
<1>1. Affected(rs) \subseteq AllNodes /\ rs \subseteq Affected(rs)
  BY DEF Affected
<1>2. ClosedUnderDependents(Affected(rs))
  <2>1. SUFFICES ASSUME NEW e \in DependencyEdges(supplied), e[2] \in Affected(rs)
                 PROVE  e[1] \in Affected(rs)
    BY DEF ClosedUnderDependents
  <2>2. e[1] \in AllNodes
    BY DEF DependencyEdges
  <2>3. ASSUME NEW S \in SUBSET AllNodes, rs \subseteq S, ClosedUnderDependents(S)
        PROVE  e[1] \in S
    <3>1. e[2] \in S
      BY <2>1, <2>3 DEF Affected
    <3> QED
      BY <2>3, <3>1 DEF ClosedUnderDependents
  <2> QED
    BY <2>2, <2>3 DEF Affected
<1>3. ASSUME NEW S \in SUBSET AllNodes, rs \subseteq S, ClosedUnderDependents(S)
      PROVE  Affected(rs) \subseteq S
  BY <1>3 DEF Affected
<1> QED
  BY <1>1, <1>2, <1>3

(* The reverse index lists, for a node, exactly the nodes whose edge names  *)
(* it, and every end of an edge is in the index.                            *)
LEMMA IndexExact ==
    /\ \A n \in DOMAIN ReverseAdjacency(supplied) : \A x :
          x \in ReverseAdjacency(supplied)[n] <=> <<x, n>> \in DependencyEdges(supplied)
    /\ \A e \in DependencyEdges(supplied) :
          /\ e = <<e[1], e[2]>>
          /\ e[2] \in DOMAIN ReverseAdjacency(supplied)
<1>1. \A e \in DependencyEdges(supplied) :
         e = <<e[1], e[2]>> /\ e[1] \in AllNodes /\ e[2] \in AllNodes
  BY DEF DependencyEdges
<1>2. \A e \in DependencyEdges(supplied) : e[1] \in Nodes(supplied) /\ e[2] \in Nodes(supplied)
  BY <1>1 DEF Nodes
<1>3. \A n, x : <<x, n>> \in DependencyEdges(supplied) => x \in Nodes(supplied)
  BY <1>2
<1> QED
  BY <1>1, <1>2, <1>3 DEF ReverseAdjacency

-----------------------------------------------------------------------------
(* Affected and the edges are functions of the declarations, which no step  *)
(* changes.                                                                 *)
LEMMA SnapshotImmutable ==
    ASSUME [Next]_vars
    PROVE  /\ supplied' = supplied
           /\ DependencyEdges(supplied)' = DependencyEdges(supplied)
           /\ \A rs : Affected(rs)' = Affected(rs)
<1>1. supplied' = supplied
  BY DEF Next, vars, build, call, closure, traverse, Expand, Examine, Truncate,
         StopBeforeExpanding, StopWhileExpanding, Return, snapshot
<1> QED
  BY <1>1 DEF DependencyEdges, Affected, ClosedUnderDependents, Ids

(* closure_from: the traversal invariant holds in every reachable state.    *)
THEOREM TraversalInvariant == Spec => []ClosureInv
<1>1. Init => ClosureInv
  BY DEF Init, ClosureInv, Indexed, Sound, Covered
<1>2. ASSUME ClosureInv, [Next]_vars PROVE ClosureInv'
  <2> USE DEF ClosureInv, Indexed
  <2>0. /\ supplied' = supplied
        /\ DependencyEdges(supplied)' = DependencyEdges(supplied)
        /\ \A rs : Affected(rs)' = Affected(rs)
    BY <1>2, SnapshotImmutable
  <2>1. CASE build
    BY <1>2, <2>0, <2>1 DEF build, Sound, Covered, request
  <2>2. ASSUME NEW rs \in RootSets, NEW limits \in Budgets, closure(rs, limits)
        PROVE  ClosureInv'
    <3>1. rs \in SUBSET AllNodes
      BY RootSetsAssumption
    <3>2. Sound'
      BY <2>0, <2>2, <3>1, AffectedLeast DEF closure, Sound, snapshot
    <3>3. Covered'
      BY <1>2, <2>0, <2>2, IndexExact DEF closure, Covered, snapshot
    <3> QED
      BY <1>2, <2>0, <2>2, <3>2, <3>3 DEF closure, snapshot
  <2>3. CASE Expand
    <3>1. PICK n \in frontier : frontier' = frontier \ {n} /\ todo' = reverse_adjacency_[n]
      BY <2>3 DEF Expand
    <3>2. /\ reverse_adjacency_ = ReverseAdjacency(supplied)
          /\ n \in DOMAIN ReverseAdjacency(supplied)
          /\ n \in Affected(roots)
      BY <1>2, <2>3, <3>1 DEF Expand, Sound
    <3>3. todo' \subseteq Affected(roots)
      <4>1. ASSUME NEW x \in todo' PROVE x \in Affected(roots)
        <5>1. <<x, n>> \in DependencyEdges(supplied)
          BY <3>1, <3>2, IndexExact
        <5>2. ClosedUnderDependents(Affected(roots))
          BY <1>2, AffectedLeast DEF Sound
        <5> QED
          BY <3>2, <5>1, <5>2 DEF ClosedUnderDependents
      <4> QED
        BY <4>1
    <3>4. todo' \subseteq DOMAIN reverse_adjacency_
      BY <3>1, <3>2 DEF ReverseAdjacency
    <3>5. Sound'
      BY <1>2, <2>0, <2>3, <3>1, <3>3, <3>4 DEF Expand, Sound, snapshot, request
    <3>6. Covered'
      <4>1. ASSUME NEW e \in DependencyEdges(supplied), e[2] \in members, e[2] \notin frontier'
            PROVE  e[1] \in members \cup todo'
        <5>1. CASE e[2] = n
          BY <3>1, <3>2, <5>1, IndexExact
        <5>2. CASE e[2] # n
          BY <1>2, <2>3, <3>1, <4>1, <5>2 DEF Covered, Expand
        <5> QED
          BY <5>1, <5>2
      <4> QED
        BY <1>2, <2>0, <2>3, <4>1 DEF Covered, Expand, request
    <3> QED
      BY <1>2, <2>0, <2>3, <3>5, <3>6 DEF Expand, snapshot
  <2>4. CASE Examine
    <3>0. PICK d \in todo :
             /\ todo' = todo \ {d}
             /\ members' = members \cup {d}
             /\ frontier' = IF d \in members THEN frontier ELSE frontier \cup {d}
      BY <2>4, Zenon DEF Examine
    <3>1. d \in DOMAIN reverse_adjacency_ /\ d \in Affected(roots)
      BY <1>2, <3>0 DEF Sound
    <3>2. Sound'
      BY <1>2, <2>0, <2>4, <3>0, <3>1 DEF Examine, Sound, snapshot, request
    <3>3. Covered'
      BY <1>2, <2>0, <2>4 DEF Examine, Covered, Sound, request
    <3> QED
      BY <1>2, <2>0, <2>4, <3>2, <3>3 DEF Examine, snapshot
  <2>5. CASE StopBeforeExpanding
    BY <1>2, <2>0, <2>5 DEF StopBeforeExpanding, Truncate, Sound, Covered, snapshot, request
  <2>6. CASE StopWhileExpanding
    BY <1>2, <2>0, <2>6 DEF StopWhileExpanding, Truncate, Sound, Covered, snapshot, request
  <2>7. CASE Return
    BY <1>2, <2>0, <2>7 DEF Return, Sound, Covered, snapshot, request
  <2>8. CASE UNCHANGED vars
    BY <1>2, <2>0, <2>8 DEF vars, Sound, Covered
  <2> QED
    BY <1>2, <2>1, <2>2, <2>3, <2>4, <2>5, <2>6, <2>7, <2>8 DEF Next, call, traverse
<1> QED
  BY <1>1, <1>2, PTL DEF Spec

(* A closure reported Empty or Complete is exactly the affected set: what   *)
(* closure_from returns without the Truncated mark misses nothing and adds  *)
(* nothing, whatever the dependency graph.                                  *)
THEOREM ClosureExact == Spec => []NoSilentOmission
<1>1. ClosureInv => NoSilentOmission
  <2>1. SUFFICES ASSUME ClosureInv, state \in {"Empty", "Complete"}
                 PROVE  members = Affected(roots)
    BY DEF NoSilentOmission
  <2>2. todo = {} /\ frontier = {} /\ roots \subseteq members /\ members \subseteq Affected(roots)
    BY <2>1 DEF ClosureInv, Sound, Covered
  <2>3. ClosedUnderDependents(members)
    BY <2>1, <2>2 DEF ClosureInv, Covered, ClosedUnderDependents
  <2>4. roots \in SUBSET AllNodes /\ members \in SUBSET AllNodes
    BY <2>1, <2>2, AffectedLeast DEF ClosureInv, Sound
  <2> QED
    BY <2>2, <2>3, <2>4, AffectedLeast
<1> QED
  BY <1>1, TraversalInvariant, PTL

(* No traversal step, and no truncated result, holds an unrelated node.     *)
THEOREM NothingUnrelated == Spec => []MembersAreAffected
<1>1. ClosureInv => MembersAreAffected
  BY DEF ClosureInv, Sound, MembersAreAffected
<1> QED
  BY <1>1, TraversalInvariant, PTL

-----------------------------------------------------------------------------
(* The members are finite, and each one the traversal adds is added with    *)
(* the node budget not yet reached.                                         *)
BudgetInv ==
    /\ limits_ \in Limit
    /\ budget \in Limit
    /\ edges_examined \in Nat
    /\ IsFiniteSet(members)
    /\ BudgetsHold

(* closure_from never goes past either budget, but for the roots it is      *)
(* given, whatever the graph.                                               *)
THEOREM BudgetsRespected == Spec => []BudgetsHold
<1>1. Init => BudgetInv
  <2>1. IsFiniteSet({}) /\ Cardinality({}) = 0
    BY FS_EmptySet
  <2> QED
    BY <2>1, BudgetsAssumption DEF Init, BudgetInv, BudgetsHold, Limit
<1>2. ASSUME BudgetInv, [Next]_vars PROVE BudgetInv'
  <2> USE DEF BudgetInv
  <2>1. CASE build \/ Expand \/ Return \/ UNCHANGED vars
    BY <1>2, <2>1 DEF build, Expand, Return, vars, snapshot, request, BudgetsHold
  <2>2. ASSUME NEW rs \in RootSets, NEW limits \in Budgets, closure(rs, limits)
        PROVE  BudgetInv'
    <3>1. limits \in Limit /\ IsFiniteSet(rs)
      BY BudgetsAssumption, FiniteRootsAssumption
    <3> QED
      BY <1>2, <2>2, <3>1 DEF closure, snapshot, BudgetsHold, Limit
  <2>3. CASE Examine
    <3>1. PICK d \in todo : (d \in members \/ ~AtNodeBudget) /\ members' = members \cup {d}
      BY <2>3 DEF Examine
    <3>2. /\ edges_examined' = edges_examined + 1 /\ edges_examined < budget.edges
          /\ UNCHANGED <<limits_, budget, roots>>
      BY <1>2, <2>3 DEF Examine, AtEdgeBudget, Limit, snapshot, request
    <3>3. CASE d \in members
      <4>1. members' = members
        BY <3>1, <3>3
      <4> QED
        BY <1>2, <3>2, <4>1 DEF BudgetsHold, Limit
    <3>4. CASE d \notin members
      <4>1. /\ IsFiniteSet(members') /\ Cardinality(members') = Cardinality(members) + 1
            /\ Cardinality(members) \in Nat
        BY <1>2, <3>1, <3>4, FS_AddElement, FS_CardinalityType
      <4>2. Cardinality(members) < budget.nodes
        BY <1>2, <3>1, <3>4, <4>1 DEF AtNodeBudget, Limit
      <4> QED
        BY <1>2, <3>2, <4>1, <4>2 DEF BudgetsHold, Limit
    <3> QED
      BY <3>3, <3>4
  <2>4. CASE StopBeforeExpanding \/ StopWhileExpanding
    <3>1. UNCHANGED <<limits_, budget, roots, members>>
      BY <2>4 DEF StopBeforeExpanding, StopWhileExpanding, Truncate, snapshot, request
    <3>2. \/ edges_examined' = edges_examined
          \/ edges_examined' = edges_examined + 1 /\ ~AtEdgeBudget
      BY <2>4 DEF StopBeforeExpanding, StopWhileExpanding, Truncate
    <3>3. edges_examined' \in Nat /\ edges_examined' <= budget.edges
      BY <1>2, <3>2 DEF AtEdgeBudget, BudgetsHold, Limit
    <3> QED
      BY <1>2, <3>1, <3>3 DEF BudgetsHold
  <2> QED
    BY <1>2, <2>1, <2>2, <2>3, <2>4 DEF Next, call, traverse
<1>3. BudgetInv => BudgetsHold
  BY DEF BudgetInv
<1> QED
  BY <1>1, <1>2, <1>3, PTL DEF Spec

-----------------------------------------------------------------------------
(* The image of a finite set under a function is finite.                    *)
LEMMA FiniteImage ==
    ASSUME NEW S, IsFiniteSet(S), NEW f
    PROVE  IsFiniteSet({f[x] : x \in S})
<1> DEFINE g == [x \in S |-> f[x]]
           T == {f[x] : x \in S}
<1>1. g \in Surjection(S, T)
  BY DEF Surjection
<1> HIDE DEF g, T
<1>2. IsFiniteSet(T)
  BY <1>1, FS_Surjection
<1> QED
  BY <1>2 DEF T

(* Finitely many declarations make finitely many edges.                     *)
LEMMA FiniteEdges ==
    ASSUME NEW d \in Definitions
    PROVE  IsFiniteSet(DependencyEdges(d))
<1>1. /\ IsFiniteSet(d.links) /\ IsFiniteSet(d.paths) /\ IsFiniteSet(d.explicit_edges)
      /\ \A p \in d.paths : IsFiniteSet(p.hops) /\ IsFiniteSet(p.links)
  BY FiniteDefinitionsAssumption
<1> DEFINE linked == [l \in d.links |-> {l.id} \X {l.a, l.b}]
           pathed == [p \in d.paths |-> {p.id} \X (p.hops \cup p.links)]
           L == {linked[l] : l \in d.links}
           P == {pathed[p] : p \in d.paths}
<1>2. IsFiniteSet(L) /\ IsFiniteSet(P)
  <2> HIDE DEF linked, pathed
  <2> QED
    BY <1>1, FiniteImage
<1>3. \A s \in L : IsFiniteSet(s)
  <2>1. ASSUME NEW l \in d.links PROVE IsFiniteSet({l.id} \X {l.a, l.b})
    <3>1. IsFiniteSet({l.id}) /\ IsFiniteSet({l.a}) /\ IsFiniteSet({l.b})
      BY FS_Singleton, Zenon
    <3>2. IsFiniteSet({l.a} \cup {l.b}) /\ {l.a, l.b} = {l.a} \cup {l.b}
      BY <3>1, FS_Union, Zenon
    <3> QED
      BY <3>1, <3>2, FS_Product
  <2> QED
    BY <2>1, Zenon
<1>4. \A s \in P : IsFiniteSet(s)
  <2>1. ASSUME NEW p \in d.paths PROVE IsFiniteSet({p.id} \X (p.hops \cup p.links))
    <3>1. IsFiniteSet({p.id}) /\ IsFiniteSet(p.hops \cup p.links)
      BY <1>1, FS_Singleton, FS_Union, Zenon
    <3> QED
      BY <3>1, FS_Product
  <2> QED
    BY <2>1, Zenon
<1>5. IsFiniteSet(UNION L) /\ IsFiniteSet(UNION P)
  BY <1>2, <1>3, <1>4, FS_UNION, Zenon
<1>6. IsFiniteSet((UNION L) \cup (UNION P) \cup d.explicit_edges)
  <2> HIDE DEF L, P
  <2>1. IsFiniteSet((UNION L) \cup (UNION P))
    BY <1>5, FS_Union, Zenon
  <2> QED
    BY <1>1, <2>1, FS_Union, Zenon
<1>7. DependencyEdges(d) \subseteq (UNION L) \cup (UNION P) \cup d.explicit_edges
  <2>1. ASSUME NEW e \in DependencyEdges(d)
        PROVE  e \in (UNION L) \cup (UNION P) \cup d.explicit_edges
    <3>1. e = <<e[1], e[2]>>
      BY DEF DependencyEdges
    <3>2. ASSUME NEW l \in d.links, e[1] = l.id, e[2] \in {l.a, l.b} PROVE e \in UNION L
      BY <3>1, <3>2
    <3>3. ASSUME NEW p \in d.paths, e[1] = p.id, e[2] \in p.hops \cup p.links PROVE e \in UNION P
      BY <3>1, <3>3
    <3>4. \/ \E l \in d.links : e[1] = l.id /\ e[2] \in {l.a, l.b}
          \/ \E p \in d.paths : e[1] = p.id /\ e[2] \in p.hops \cup p.links
          \/ e \in d.explicit_edges
      BY DEF DependencyEdges
    <3> HIDE DEF L, P
    <3> QED
      BY <3>2, <3>3, <3>4, Zenon
  <2> QED
    BY <2>1, Zenon
<1> HIDE DEF L, P
<1> QED
  BY <1>6, <1>7, FS_Subset

(* What can be affected by finitely many roots is finite.                   *)
LEMMA FiniteAffected ==
    ASSUME supplied \in Definitions, NEW rs \in SUBSET AllNodes, IsFiniteSet(rs)
    PROVE  IsFiniteSet(Affected(rs))
<1> DEFINE E == DependencyEdges(supplied)
           from == [e \in E |-> e[1]]
           S == rs \cup {from[e] : e \in E}
<1>1. IsFiniteSet(E)
  BY FiniteEdges
<1>2. S \in SUBSET AllNodes /\ rs \subseteq S /\ ClosedUnderDependents(S)
  BY Zenon DEF DependencyEdges, ClosedUnderDependents
<1>3. IsFiniteSet(S)
  <2> HIDE DEF from, E
  <2>1. IsFiniteSet({from[e] : e \in E})
    BY <1>1, FiniteImage
  <2> QED
    BY <2>1, FS_Union, Zenon
<1> HIDE DEF S
<1>4. Affected(rs) \subseteq S
  BY <1>2, AffectedLeast
<1> QED
  BY <1>3, <1>4, FS_Subset

(* Every adjacency entry a traversal has examined is an edge of its own: it *)
(* ends in a node that has left the queue for good, and those still to do   *)
(* end in the one node being expanded.                                      *)
Examined(ex, n) ==
    /\ IsFiniteSet(ex) /\ Cardinality(ex) = edges_examined
    /\ \A e \in ex : e \in DependencyEdges(supplied) /\ e[2] \in members \ frontier
    /\ \A x \in todo : /\ n \in members \ frontier
                        /\ <<x, n>> \in DependencyEdges(supplied) /\ <<x, n>> \notin ex

ExaminedInv ==
    /\ supplied \in Definitions
    /\ budget \in Limit /\ limits_ \in Limit /\ edges_examined \in Nat
    /\ roots \subseteq AllNodes /\ IsFiniteSet(roots)
    /\ phase = "running" => \E ex, n : Examined(ex, n)
    /\ TruncatedOnlyAtABound

(* A traversal at one of its bounds has as many affected nodes or entries.  *)
LEMMA BoundIsReached ==
    ASSUME ClosureInv, ExaminedInv, phase = "running", AtNodeBudget \/ AtEdgeBudget
    PROVE  \/ Cardinality(Affected(roots)) >= budget.nodes
           \/ Cardinality({e \in DependencyEdges(supplied) : e[2] \in Affected(roots)})
                >= budget.edges
<1>1. /\ IsFiniteSet(Affected(roots)) /\ members \subseteq Affected(roots)
      /\ budget.nodes \in Nat /\ budget.edges \in Nat
  BY FiniteAffected DEF ExaminedInv, ClosureInv, Sound, Limit
<1>2. CASE AtNodeBudget
  <2>1. IsFiniteSet(members) /\ Cardinality(members) <= Cardinality(Affected(roots))
    BY <1>1, FS_Subset
  <2>2. Cardinality(members) \in Nat /\ Cardinality(Affected(roots)) \in Nat
    BY <1>1, <2>1, FS_CardinalityType
  <2> QED
    BY <1>1, <1>2, <2>1, <2>2 DEF AtNodeBudget
<1>3. CASE AtEdgeBudget
  <2> DEFINE F == {e \in DependencyEdges(supplied) : e[2] \in Affected(roots)}
  <2>1. PICK ex, n : Examined(ex, n)
    BY DEF ExaminedInv
  <2>2. IsFiniteSet(DependencyEdges(supplied))
    BY FiniteEdges DEF ExaminedInv
  <2>3. F \subseteq DependencyEdges(supplied) /\ ex \subseteq F
    BY <1>1, <2>1 DEF Examined
  <2> HIDE DEF F
  <2>4. IsFiniteSet(F)
    BY <2>2, <2>3, FS_Subset
  <2>5. Cardinality(ex) <= Cardinality(F) /\ Cardinality(F) \in Nat
    BY <2>3, <2>4, FS_Subset, FS_CardinalityType
  <2>6. Cardinality(ex) = edges_examined /\ edges_examined \in Nat
    BY <2>1 DEF Examined, ExaminedInv
  <2>7. Cardinality(F) >= budget.edges
    BY <1>1, <1>3, <2>5, <2>6 DEF AtEdgeBudget
  <2> QED
    BY <2>7 DEF F
<1> QED
  BY <1>2, <1>3

(* closure_from reports Truncated only where the affected nodes fill the    *)
(* node budget or their adjacency entries fill the edge budget: no entry is *)
(* counted twice, on a cyclic graph either.                                 *)
THEOREM TruncatedAtABound == Spec => []TruncatedOnlyAtABound
<1>1. Init => ExaminedInv
  <2>1. IsFiniteSet({})
    BY FS_EmptySet
  <2> QED
    BY <2>1, BudgetsAssumption DEF Init, ExaminedInv, TruncatedOnlyAtABound, Limit
<1>2. ASSUME ClosureInv, ExaminedInv, [Next]_vars PROVE ExaminedInv'
  <2>0. /\ supplied' = supplied
        /\ DependencyEdges(supplied)' = DependencyEdges(supplied)
        /\ \A rs : Affected(rs)' = Affected(rs)
    BY <1>2, SnapshotImmutable
  <2>1. CASE build \/ Return \/ UNCHANGED vars
    <3>1. /\ UNCHANGED <<limits_, roots, budget, members, frontier, todo, edges_examined>>
          /\ state' = "Truncated" => state = "Truncated"
          /\ phase' = "running" => phase = "running"
      BY <2>1 DEF build, Return, vars, snapshot, request
    <3>2. \A ex, n : Examined(ex, n) => Examined(ex, n)'
      BY <2>0, <3>1 DEF Examined
    <3>3. TruncatedOnlyAtABound'
      BY <1>2, <2>0, <3>1 DEF ExaminedInv, TruncatedOnlyAtABound
    <3> QED
      BY <1>2, <2>0, <3>1, <3>2, <3>3 DEF ExaminedInv
  <2>2. ASSUME NEW rs \in RootSets, NEW limits \in Budgets, closure(rs, limits)
        PROVE  ExaminedInv'
    <3>1. limits \in Limit /\ IsFiniteSet(rs) /\ rs \subseteq AllNodes /\ limits_ \in Limit
      BY <1>2, BudgetsAssumption, FiniteRootsAssumption, RootSetsAssumption DEF ExaminedInv
    <3>2. budget' \in Limit /\ limits_' = limits_ /\ roots' = rs /\ edges_examined' = 0
      BY <2>2, <3>1 DEF closure, snapshot, Limit
    <3>3. state' = "None" /\ todo' = {}
      BY <2>2 DEF closure
    <3>4. IsFiniteSet({}) /\ Cardinality({}) = 0
      BY FS_EmptySet
    <3>5. Examined({}, 0)'
      BY <3>2, <3>3, <3>4 DEF Examined
    <3> QED
      BY <1>2, <2>0, <3>1, <3>2, <3>3, <3>5 DEF ExaminedInv, TruncatedOnlyAtABound
  <2>3. CASE Expand
    <3>1. PICK ex, n : Examined(ex, n)
      BY <1>2, <2>3 DEF ExaminedInv, Expand
    <3>2. PICK m \in frontier : frontier' = frontier \ {m} /\ todo' = reverse_adjacency_[m]
      BY <2>3 DEF Expand
    <3>3. UNCHANGED <<limits_, roots, budget, members, edges_examined, state, phase>>
      BY <2>3 DEF Expand, snapshot, request
    <3>4. m \in members /\ m \in DOMAIN reverse_adjacency_
      BY <1>2 DEF ClosureInv, Sound
    <3>5. reverse_adjacency_ = ReverseAdjacency(supplied)
      BY <1>2, <2>3 DEF ClosureInv, Indexed, Expand
    <3>6. \A x \in todo' : <<x, m>> \in DependencyEdges(supplied)
      BY <3>2, <3>4, <3>5, IndexExact
    <3>7. ASSUME NEW x \in todo' PROVE <<x, m>> \notin ex
      BY <3>1 DEF Examined
    <3>8. Examined(ex, m)'
      BY <2>0, <3>1, <3>2, <3>3, <3>4, <3>6, <3>7 DEF Examined
    <3>9. TruncatedOnlyAtABound'
      BY <1>2, <2>0, <3>3 DEF ExaminedInv, TruncatedOnlyAtABound
    <3> QED
      BY <1>2, <2>0, <3>3, <3>8, <3>9 DEF ExaminedInv
  <2>4. CASE Examine
    <3>1. PICK ex, n : Examined(ex, n)
      BY <1>2, <2>4 DEF ExaminedInv, Examine
    <3>2. PICK d \in todo :
             /\ todo' = todo \ {d}
             /\ members' = members \cup {d}
             /\ frontier' = IF d \in members THEN frontier ELSE frontier \cup {d}
      BY <2>4, Zenon DEF Examine
    <3>3. /\ UNCHANGED <<limits_, roots, budget, state, phase>>
          /\ edges_examined' = edges_examined + 1 /\ edges_examined \in Nat
      BY <1>2, <2>4 DEF Examine, snapshot, request, ExaminedInv
    <3>4. members \ frontier \subseteq members' \ frontier'
      BY <3>2
    <3>5. /\ <<d, n>> \in DependencyEdges(supplied) /\ <<d, n>> \notin ex
          /\ n \in members \ frontier
      BY <3>1, <3>2 DEF Examined
    <3>6. IsFiniteSet(ex \cup {<<d, n>>}) /\ Cardinality(ex \cup {<<d, n>>}) = edges_examined'
      <4>1. IsFiniteSet(ex) /\ Cardinality(ex) = edges_examined
        BY <3>1 DEF Examined
      <4> QED
        BY <3>3, <3>5, <4>1, FS_AddElement
    <3>7. ASSUME NEW e \in ex \cup {<<d, n>>}
          PROVE  e \in DependencyEdges(supplied) /\ e[2] \in members' \ frontier'
      BY <3>1, <3>4, <3>5 DEF Examined
    <3>8. ASSUME NEW x \in todo'
          PROVE  <<x, n>> \in DependencyEdges(supplied) /\ <<x, n>> \notin ex \cup {<<d, n>>}
      BY <3>1, <3>2 DEF Examined
    <3>9. Examined(ex \cup {<<d, n>>}, n)'
      BY <2>0, <3>4, <3>5, <3>6, <3>7, <3>8 DEF Examined
    <3>10. TruncatedOnlyAtABound'
      BY <1>2, <2>0, <3>3, Zenon DEF ExaminedInv, TruncatedOnlyAtABound
    <3> QED
      BY <1>2, <2>0, <3>3, <3>9, <3>10 DEF ExaminedInv
  <2>5. CASE StopBeforeExpanding \/ StopWhileExpanding
    <3>1. /\ UNCHANGED <<limits_, roots, budget>> /\ phase' = "ready" /\ phase = "running"
          /\ edges_examined' = edges_examined \/ edges_examined' = edges_examined + 1
          /\ AtNodeBudget \/ AtEdgeBudget
      BY <2>5 DEF StopBeforeExpanding, StopWhileExpanding, Truncate, snapshot, request
    <3>2. TruncatedOnlyAtABound'
      BY <1>2, <2>0, <3>1, BoundIsReached DEF TruncatedOnlyAtABound
    <3>3. edges_examined' \in Nat
      BY <1>2, <3>1 DEF ExaminedInv
    <3> QED
      BY <1>2, <2>0, <3>1, <3>2, <3>3 DEF ExaminedInv
  <2> QED
    BY <1>2, <2>1, <2>2, <2>3, <2>4, <2>5 DEF Next, call, traverse
<1>3. ExaminedInv => TruncatedOnlyAtABound
  BY DEF ExaminedInv
<1> QED
  BY <1>1, <1>2, <1>3, TraversalInvariant, PTL DEF Spec
=============================================================================
