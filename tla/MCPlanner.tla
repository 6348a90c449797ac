----------------------------- MODULE MCPlanner -----------------------------
(* Small instances of planning: competition for capacity, and admission. *)
EXTENDS Planner

\* Generations 1 and 2 fail; 3 and 4 replace them, 5 is an older 3.
MCIdentity == [k \in Keys |-> IF k = 5 THEN 3 ELSE k]

Switch(domain, capacity, capabilities) ==
    [domain |-> domain, capacity_score |-> capacity, capabilities |-> capabilities]
MCTopology(capacity3, capacity4, two) ==
    [switches |-> [k \in 1..4 |-> IF k < 3 THEN Switch(1, 1, 3)
                                  ELSE Switch(2, IF k = 3 THEN capacity3 ELSE capacity4, 3)],
     links |-> {1}, required |-> [d \in 1..3 |-> 1], cut |-> {},
     reach |-> [k \in Keys |-> IF k = 1 THEN {1, 2} ELSE IF k = 2 THEN two ELSE {}]]

Candidate(d, failed, hops, cost) ==
    [dependent |-> d, covers_failed |-> failed, hops |-> hops, links |-> <<1>>, cost |-> cost,
     capabilities |-> 1, evidence |-> 1, authoritative |-> TRUE]
MCPlanning == [separation |-> TRUE, require_superset |-> TRUE, require_authoritative |-> TRUE,
               allow_withhold |-> TRUE, fence_on_conflict |-> FALSE, max_candidates |-> 3]
MCLimits(budget) == [max_candidates_evaluated |-> budget, max_unresolved_dependents |-> 2]

\* Three demands that compete for the spare capacity of 3 and 4.
Competition ==
    {[topology |-> MCTopology(c3, c4, {3}),
      supply |-> one \cup {Candidate(2, 1, <<3>>, 1), Candidate(2, 1, <<4>>, x)}
                     \cup {Candidate(3, 2, h, x) : h \in third},
      planning |-> MCPlanning, limits |-> MCLimits(budget), failed |-> {1, 2}, fenced |-> {1, 2}] :
        c3 \in 0..1, c4 \in 1..2, x \in 1..2, budget \in {6, 9, 20},
        one \in {{Candidate(1, 1, <<3>>, 1), Candidate(1, 1, <<4>>, 2)},
                 {Candidate(1, 1, <<4, 3, 4>>, 1)}, {}},
        third \in {{<<3>>}, {<<4>>, <<3, 4>>}}}

\* One demand, and the ways in which an alternative may be inadmissible.
Plain == Candidate(1, 1, <<3>>, 1)
Odd ==
    {Plain, [Plain EXCEPT !.covers_failed = 2], [Plain EXCEPT !.authoritative = FALSE],
     [Plain EXCEPT !.hops = <<3, 1>>], [Plain EXCEPT !.hops = <<5>>],
     [Plain EXCEPT !.hops = <<2>>], [Plain EXCEPT !.links = <<2>>],
     [Plain EXCEPT !.capabilities = 2], [Plain EXCEPT !.evidence = 2]}
Sparse == [MCTopology(1, 1, {1}) EXCEPT !.switches[4].domain = 0]
Admission ==
    {[topology |-> t, supply |-> {a, Candidate(1, 1, <<4>>, 2)}, planning |-> p,
      limits |-> MCLimits(3), failed |-> failed, fenced |-> fences] :
        t \in {MCTopology(1, 1, {1}), Sparse, [Sparse EXCEPT !.cut = {F \in SUBSET Keys : 2 \in F}]},
        a \in Odd, failed \in {{1}, {1, 2}}, fences \in {{}, {1, 2}},
        p \in {MCPlanning, [MCPlanning EXCEPT !.max_candidates = 1],
               [MCPlanning EXCEPT !.separation = FALSE, !.require_authoritative = FALSE]}}

\* Capacity for all, and costs whose sum reaches the end of its range.
Saturation ==
    {[topology |-> MCTopology(2, 2, {3}),
      supply |-> {Candidate(1, 1, <<3, 4>>, x), Candidate(1, 1, <<3>>, 4), Candidate(3, 2, <<4>>, 2)},
      planning |-> MCPlanning, limits |-> MCLimits(20), failed |-> {1, 2}, fenced |-> {1, 2}] :
        x \in {1, 3}}

MCScenarios == Competition \cup Admission \cup Saturation
MCTopologies ==
    {[MCTopology(1, 1, {1}) EXCEPT !.switches[3].capabilities = 2],
     [MCTopology(1, 1, {1}) EXCEPT !.switches = [k \in {1, 3} |-> @[k]]]}
MCSupplies == {{}, {Plain, [Plain EXCEPT !.authoritative = FALSE]}, {[Plain EXCEPT !.cost = 0]},
               {Candidate(1, 1, <<3>>, c) : c \in 1..4}}
=============================================================================
