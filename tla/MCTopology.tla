----------------------------- MODULE MCTopology -----------------------------
(* Small instance of Topology: two switch generations, a link, a path and a *)
(* service, with every pattern of explicit edges out of a small set that    *)
(* closes cycles, and budgets from starved to ample.                        *)
EXTENDS Topology

CONSTANTS s1, s2, link, path, service

MCSwitchKeys == {s1, s2}
MCDependents == {link, path, service}

sw(k, d) == [key |-> k, domain |-> d]
Link(a, b) == [id |-> link, a |-> a, b |-> b]
Path(hops, links) == [id |-> path, hops |-> hops, links |-> links]

SwitchDeclarations ==
    {{sw(s1, 1)}, {sw(s1, 1), sw(s2, 1)}, {sw(s1, 1), sw(s1, 2), sw(s2, 1)}}
LinkDeclarations == {{}, {Link(s1, s2)}, {Link(s1, s1), Link(s1, s2)}}
PathDeclarations == {{}, {Path({}, {link})}, {Path({s1}, {})}, {Path({s2}, {link})}}

\* service -> path -> ... -> service and s1 -> service are the cycles
ExplicitEdges ==
    SUBSET {<<service, path>>, <<service, s1>>, <<path, service>>, <<s1, service>>, <<s2, s1>>}

MCDefinitions ==
    {[switches |-> s, links |-> l, paths |-> p, explicit_edges |-> e] :
        s \in SwitchDeclarations, l \in LinkDeclarations,
        p \in PathDeclarations, e \in ExplicitEdges}

Budget(n, e) == [nodes |-> n, edges |-> e]
MCBudgets == {Budget(1, 1), Budget(4, 3), Budget(5, 5), Budget(8, 20)}
MCRootSets == {{s1}, {s2}, {s1, s2}}
=============================================================================
