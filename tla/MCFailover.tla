----------------------------- MODULE MCFailover -----------------------------
EXTENDS Failover

CONSTANTS d1, d2

\* Generation 1 carries every dependent; the others can replace it.
MCTopologies == {[switches |-> Keys, paths |-> [d \in Dependents |-> {1}]]}
MCCandidates == {<<k>> : k \in Keys \ {1}}
MCBounds == {{2}}
MCNoBounds == {}
MCReports == {<<1, "recovery">>}
=============================================================================
