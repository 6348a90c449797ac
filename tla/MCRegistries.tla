---------------------------- MODULE MCRegistries ----------------------------
(* The coordinator's registries: what is known of every generation, who    *)
(* may carry authority and who may call, and the documents that frames and *)
(* the journal carry.  They share no state and no step of one depends on   *)
(* another, so a behaviour follows one of them and leaves the rest as they *)
(* were at the start.                                                      *)
EXTENDS Evidence, AuthorityRegistry, SessionRegistry, Codec

CONSTANTS d1, d2, k1, k2

MCDependents == {d1, d2}
MCKeys == {k1, k2}
MCLineageIds == {1, 2}
MCCauses == {"Fence", "Restart", "OperatorRevocation"}

\* Fencing on missing health only changes what is reported without evidence.
MCPolicies ==
    {[fence_on_authoritative_conflict |-> authoritative,
      fence_on_missing_health |-> ~authoritative,
      allow_same_generation_recovery |-> recovery,
      require_authoritative_failure_evidence |-> authoritative] :
     authoritative, recovery \in BOOLEAN}

Symmetry == Permutations(MCDependents) \cup Permutations(MCKeys)

MCInit == EvidenceInit /\ AuthorityInit /\ Init /\ CodecInit
MCNext ==
    \/ /\ AuthorityInit /\ Init /\ enable_durability /\ CodecInit
       /\ EvidenceNext
       /\ UNCHANGED <<authorityVars, vars, carried>>
    \/ /\ EvidenceInit /\ Init /\ enable_durability /\ CodecInit
       /\ AuthorityNext
       /\ UNCHANGED <<evidenceVars, vars, carried>>
    \/ /\ EvidenceInit /\ AuthorityInit /\ CodecInit
       /\ Next
       /\ UNCHANGED <<evidenceVars, authorityVars, carried>>
    \/ /\ EvidenceInit /\ AuthorityInit /\ Init /\ enable_durability
       /\ CodecNext
       /\ UNCHANGED <<evidenceVars, authorityVars, vars>>
MCSpec == MCInit /\ [][MCNext]_<<evidenceVars, authorityVars, vars, carried>>
=============================================================================
