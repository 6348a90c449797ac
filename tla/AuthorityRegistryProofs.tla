---------------------- MODULE AuthorityRegistryProofs ----------------------
(* Proofs about AuthorityRegistry, for every value of its constants. *)
EXTENDS AuthorityRegistry, TLAPS

\* The saturating expiry of a grant stays on the time axis, and is never before
\* the instant of the grant.
LEMMA ExpiryInRange ==
    ASSUME NEW t \in 0..TimeMax
    PROVE  ExpiryOf(t) \in t..TimeMax
<1>. DEFINE e == (t + Ttl) % (TimeMax + 1)
<1>1. t + Ttl \in Int /\ TimeMax + 1 \in Nat \ {0}
  BY RegistryAssumption
<1>2. e \in 0..TimeMax
  BY <1>1, RegistryAssumption
<1>3. QED
  BY <1>2, RegistryAssumption DEF ExpiryOf

\* Changing the state and the cause of some grants keeps the registry typed, and
\* keeps every other field of every grant.
LEMMA MoveFacts ==
    ASSUME AuthorityTypeOK, NEW ids, NEW s \in GrantState, NEW c \in RevocationCause,
           Move(ids, s, c)
    PROVE  /\ DOMAIN grants_' = DOMAIN grants_
           /\ grants_' \in [DOMAIN grants_ -> AuthorityGrant]
           /\ \A id \in DOMAIN grants_ :
                 /\ grants_'[id].bound = grants_[id].bound
                 /\ grants_'[id].attempt = grants_[id].attempt
                 /\ grants_'[id].state = IF id \in ids THEN s ELSE grants_[id].state
           /\ UNCHANGED <<fences_, next_grant_, next_fence_, attempt_, now>>
  BY Zenon DEF AuthorityTypeOK, Move, AuthorityGrant

\* The inductive invariant holds initially.
LEMMA InitInv == AuthorityInit => RegistryInv
  BY RegistryAssumption
  DEF AuthorityInit, RegistryInv, AuthorityTypeOK, NoActiveGrantOnFencedGeneration, Active, AuthorityGrant

\* Withdrawing grants (any Move to a state other than Active) preserves the
\* invariant, given what happens to stage and fencing.
LEMMA MoveInv ==
    ASSUME RegistryInv, NEW ids, NEW s \in GrantState \ {"Active"},
           NEW c \in RevocationCause, Move(ids, s, c),
           stage' \in {"recovering", "running"},
           fencing' \subseteq Keys,
           \A id \in DOMAIN grants_ \ ids :
               grants_[id].state = "Active" => grants_[id].bound \cap fencing' = {},
           stage' = "recovering" => stage = "recovering" /\ fencing' = {}
    PROVE  RegistryInv'
<1>1. AuthorityTypeOK
  BY DEF RegistryInv
<1>2. /\ DOMAIN grants_' = DOMAIN grants_
      /\ grants_' \in [DOMAIN grants_ -> AuthorityGrant]
      /\ \A id \in DOMAIN grants_ :
            /\ grants_'[id].bound = grants_[id].bound
            /\ grants_'[id].attempt = grants_[id].attempt
            /\ grants_'[id].state = IF id \in ids THEN s ELSE grants_[id].state
      /\ UNCHANGED <<fences_, next_grant_, next_fence_, attempt_, now>>
  BY <1>1, MoveFacts, Zenon
<1>3. Active' \subseteq Active /\ Active' \cap ids = {}
  BY <1>2 DEF Active
<1>4. AuthorityTypeOK'
  BY <1>1, <1>2 DEF AuthorityTypeOK
<1>5. NoActiveGrantOnFencedGeneration'
  BY <1>2, <1>3 DEF RegistryInv, NoActiveGrantOnFencedGeneration, Active
<1>6. \A id \in Active' : grants_'[id].bound \cap fencing' = {}
  BY <1>2, <1>3 DEF Active
<1>7. (stage = "recovering" => Active = {} /\ fencing = {})'
  BY <1>3 DEF RegistryInv
<1>8. /\ \A id \in DOMAIN grants_' :
            id < next_grant_' /\ grants_'[id].attempt <= attempt_'
      /\ \A k \in DOMAIN fences_' : fences_'[k] < next_fence_'
  BY <1>2 DEF RegistryInv
<1>. QED
  BY <1>4, <1>5, <1>6, <1>7, <1>8 DEF RegistryInv

\* A new grant preserves the invariant: its generations are not fenced, and no
\* generation is between fence_generations and commit_fence.
LEMMA GrantInv ==
    ASSUME RegistryInv, NEW d \in Dependents, NEW bound \in SUBSET Keys, grant(d, bound)
    PROVE  RegistryInv'
<1>. DEFINE new == [dependent |-> d, bound |-> bound, attempt |-> attempt_ + 1,
                    granted_at |-> now, expires_at |-> ExpiryOf(now),
                    state |-> "Active", cause |-> "Unknown"]
<1>1. /\ DOMAIN grants_' = DOMAIN grants_ \cup {next_grant_}
      /\ grants_'[next_grant_] = new
      /\ \A id \in DOMAIN grants_ : id # next_grant_ /\ grants_'[id] = grants_[id]
  BY DEF grant, GrantUnchecked, RegistryInv, AuthorityTypeOK
<1>2. new \in AuthorityGrant
  <2>1. ExpiryOf(now) \in 0..TimeMax
    BY ExpiryInRange DEF RegistryInv, AuthorityTypeOK
  <2>. QED
    BY <2>1 DEF RegistryInv, AuthorityTypeOK, AuthorityGrant, GrantState, RevocationCause
<1>3. grants_' \in [DOMAIN grants_' -> AuthorityGrant]
  BY <1>1, <1>2 DEF grant, GrantUnchecked, RegistryInv, AuthorityTypeOK
<1>4. AuthorityTypeOK'
  BY <1>1, <1>3 DEF grant, GrantUnchecked, RegistryInv, AuthorityTypeOK
<1>5. Active' = Active \cup {next_grant_}
  BY <1>1 DEF Active
<1>6. NoActiveGrantOnFencedGeneration'
  BY <1>1, <1>5 DEF RegistryInv, NoActiveGrantOnFencedGeneration, grant,
                    GrantUnchecked, is_fenced, Active
<1>7. fencing' = {} /\ stage' = "running"
  BY DEF grant, GrantUnchecked, Running
<1>8. \A id \in DOMAIN grants_' :
          id < next_grant_' /\ grants_'[id].attempt <= attempt_'
  <2>1. TAKE id \in DOMAIN grants_'
  <2>2. next_grant_' = next_grant_ + 1 /\ attempt_' = attempt_ + 1
    BY DEF grant, GrantUnchecked
  <2>3. CASE id = next_grant_
    BY <1>1, <2>2, <2>3 DEF RegistryInv, AuthorityTypeOK
  <2>4. CASE id \in DOMAIN grants_
    <3>1. id < next_grant_ /\ grants_[id].attempt <= attempt_ /\ grants_'[id] = grants_[id]
      BY <1>1, <2>4 DEF RegistryInv
    <3>2. id \in Nat /\ grants_[id].attempt \in Nat /\ next_grant_ \in Nat /\ attempt_ \in Nat
      BY <2>4 DEF RegistryInv, AuthorityTypeOK, AuthorityGrant
    <3>. QED
      BY <2>2, <3>1, <3>2
  <2>. QED
    BY <1>1, <2>3, <2>4
<1>9. \A k \in DOMAIN fences_' : fences_'[k] < next_fence_'
  BY DEF grant, GrantUnchecked, RegistryInv
<1>. QED
  BY <1>4, <1>6, <1>7, <1>8, <1>9 DEF RegistryInv

\* Committing the fence preserves the invariant: fence_generations has left no
\* Active grant on the generation.
LEMMA CommitFenceInv ==
    ASSUME RegistryInv, NEW k \in Keys, commit_fence(k)
    PROVE  RegistryInv'
<1>1. /\ DOMAIN fences_' = DOMAIN fences_ \cup {k}
      /\ fences_'[k] = next_fence_
      /\ \A key \in DOMAIN fences_ : fences_'[key] = fences_[key]
      /\ next_fence_' = next_fence_ + 1
      /\ fencing' = {}
      /\ k \in fencing
      /\ UNCHANGED <<grants_, next_grant_, attempt_, now, stage>>
  BY DEF commit_fence, is_fenced
<1>2. AuthorityTypeOK'
  BY <1>1 DEF RegistryInv, AuthorityTypeOK, commit_fence
<1>3. NoActiveGrantOnFencedGeneration'
  BY <1>1 DEF RegistryInv, NoActiveGrantOnFencedGeneration, Active
<1>4. \A key \in DOMAIN fences_' : fences_'[key] < next_fence_'
  BY <1>1 DEF RegistryInv, AuthorityTypeOK
<1>. QED
  BY <1>1, <1>2, <1>3, <1>4 DEF RegistryInv, Active

\* Restoring a grant preserves the invariant: it is Stale, and both counters move
\* past it.
LEMMA RestoreGrantInv ==
    ASSUME RegistryInv, NEW id \in LineageIds, NEW d \in Dependents,
           NEW bound \in SUBSET Keys, NEW attempt \in LineageIds,
           restore_grant(id, d, bound, attempt)
    PROVE  RegistryInv'
<1>. DEFINE new == [dependent |-> d, bound |-> bound, attempt |-> attempt,
                    granted_at |-> 0, expires_at |-> TimeMax,
                    state |-> "Stale", cause |-> "Restart"]
<1>1. /\ DOMAIN grants_' = DOMAIN grants_ \cup {id}
      /\ grants_'[id] = new
      /\ \A i \in DOMAIN grants_ : i # id => grants_'[i] = grants_[i]
      /\ attempt_' = Larger(attempt, attempt_)
      /\ next_grant_' = Larger(id + 1, next_grant_)
      /\ UNCHANGED <<fences_, next_fence_, now, stage, fencing>>
      /\ stage = "recovering"
  BY DEF restore_grant, RestoreAs
<1>2. id \in Nat /\ attempt \in Nat
  BY RegistryAssumption
<1>3. new \in AuthorityGrant
  BY <1>2, RegistryAssumption DEF AuthorityGrant, GrantState, RevocationCause
<1>4. grants_' \in [DOMAIN grants_' -> AuthorityGrant]
  BY <1>1, <1>3 DEF restore_grant, RestoreAs, RegistryInv, AuthorityTypeOK
<1>5. AuthorityTypeOK'
  BY <1>1, <1>2, <1>4 DEF RegistryInv, AuthorityTypeOK, Larger
<1>6. Active' = {}
  <2>1. Active = {}
    BY <1>1 DEF RegistryInv
  <2>. QED
    BY <1>1, <2>1 DEF Active
<1>7. \A i \in DOMAIN grants_' :
          i < next_grant_' /\ grants_'[i].attempt <= attempt_'
  <2>1. TAKE i \in DOMAIN grants_'
  <2>2. CASE i = id
    <3>1. next_grant_ \in Nat /\ attempt_ \in Nat
      BY DEF RegistryInv, AuthorityTypeOK
    <3>. QED
      BY <1>1, <1>2, <2>2, <3>1 DEF Larger
  <2>3. CASE i \in DOMAIN grants_ /\ i # id
    <3>1. i < next_grant_ /\ grants_[i].attempt <= attempt_ /\ grants_'[i] = grants_[i]
      BY <1>1, <2>3 DEF RegistryInv
    <3>2. i \in Nat /\ grants_[i].attempt \in Nat /\ next_grant_ \in Nat /\ attempt_ \in Nat
      BY <2>3 DEF RegistryInv, AuthorityTypeOK, AuthorityGrant
    <3>. QED
      BY <1>1, <1>2, <3>1, <3>2 DEF Larger
  <2>. QED
    BY <1>1, <2>2, <2>3
<1>. QED
  BY <1>1, <1>5, <1>6, <1>7 DEF RegistryInv, NoActiveGrantOnFencedGeneration

\* Restoring a fence preserves the invariant: nothing is Active yet.
LEMMA RestoreFenceInv ==
    ASSUME RegistryInv, NEW k \in Keys, NEW id \in LineageIds, restore_fence(k, id)
    PROVE  RegistryInv'
<1>1. /\ DOMAIN fences_' = DOMAIN fences_ \cup {k}
      /\ fences_'[k] = id
      /\ \A key \in DOMAIN fences_ : key # k => fences_'[key] = fences_[key]
      /\ next_fence_' = Larger(id + 1, next_fence_)
      /\ UNCHANGED <<grants_, next_grant_, attempt_, now, stage, fencing>>
      /\ stage = "recovering"
  BY DEF restore_fence
<1>2. id \in Nat
  BY RegistryAssumption
<1>3. AuthorityTypeOK'
  BY <1>1, <1>2 DEF RegistryInv, AuthorityTypeOK, restore_fence, Larger
<1>4. Active' = {}
  BY <1>1 DEF RegistryInv, Active
<1>5. \A key \in DOMAIN fences_' : fences_'[key] < next_fence_'
  BY <1>1, <1>2 DEF RegistryInv, AuthorityTypeOK, Larger
<1>. QED
  BY <1>1, <1>3, <1>4, <1>5 DEF RegistryInv, NoActiveGrantOnFencedGeneration

\* Every step preserves the invariant, one case per action.
LEMMA NextInv == RegistryInv /\ [AuthorityNext]_authorityVars => RegistryInv'
<1>. SUFFICES ASSUME RegistryInv, [AuthorityNext]_authorityVars
              PROVE  RegistryInv'
  OBVIOUS
<1>. USE RegistryAssumption DEF GrantState, RevocationCause
<1>1. ASSUME NEW d \in Dependents, NEW bound \in SUBSET Keys, grant(d, bound)
      PROVE  RegistryInv'
  BY <1>1, GrantInv
<1>2. ASSUME NEW id \in DOMAIN grants_, NEW c \in CallerCauses, revoke(id, c)
      PROVE  RegistryInv'
  BY <1>2, MoveInv DEF revoke, Running
<1>3. ASSUME NEW k \in Keys, fence_generations(k)
      PROVE  RegistryInv'
  <2>. DEFINE ids == {id \in Active : k \in grants_[id].bound}
  <2>1. \A id \in DOMAIN grants_ \ ids :
            grants_[id].state = "Active" => grants_[id].bound \cap {k} = {}
    BY DEF Active
  <2>2. Move(ids, "Fenced", "Fence") /\ fencing' = {k} /\ stage' = stage /\ stage = "running"
    BY <1>3 DEF fence_generations, Running
  <2>. QED
    BY <2>1, <2>2, MoveInv
<1>4. ASSUME NEW k \in Keys, commit_fence(k)
      PROVE  RegistryInv'
  BY <1>4, CommitFenceInv
<1>5. ASSUME NEW k \in Keys, FenceNotCommitted(k)
      PROVE  RegistryInv'
  BY <1>5 DEF FenceNotCommitted, registry, RegistryInv, AuthorityTypeOK,
              NoActiveGrantOnFencedGeneration, Active
<1>6. ASSUME NEW d \in Dependents, NEW c \in CallerCauses, revoke_dependent(d, c)
      PROVE  RegistryInv'
  BY <1>6, MoveInv DEF revoke_dependent, Running
<1>7. CASE expire_due
  BY <1>7, MoveInv DEF expire_due, Running
<1>8. ASSUME NEW c \in CallerCauses, withdraw_all(c)
      PROVE  RegistryInv'
  <2>1. StateForCause(c) \in GrantState \ {"Active"}
    BY DEF StateForCause
  <2>. QED
    BY <1>8, <2>1, MoveInv DEF withdraw_all, Running
<1>9. CASE Restart
  BY <1>9 DEF Restart, RegistryInv, AuthorityTypeOK, NoActiveGrantOnFencedGeneration, Active
<1>10. ASSUME NEW id \in LineageIds, NEW d \in Dependents,
              NEW bound \in (SUBSET Keys) \ {{}}, NEW attempt \in LineageIds,
              restore_grant(id, d, bound, attempt)
       PROVE  RegistryInv'
  BY <1>10, RestoreGrantInv
<1>11. ASSUME NEW k \in Keys, NEW id \in LineageIds, restore_fence(k, id)
       PROVE  RegistryInv'
  BY <1>11, RestoreFenceInv
<1>12. CASE invalidate_pre_restart
  <2>1. fencing = {} /\ fencing' = {} /\ stage' = "running"
    BY <1>12 DEF invalidate_pre_restart, RegistryInv
  <2>2. Move(Active, "Stale", "Restart")
    BY <1>12 DEF invalidate_pre_restart
  <2>. QED
    BY <2>1, <2>2, MoveInv
<1>13. CASE Tick
  BY <1>13 DEF Tick, registry, RegistryInv, AuthorityTypeOK, NoActiveGrantOnFencedGeneration, Active
<1>14. CASE UNCHANGED authorityVars
  BY <1>14 DEF authorityVars, registry, RegistryInv, AuthorityTypeOK, NoActiveGrantOnFencedGeneration, Active
<1>. QED
  BY <1>1, <1>2, <1>3, <1>4, <1>5, <1>6, <1>7, <1>8, <1>9, <1>10, <1>11, <1>12,
     <1>13, <1>14 DEF AuthorityNext

\* The inductive invariant holds in every reachable state.
THEOREM RegistryInvariant == AuthoritySpec => []RegistryInv
  BY InitInv, NextInv, PTL DEF AuthoritySpec

\* The variables keep their types: in particular a grant's expiry never leaves
\* the 64-bit time axis.
THEOREM TypeCorrect == AuthoritySpec => []AuthorityTypeOK
<1>1. RegistryInv => AuthorityTypeOK
  BY DEF RegistryInv
<1>. QED
  BY <1>1, RegistryInvariant, PTL

\* No reader ever sees an Active grant on a fenced generation, the state between
\* fence_generations and commit_fence included.
THEOREM FencedNeverActive == AuthoritySpec => []NoActiveGrantOnFencedGeneration
<1>1. RegistryInv => NoActiveGrantOnFencedGeneration
  BY DEF RegistryInv
<1>. QED
  BY <1>1, RegistryInvariant, PTL

\* Every Move leads away from Active.
LEMMA MoveWithdraws ==
    ASSUME NEW ids, NEW s, s # "Active", NEW c, Move(ids, s, c), AuthorityTypeOK
    PROVE  \A id \in DOMAIN grants_ \cap DOMAIN grants_' :
               grants_[id].state # "Active" => grants_'[id].state # "Active"
  BY Zenon DEF Move, AuthorityTypeOK, AuthorityGrant

\* Authority comes back only as a new grant: withdrawn grants, and the grants
\* restored from durable lineage, are never Active again.
THEOREM WithdrawnForever == AuthoritySpec => WithdrawnStaysWithdrawn
<1>1. ASSUME RegistryInv, [AuthorityNext]_authorityVars
      PROVE  [\A id \in DOMAIN grants_ \cap DOMAIN grants_' :
                 grants_[id].state # "Active" => grants_'[id].state # "Active"]_authorityVars
  <2>. DEFINE Kept == \A id \in DOMAIN grants_ \cap DOMAIN grants_' :
                 grants_[id].state # "Active" => grants_'[id].state # "Active"
  <2>. USE RegistryAssumption
  <2>0. AuthorityTypeOK
    BY <1>1 DEF RegistryInv
  <2>1. ASSUME NEW d \in Dependents, NEW bound \in SUBSET Keys, grant(d, bound)
        PROVE  Kept
    <3>1. next_grant_ \notin DOMAIN grants_
      BY <1>1 DEF RegistryInv, AuthorityTypeOK
    <3>2. \A id \in DOMAIN grants_ : grants_'[id] = grants_[id]
      BY <2>1, <3>1 DEF grant, GrantUnchecked
    <3>. QED
      BY <3>2
  <2>2. ASSUME NEW id \in DOMAIN grants_, NEW c \in CallerCauses, revoke(id, c)
        PROVE  Kept
    BY <2>0, <2>2, MoveWithdraws DEF revoke
  <2>3. ASSUME NEW k \in Keys, fence_generations(k)
        PROVE  Kept
    BY <2>0, <2>3, MoveWithdraws DEF fence_generations
  <2>4. ASSUME NEW k \in Keys, commit_fence(k) \/ FenceNotCommitted(k)
        PROVE  Kept
    BY <2>4 DEF commit_fence, FenceNotCommitted, registry
  <2>5. ASSUME NEW d \in Dependents, NEW c \in CallerCauses, revoke_dependent(d, c)
        PROVE  Kept
    BY <2>0, <2>5, MoveWithdraws DEF revoke_dependent
  <2>6. CASE expire_due
    BY <2>0, <2>6, MoveWithdraws DEF expire_due
  <2>7. ASSUME NEW c \in CallerCauses, withdraw_all(c)
        PROVE  Kept
    <3>1. StateForCause(c) # "Active"
      BY DEF StateForCause
    <3>. QED
      BY <2>0, <2>7, <3>1, MoveWithdraws DEF withdraw_all
  <2>8. CASE Restart
    BY <2>8 DEF Restart
  <2>9. ASSUME NEW id \in LineageIds, NEW d \in Dependents,
               NEW bound \in (SUBSET Keys) \ {{}}, NEW attempt \in LineageIds,
               restore_grant(id, d, bound, attempt)
        PROVE  Kept
    BY <2>9 DEF restore_grant, RestoreAs
  <2>10. ASSUME NEW k \in Keys, NEW id \in LineageIds, restore_fence(k, id)
         PROVE  Kept
    BY <2>10 DEF restore_fence
  <2>11. CASE invalidate_pre_restart
    BY <2>0, <2>11, MoveWithdraws DEF invalidate_pre_restart
  <2>12. CASE Tick
    BY <2>12 DEF Tick, registry
  <2>. QED
    BY <1>1, <2>1, <2>2, <2>3, <2>4, <2>5, <2>6, <2>7, <2>8, <2>9, <2>10, <2>11, <2>12
    DEF AuthorityNext
<1>. QED
  BY <1>1, RegistryInvariant, PTL DEF AuthoritySpec, WithdrawnStaysWithdrawn

\* A minted grant is active at the instant it is minted, wherever on the time
\* axis that is, and no identity or attempt number is ever handed out twice.
THEOREM FreshIdentities == AuthoritySpec => MintsFreshIdentity
<1>. DEFINE Fresh == stage = "running" /\ stage' = "running" =>
          /\ \A id \in DOMAIN grants_' \ DOMAIN grants_ :
              /\ active_at(grants_'[id], now')
              /\ \A old \in DOMAIN grants_ :
                     old < id /\ grants_[old].attempt < grants_'[id].attempt
          /\ \A k \in DOMAIN fences_' \ DOMAIN fences_ :
                 \A old \in DOMAIN fences_ : fences_[old] < fences_'[k]
<1>1. ASSUME RegistryInv, [AuthorityNext]_authorityVars
      PROVE  [Fresh]_authorityVars
  <2>. USE RegistryAssumption
  <2>0. AuthorityTypeOK
    BY <1>1 DEF RegistryInv
  <2>1. ASSUME NEW d \in Dependents, NEW bound \in SUBSET Keys, grant(d, bound)
        PROVE  Fresh
    <3>1. /\ DOMAIN grants_' \ DOMAIN grants_ \subseteq {next_grant_}
          /\ grants_'[next_grant_] =
                [dependent |-> d, bound |-> bound, attempt |-> attempt_ + 1,
                 granted_at |-> now, expires_at |-> ExpiryOf(now),
                 state |-> "Active", cause |-> "Unknown"]
          /\ now' = now /\ fences_' = fences_
      BY <2>1 DEF grant, GrantUnchecked
    <3>2. ExpiryOf(now) \in now..TimeMax
      BY <2>0, ExpiryInRange DEF AuthorityTypeOK
    <3>3. ExpiryOf(now) # 0
      BY <2>0 DEF ExpiryOf, AuthorityTypeOK
    <3>4. active_at(grants_'[next_grant_], now')
      BY <2>0, <3>1, <3>2, <3>3 DEF active_at, AuthorityTypeOK
    <3>5. \A old \in DOMAIN grants_ :
             old < next_grant_ /\ grants_[old].attempt < grants_'[next_grant_].attempt
      <4>1. \A old \in DOMAIN grants_ :
               /\ old < next_grant_ /\ grants_[old].attempt <= attempt_
               /\ grants_[old] \in AuthorityGrant
        BY <1>1, <2>0 DEF RegistryInv, AuthorityTypeOK
      <4>2. \A g \in AuthorityGrant : g.attempt \in Nat
        BY DEF AuthorityGrant
      <4>3. attempt_ \in Nat /\ grants_'[next_grant_].attempt = attempt_ + 1
        BY <2>0, <3>1 DEF AuthorityTypeOK
      <4>. QED
        BY <4>1, <4>2, <4>3
    <3>. QED
      BY <3>1, <3>4, <3>5
  <2>2. ASSUME NEW k \in Keys, commit_fence(k)
        PROVE  Fresh
    <3>1. /\ DOMAIN fences_' \ DOMAIN fences_ = {k}
          /\ fences_'[k] = next_fence_
          /\ grants_' = grants_
      BY <2>2 DEF commit_fence, is_fenced
    <3>. QED
      BY <1>1, <3>1 DEF RegistryInv
  <2>3. ASSUME NEW ids, NEW s, NEW c, Move(ids, s, c)
        PROVE  Fresh
    BY <2>3, Zenon DEF Move
  <2>4. ASSUME NEW id \in DOMAIN grants_, NEW c \in CallerCauses, revoke(id, c)
        PROVE  Fresh
    BY <2>3, <2>4 DEF revoke
  <2>5. ASSUME NEW k \in Keys, fence_generations(k) \/ FenceNotCommitted(k)
        PROVE  Fresh
    BY <2>3, <2>5 DEF fence_generations, FenceNotCommitted, registry
  <2>6. ASSUME NEW d \in Dependents, NEW c \in CallerCauses, revoke_dependent(d, c)
        PROVE  Fresh
    BY <2>3, <2>6 DEF revoke_dependent
  <2>7. ASSUME NEW c \in CallerCauses, withdraw_all(c)
        PROVE  Fresh
    BY <2>3, <2>7 DEF withdraw_all
  <2>8. CASE expire_due \/ invalidate_pre_restart
    BY <2>3, <2>8 DEF expire_due, invalidate_pre_restart
  <2>9. ASSUME \/ Restart
               \/ \E id \in LineageIds, d \in Dependents, bound \in (SUBSET Keys) \ {{}},
                     attempt \in LineageIds : restore_grant(id, d, bound, attempt)
               \/ \E k \in Keys, id \in LineageIds : restore_fence(k, id)
        PROVE  Fresh
    BY <2>9 DEF Restart, restore_grant, RestoreAs, restore_fence
  <2>10. CASE Tick
    BY <2>10 DEF Tick, registry
  <2>. QED
    BY <1>1, <2>1, <2>2, <2>4, <2>5, <2>6, <2>7, <2>8, <2>9, <2>10 DEF AuthorityNext
<1>. QED
  BY <1>1, RegistryInvariant, PTL DEF AuthoritySpec, MintsFreshIdentity

\* Every grant binds a generation: grant() refuses an empty set, and durable
\* lineage holds none.
GrantsBind == \A id \in DOMAIN grants_ : grants_[id].bound # {}

\* No step unbinds a grant, or adds one that binds nothing.
LEMMA EveryGrantBinds == AuthoritySpec => []GrantsBind
<1>1. AuthorityInit => GrantsBind
  BY DEF AuthorityInit, GrantsBind
<1>2. ASSUME AuthorityTypeOK, GrantsBind, [AuthorityNext]_authorityVars PROVE GrantsBind'
  <2>. USE RegistryAssumption
  <2>1. ASSUME NEW ids, NEW s, NEW c, Move(ids, s, c) PROVE GrantsBind'
    BY <1>2, <2>1, Zenon DEF Move, GrantsBind, AuthorityTypeOK, AuthorityGrant
  <2>2. ASSUME NEW d \in Dependents, NEW bound \in SUBSET Keys, grant(d, bound) PROVE GrantsBind'
    BY <1>2, <2>2 DEF grant, GrantUnchecked, GrantsBind
  <2>3. ASSUME NEW id \in LineageIds, NEW d \in Dependents, NEW bound \in (SUBSET Keys) \ {{}},
               NEW attempt \in LineageIds, restore_grant(id, d, bound, attempt)
        PROVE  GrantsBind'
    <3>1. /\ DOMAIN grants_' = DOMAIN grants_ \cup {id}
          /\ grants_'[id].bound = bound
          /\ \A i \in DOMAIN grants_ : i # id => grants_'[i] = grants_[i]
      BY <2>3 DEF restore_grant, RestoreAs
    <3>. QED
      BY <1>2, <2>3, <3>1 DEF GrantsBind
  <2>4. CASE \/ \E id \in DOMAIN grants_, c \in CallerCauses : revoke(id, c)
             \/ \E k \in Keys : fence_generations(k)
             \/ \E d \in Dependents, c \in CallerCauses : revoke_dependent(d, c)
             \/ expire_due
             \/ \E c \in CallerCauses : withdraw_all(c)
             \/ invalidate_pre_restart
    BY <2>1, <2>4, Zenon DEF revoke, fence_generations, revoke_dependent, expire_due, withdraw_all,
                      invalidate_pre_restart
  <2>5. CASE Restart
    BY <2>5 DEF Restart, GrantsBind
  <2>6. CASE \/ \E k \in Keys : commit_fence(k) \/ FenceNotCommitted(k)
             \/ \E k \in Keys, id \in LineageIds : restore_fence(k, id)
             \/ Tick \/ UNCHANGED authorityVars
    BY <1>2, <2>6, Zenon DEF commit_fence, FenceNotCommitted, restore_fence, Tick, authorityVars, registry,
                             GrantsBind
  <2>. QED
    BY <1>2, <2>2, <2>3, <2>4, <2>5, <2>6 DEF AuthorityNext
<1>. QED
  BY <1>1, <1>2, TypeCorrect, PTL DEF AuthoritySpec

\* query() affirms authority exactly when the contract does; it never reports a
\* fence to the holder of an active grant, nor an outcome it cannot explain.
THEOREM QueryIsContract == AuthoritySpec => []QueryMatchesContract
<1>1. ASSUME RegistryInv, GrantsBind PROVE QueryMatchesContract
  <2>1. SUFFICES ASSUME NEW d \in Dependents
                 PROVE  /\ HasAuthority(d, now) <=>
                             \E id \in GrantsFor(d) :
                                 /\ active_at(grants_[id], now)
                                 /\ grants_[id].bound \cap DOMAIN fences_ = {}
                        /\ query(d, now) = "Fenced" =>
                             \A id \in GrantsFor(d) : ~active_at(grants_[id], now)
                        /\ query(d, now) # "Unknown"
    BY DEF QueryMatchesContract
  <2>2. \A id \in GrantsFor(d) :
           active_at(grants_[id], now) => grants_[id].bound \cap DOMAIN fences_ = {}
    BY <1>1 DEF GrantsFor, active_at, RegistryInv, NoActiveGrantOnFencedGeneration, Active
  <2>3. Blocking(d, now) = {}
    BY <2>2 DEF Blocking, BoundOf
  <2>4. HasAuthority(d, now) <=> \E id \in GrantsFor(d) : active_at(grants_[id], now)
    BY <2>3 DEF HasAuthority
  <2>5. query(d, now) = "Fenced" => \A id \in GrantsFor(d) : ~active_at(grants_[id], now)
    BY <2>4 DEF query
  <2>6. query(d, now) # "Unknown"
    <3>. DEFINE withdrawn == {id \in GrantsFor(d) : ~active_at(grants_[id], now)}
    <3>1. SUFFICES ASSUME GrantsFor(d) # {}, ~HasAuthority(d, now)
                   PROVE  query(d, now) # "Unknown"
      BY DEF query
    <3>2. withdrawn = GrantsFor(d)
      BY <2>4, <3>1
    <3>3. PICK id \in withdrawn : TRUE
      BY <3>1, <3>2
    <3>4. grants_[id].state \in GrantState /\ grants_[id].bound # {}
      BY <1>1 DEF RegistryInv, AuthorityTypeOK, AuthorityGrant, GrantsBind, GrantsFor
    <3>5. CASE grants_[id].state = "Fenced"
      <4>1. UNION {grants_[i].bound : i \in {j \in withdrawn : grants_[j].state = "Fenced"}} # {}
        BY <3>3, <3>4, <3>5
      <4>. QED
        BY <2>3, <3>1, <3>2, <4>1 DEF query
    <3>6. CASE grants_[id].state # "Fenced"
      <4>1. \E i \in withdrawn : grants_[i].state \in {"Active", "Stale", "Revoked", "Expired"}
        BY <3>3, <3>4, <3>6 DEF GrantState
      <4>. QED
        BY <2>3, <3>1, <3>2, <4>1 DEF query
    <3>. QED
      BY <3>5, <3>6
  <2>. QED
    BY <2>2, <2>4, <2>5, <2>6
<1>. QED
  BY <1>1, RegistryInvariant, EveryGrantBinds, PTL
=============================================================================
