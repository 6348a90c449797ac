------------------------- MODULE AuthorityRegistry -------------------------
(***************************************************************************)
(* The registry of authority grants and fences: class AuthorityRegistry of *)
(* include/sff/model/authority.hpp and src/model/authority.cpp.            *)
(*                                                                         *)
(* Every operation of the registry holds its leaf mutex, so each one is an *)
(* action.  Mutations reach the registry only through the coordinator,     *)
(* which holds its state mutex for a whole handler; the one handler that   *)
(* makes two registry calls in a row with a visible state in between is    *)
(* declare_failure (fence_generations, then commit_fence), and `fencing`   *)
(* is the generation that lies between the two.  Readers borrow the        *)
(* registry without that mutex (Coordinator::authority()), so they see the *)
(* state in between.                                                       *)
(*                                                                         *)
(* Left out: the epoch, boot and detail of a grant and the scope, digest   *)
(* and reason of a fence, which the registry stores and never consults;    *)
(* by_dependent_, which is the set GrantsFor below.                        *)
(***************************************************************************)
EXTENDS Integers, FiniteSets

CONSTANTS
    Dependents,            \* paths, links and other holders of authority
    Keys,                  \* generation-qualified switches (SwitchKey)
    Ttl,                   \* Policy::grant_ttl_ns, in clock units
    TimeMax,               \* largest TimestampNs; 2^64 - 1 in the code
    max_authority_grants,  \* Limits::max_authority_grants
    max_fences,            \* Limits::max_fences
    LineageIds,            \* raw identities that durable records may carry
    CallerCauses           \* the causes callers pass; only Fence and Restart act
                           \* differently from the others

GrantState == {"Active", "Stale", "Revoked", "Expired", "Fenced"}
RevocationCause == {"Unknown", "Superseded", "Fence", "Restart", "Expiry",
                    "OperatorRevocation", "RevalidationFailed", "Shutdown"}

ASSUME RegistryAssumption ==
    /\ TimeMax \in Nat \ {0}
    /\ Ttl \in 1..TimeMax
    /\ max_authority_grants \in Nat
    /\ max_fences \in Nat
    /\ LineageIds \subseteq Nat \ {0}
    /\ CallerCauses \subseteq RevocationCause

VARIABLES
    grants_,      \* GrantId -> grant record, a partial function
    fences_,      \* SwitchKey -> FenceId, a partial function
    next_grant_,
    next_fence_,
    attempt_,
    now,          \* Clock::now_ns
    stage,        \* "recovering" until Coordinator::open has replayed lineage
    fencing       \* generations between fence_generations and commit_fence

registry == <<grants_, fences_, next_grant_, next_fence_, attempt_>>
authorityVars == <<registry, now, stage, fencing>>

AuthorityGrant ==
    [dependent : Dependents, bound : SUBSET Keys, attempt : Nat,
     granted_at : 0..TimeMax, expires_at : 0..TimeMax,
     state : GrantState, cause : RevocationCause]

AuthorityTypeOK ==
    /\ DOMAIN grants_ \subseteq Nat
    /\ grants_ \in [DOMAIN grants_ -> AuthorityGrant]
    /\ DOMAIN fences_ \subseteq Keys
    /\ fences_ \in [DOMAIN fences_ -> Nat]
    /\ next_grant_ \in Nat
    /\ next_fence_ \in Nat
    /\ attempt_ \in Nat
    /\ now \in 0..TimeMax
    /\ stage \in {"recovering", "running"}
    /\ fencing \subseteq Keys
-----------------------------------------------------------------------------
(* Reading the registry. *)

is_fenced(k) == k \in DOMAIN fences_

GrantsFor(d) == {id \in DOMAIN grants_ : grants_[id].dependent = d}

active_at(g, t) ==
    /\ g.state = "Active"
    /\ g.expires_at # 0
    /\ g.granted_at <= t
    /\ t <= g.expires_at

ExpiryWrapped(t) == (t + Ttl) % (TimeMax + 1)

\* uint64 addition wraps; a wrapped expiry saturates.
ExpiryOf(t) ==
    LET expires == (t + Ttl) % (TimeMax + 1)
    IN  IF expires < t THEN TimeMax ELSE expires

\* The union of the generations that the grants of d active at time t bind.
BoundOf(d, t) ==
    UNION {grants_[id].bound : id \in {i \in GrantsFor(d) : active_at(grants_[i], t)}}

Blocking(d, t) == BoundOf(d, t) \cap DOMAIN fences_

HasAuthority(d, t) ==
    /\ \E id \in GrantsFor(d) : active_at(grants_[id], t)
    /\ Blocking(d, t) = {}

\* The outcome code of query(), in the order its early returns test.
query(d, t) ==
    LET withdrawn == {id \in GrantsFor(d) : ~active_at(grants_[id], t)}
        Saw(s) == \E id \in withdrawn : grants_[id].state = s
        historical == UNION {grants_[id].bound :
                             id \in {i \in withdrawn : grants_[i].state = "Fenced"}}
    IN  IF GrantsFor(d) = {} THEN "NotFound"
        ELSE IF HasAuthority(d, t) THEN "Ok"
        ELSE IF Blocking(d, t) # {} THEN "Fenced"
        ELSE IF withdrawn = GrantsFor(d) /\ historical # {} THEN "Fenced"
        ELSE IF withdrawn # GrantsFor(d) THEN "Unknown"
        ELSE IF \/ Saw("Stale")
                \/ \E id \in withdrawn : grants_[id].cause = "Restart" THEN "Stale"
        ELSE IF Saw("Expired") \/ Saw("Active") THEN "Expired"
        ELSE IF Saw("Revoked") THEN "Denied"
        ELSE "Unknown"
-----------------------------------------------------------------------------
(* Changing the state of a set of grants, the rest of the registry kept. *)

Move(ids, s, c) ==
    /\ grants_' = [id \in DOMAIN grants_ |->
                     IF id \in ids
                     THEN [grants_[id] EXCEPT !.state = s, !.cause = c]
                     ELSE grants_[id]]
    /\ UNCHANGED <<fences_, next_grant_, next_fence_, attempt_, now>>

Active == {id \in DOMAIN grants_ : grants_[id].state = "Active"}

\* The coordinator is open and no declare_failure is between its two calls.
Running == stage = "running" /\ fencing = {}
-----------------------------------------------------------------------------
(* Operations. *)

GrantUnchecked(d, bound) ==
    /\ Running
    /\ bound # {}
    /\ Cardinality(DOMAIN grants_) < max_authority_grants
    /\ attempt_' = attempt_ + 1
    /\ next_grant_' = next_grant_ + 1
    /\ grants_' = [id \in DOMAIN grants_ \cup {next_grant_} |->
                     IF id = next_grant_
                     THEN [dependent |-> d, bound |-> bound,
                           attempt |-> attempt_ + 1,
                           granted_at |-> now, expires_at |-> ExpiryOf(now),
                           state |-> "Active", cause |-> "Unknown"]
                     ELSE grants_[id]]
    /\ UNCHANGED <<fences_, next_fence_, now, stage, fencing>>

grant(d, bound) ==
    /\ \A k \in bound : ~is_fenced(k)
    /\ GrantUnchecked(d, bound)

revoke(id, c) ==
    /\ Running
    /\ id \in Active
    /\ Move({id}, "Revoked", c)
    /\ UNCHANGED <<stage, fencing>>

FenceOnlyUnexpired(k) ==
    /\ Running
    /\ Move({id \in Active : k \in grants_[id].bound /\ now <= grants_[id].expires_at},
            "Fenced", "Fence")
    /\ fencing' = {k}
    /\ UNCHANGED stage

\* First call of declare_failure: every Active grant that binds k.
fence_generations(k) ==
    /\ Running
    /\ Move({id \in Active : k \in grants_[id].bound}, "Fenced", "Fence")
    /\ fencing' = {k}
    /\ UNCHANGED stage

\* Second call of declare_failure; the generation is fenced from here on.
commit_fence(k) ==
    /\ k \in fencing
    /\ ~is_fenced(k)
    /\ Cardinality(DOMAIN fences_) < max_fences
    /\ fences_' = [key \in DOMAIN fences_ \cup {k} |->
                     IF key = k THEN next_fence_ ELSE fences_[key]]
    /\ next_fence_' = next_fence_ + 1
    /\ fencing' = {}
    /\ UNCHANGED <<grants_, next_grant_, attempt_, now, stage>>

\* declare_failure finds the generation fenced already, or max_fences reached.
FenceNotCommitted(k) ==
    /\ k \in fencing
    /\ is_fenced(k) \/ Cardinality(DOMAIN fences_) >= max_fences
    /\ fencing' = {}
    /\ UNCHANGED <<registry, now, stage>>

revoke_dependent(d, c) ==
    /\ Running
    /\ Active \cap GrantsFor(d) # {}
    /\ Move(Active \cap GrantsFor(d), "Revoked", c)
    /\ UNCHANGED <<stage, fencing>>

expire_due ==
    /\ Running
    /\ \E id \in Active : now > grants_[id].expires_at
    /\ Move({id \in Active : now > grants_[id].expires_at}, "Expired", "Expiry")
    /\ UNCHANGED <<stage, fencing>>

StateForCause(c) ==
    CASE c = "Fence" -> "Fenced"
      [] c = "Restart" -> "Stale"
      [] OTHER -> "Revoked"

withdraw_all(c) ==
    /\ Running
    /\ Move({id \in DOMAIN grants_ : grants_[id].state \notin {"Revoked", "Fenced"}},
            StateForCause(c), c)
    /\ UNCHANGED <<stage, fencing>>
-----------------------------------------------------------------------------
(* Recovery: a new registry is filled from durable lineage, then opened.   *)
(* The stored window of a restored grant is never consulted, since the     *)
(* grant is Stale; it is taken to be the whole time axis.                  *)

Restart ==
    /\ grants_' = [id \in {} |-> 0]
    /\ fences_' = [k \in {} |-> 0]
    /\ next_grant_' = 1
    /\ next_fence_' = 1
    /\ attempt_' = 0
    /\ stage' = "recovering"
    /\ fencing' = {}
    /\ UNCHANGED now

Larger(a, b) == IF a >= b THEN a ELSE b

RestoreAs(s, id, d, bound, attempt) ==
    /\ stage = "recovering"
    /\ grants_' = [i \in DOMAIN grants_ \cup {id} |->
                     IF i = id
                     THEN [dependent |-> d, bound |-> bound, attempt |-> attempt,
                           granted_at |-> 0, expires_at |-> TimeMax,
                           state |-> s, cause |-> "Restart"]
                     ELSE grants_[i]]
    /\ attempt_' = Larger(attempt, attempt_)
    /\ UNCHANGED <<fences_, next_fence_, now, stage, fencing>>

RestoreGrantAsStored(id, d, bound, attempt) ==
    /\ \E s \in {"Active", "Stale"} : RestoreAs(s, id, d, bound, attempt)
    /\ next_grant_' = Larger(id + 1, next_grant_)

RestoreGrantKeepingNext(id, d, bound, attempt) ==
    /\ RestoreAs("Stale", id, d, bound, attempt)
    /\ UNCHANGED next_grant_

restore_grant(id, d, bound, attempt) ==
    /\ RestoreAs("Stale", id, d, bound, attempt)
    /\ next_grant_' = Larger(id + 1, next_grant_)

restore_fence(k, id) ==
    /\ stage = "recovering"
    /\ fences_' = [key \in DOMAIN fences_ \cup {k} |->
                     IF key = k THEN id ELSE fences_[key]]
    /\ next_fence_' = Larger(id + 1, next_fence_)
    /\ UNCHANGED <<grants_, next_grant_, attempt_, now, stage, fencing>>

\* The last step of recovery in Coordinator::open.
invalidate_pre_restart ==
    /\ stage = "recovering"
    /\ Move(Active, "Stale", "Restart")
    /\ stage' = "running"
    /\ UNCHANGED fencing

Tick ==
    /\ now < TimeMax
    /\ now' = now + 1
    /\ UNCHANGED <<registry, stage, fencing>>
-----------------------------------------------------------------------------
AuthorityInit ==
    /\ grants_ = [id \in {} |-> 0]
    /\ fences_ = [k \in {} |-> 0]
    /\ next_grant_ = 1
    /\ next_fence_ = 1
    /\ attempt_ = 0
    /\ now = 0
    /\ stage = "recovering"
    /\ fencing = {}

AuthorityNext ==
    \/ \E d \in Dependents, bound \in SUBSET Keys : grant(d, bound)
    \/ \E id \in DOMAIN grants_, c \in CallerCauses : revoke(id, c)
    \/ \E k \in Keys : fence_generations(k)
    \/ \E k \in Keys : commit_fence(k)
    \/ \E k \in Keys : FenceNotCommitted(k)
    \/ \E d \in Dependents, c \in CallerCauses : revoke_dependent(d, c)
    \/ expire_due
    \/ \E c \in CallerCauses : withdraw_all(c)
    \/ Restart
    \/ \E id \in LineageIds, d \in Dependents, bound \in (SUBSET Keys) \ {{}},
          attempt \in LineageIds : restore_grant(id, d, bound, attempt)
    \/ \E k \in Keys, id \in LineageIds : restore_fence(k, id)
    \/ invalidate_pre_restart
    \/ Tick

AuthoritySpec == AuthorityInit /\ [][AuthorityNext]_authorityVars
-----------------------------------------------------------------------------
(* Properties. *)

\* No Active grant binds a fenced generation, in any state a reader can
\* observe: grant() refuses fenced generations (authority.cpp:127-132) and
\* declare_failure withdraws grants before it commits the fence.
NoActiveGrantOnFencedGeneration ==
    \A id \in Active : grants_[id].bound \cap DOMAIN fences_ = {}

\* query() affirms authority exactly when one Active, unexpired grant exists
\* none of whose own generations is fenced (authority.hpp:97-100), although the
\* code tests the fences of the union over all active grants; so the two
\* outcomes of authority.cpp:393-410 for a blocked active grant never occur.
QueryMatchesContract ==
    \A d \in Dependents :
        /\ HasAuthority(d, now) <=>
              \E id \in GrantsFor(d) :
                  /\ active_at(grants_[id], now)
                  /\ grants_[id].bound \cap DOMAIN fences_ = {}
        /\ query(d, now) = "Fenced" =>
              \A id \in GrantsFor(d) : ~active_at(grants_[id], now)
        /\ query(d, now) # "Unknown"

\* A grant that has been withdrawn, fenced, expired or restored never becomes
\* Active again (authority.hpp:77-78, 468-472 of authority.cpp): authority comes
\* back only as a new grant.
WithdrawnStaysWithdrawn ==
    [][\A id \in DOMAIN grants_ \cap DOMAIN grants_' :
          grants_[id].state # "Active" => grants_'[id].state # "Active"]_authorityVars

\* A minted grant confers authority at once, even where now + ttl wraps
\* (authority.cpp:147-148), and has an identity and an attempt number above
\* every one the registry holds, the restored ones included (137-145, 478-479);
\* a new fence has an identity of its own.
MintsFreshIdentity ==
    [][stage = "running" /\ stage' = "running" =>
          /\ \A id \in DOMAIN grants_' \ DOMAIN grants_ :
              /\ active_at(grants_'[id], now')
              /\ \A old \in DOMAIN grants_ :
                     old < id /\ grants_[old].attempt < grants_'[id].attempt
          /\ \A k \in DOMAIN fences_' \ DOMAIN fences_ :
                 \A old \in DOMAIN fences_ : fences_[old] < fences_'[k]]_authorityVars

\* The inductive strengthening of NoActiveGrantOnFencedGeneration: no Active
\* grant binds the generation that declare_failure is about to fence, nothing is
\* Active while lineage is being restored, and the counters lie above every
\* identity handed out or restored.
RegistryInv ==
    /\ AuthorityTypeOK
    /\ NoActiveGrantOnFencedGeneration
    /\ \A id \in Active : grants_[id].bound \cap fencing = {}
    /\ stage = "recovering" => Active = {} /\ fencing = {}
    /\ \A id \in DOMAIN grants_ :
           id < next_grant_ /\ grants_[id].attempt <= attempt_
    /\ \A k \in DOMAIN fences_ : fences_[k] < next_fence_

\* A grant is in state Fenced only if one of its generations is fenced, or is
\* just being fenced: "Claiming Fenced without a durable fence record would
\* make the registry contradict its own fence table" (authority.cpp:246-248).
FencedGrantHasFence ==
    \A id \in DOMAIN grants_ :
        grants_[id].state = "Fenced" =>
            grants_[id].bound \cap (DOMAIN fences_ \cup fencing) # {}
=============================================================================
