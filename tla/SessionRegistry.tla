-------------------------- MODULE SessionRegistry --------------------------
(***************************************************************************)
(* Sessions and the requests they authorise, over restarts and shutdown:   *)
(* class SessionRegistry of src/runtime/session.cpp with the handlers of   *)
(* src/runtime/coordinator.cpp that drive it.                              *)
(*                                                                         *)
(* A client keeps the binding of the session it opened and may present it, *)
(* with any request sequence number, at any time: late, twice, out of      *)
(* order, or to a later incarnation, whose session identities start at 1   *)
(* again.  shutdown() takes no state mutex, so its steps interleave with   *)
(* an open_session() that has already found the runtime running.           *)
(*                                                                         *)
(* An incarnation is numbered by `boot`; BootIncarnation's nonce makes its *)
(* digest unique to it, and nonzero.                                       *)
(***************************************************************************)
EXTENDS Integers, Sequences, FiniteSets

CONSTANTS
    max_sessions,       \* Limits::max_sessions
    RequestSeqs,        \* sequence numbers clients present
    MaxBoots,           \* bound: incarnations
    MaxLedger           \* bound: authorised requests

ASSUME SessionAssumption ==
    /\ max_sessions \in Nat
    /\ RequestSeqs \subseteq Nat
    /\ MaxBoots \in Nat
    /\ MaxLedger \in Nat

VARIABLES
    enable_durability,  \* CoordinatorConfig::enable_durability, the same in every boot
    phase,          \* "down", "opening" (inside Coordinator::open), "running"
    boot,           \* the current incarnation, or the last one
    epoch,
    header,         \* epoch of the last durable StreamHeader; 0 when there is none
    sessions_,      \* SessionId -> session record, a partial function
    next_session_,
    entering,       \* open_session holds the state mutex, past ensure_running
    shutdown_,      \* "no", "stopped" (flag set), "done" (sessions closed)
    bindings,       \* the bindings clients hold
    ledger          \* the requests authorised, in order, each with the incarnation
                    \* that authorised it

vars == <<enable_durability, phase, boot, epoch, header, sessions_, next_session_, entering, shutdown_,
          bindings, ledger>>

SessionRecord == [epoch : Nat, last_request_seq : Nat, closed : BOOLEAN]
SessionBinding == [session : Nat, epoch : Nat, boot : Nat]
LedgerEntry == [binding : SessionBinding, request_seq : Nat, by : Nat]

TypeOK ==
    /\ enable_durability \in BOOLEAN
    /\ phase \in {"down", "opening", "running"}
    /\ boot \in Nat
    /\ epoch \in Nat
    /\ header \in 0..epoch
    /\ DOMAIN sessions_ = 1..(next_session_ - 1)
    /\ sessions_ \in [DOMAIN sessions_ -> SessionRecord]
    /\ next_session_ \in 1..(max_sessions + 1)
    /\ entering \in BOOLEAN
    /\ shutdown_ \in {"no", "stopped", "done"}
    /\ bindings \subseteq SessionBinding
    /\ ledger \in Seq(LedgerEntry)
-----------------------------------------------------------------------------
(* Coordinator::open and process death. *)

NoSessions == [id \in {} |-> 0]

\* Identity: a recovered StreamHeader advances the epoch; without one it is 1.
Boot ==
    /\ phase = "down"
    /\ boot < MaxBoots
    /\ phase' = "opening"
    /\ boot' = boot + 1
    /\ epoch' = IF enable_durability /\ header # 0 THEN header + 1 ELSE 1
    /\ sessions_' = NoSessions
    /\ next_session_' = 1
    /\ shutdown_' = "no"
    /\ UNCHANGED <<enable_durability, header, entering, bindings, ledger>>

ServeUnrecorded ==
    /\ phase = "opening"
    /\ phase' = "running"
    /\ header' \in {header} \cup IF enable_durability THEN {epoch} ELSE {}
    /\ UNCHANGED <<enable_durability, boot, epoch, sessions_, next_session_, entering,
                   shutdown_, bindings, ledger>>

\* The last step of open(): the StreamHeader of this incarnation is durable
\* before the coordinator is handed to its caller.
Serve ==
    /\ phase = "opening"
    /\ phase' = "running"
    /\ header' = IF enable_durability THEN epoch ELSE header
    /\ UNCHANGED <<enable_durability, boot, epoch, sessions_, next_session_, entering,
                   shutdown_, bindings, ledger>>

\* A crash while the StreamHeader is being appended may leave it durable.
Crash ==
    /\ phase # "down"
    /\ phase' = "down"
    /\ header' \in {header} \cup
                   IF phase = "opening" /\ enable_durability THEN {epoch} ELSE {}
    /\ entering' = FALSE
    /\ UNCHANGED <<enable_durability, boot, epoch, sessions_, next_session_,
                   shutdown_, bindings, ledger>>
-----------------------------------------------------------------------------
(* Handlers; the state mutex is free when ~entering. *)

OpenSessionUnchecked ==
    /\ phase = "running"
    /\ ~entering
    /\ entering' = TRUE
    /\ UNCHANGED <<enable_durability, phase, boot, epoch, header, sessions_,
                   next_session_, shutdown_, bindings, ledger>>

open_session ==
    /\ phase = "running"
    /\ ~entering
    /\ shutdown_ = "no"
    /\ entering' = TRUE
    /\ UNCHANGED <<enable_durability, phase, boot, epoch, header, sessions_,
                   next_session_, shutdown_, bindings, ledger>>

IssueSession ==
    /\ entering
    /\ entering' = FALSE
    /\ sessions_' = [id \in DOMAIN sessions_ \cup {next_session_} |->
                       IF id = next_session_
                       THEN [epoch |-> epoch, last_request_seq |-> 0, closed |-> FALSE]
                       ELSE sessions_[id]]
    /\ next_session_' = next_session_ + 1
    /\ bindings' = bindings \cup
           {[session |-> next_session_, epoch |-> epoch, boot |-> boot]}
    /\ UNCHANGED <<enable_durability, phase, boot, epoch, header, shutdown_, ledger>>

\* SessionRegistry::open: closed sessions count against max_sessions.
open ==
    \/ Cardinality(DOMAIN sessions_) < max_sessions /\ IssueSession
    \/ /\ Cardinality(DOMAIN sessions_) >= max_sessions
       /\ entering
       /\ entering' = FALSE
       /\ UNCHANGED <<enable_durability, phase, boot, epoch, header, sessions_,
                      next_session_, shutdown_, bindings, ledger>>

close(id) ==
    /\ phase = "running"
    /\ ~entering
    /\ id \in DOMAIN sessions_
    /\ sessions_' = [sessions_ EXCEPT ![id].closed = TRUE]
    /\ UNCHANGED <<enable_durability, phase, boot, epoch, header, next_session_,
                   entering, shutdown_, bindings, ledger>>

\* What authorise() asks of a binding before it looks at the sequence number.
Current(b) ==
    /\ b.session \in DOMAIN sessions_
    /\ ~sessions_[b.session].closed
    /\ b.epoch = epoch
    /\ sessions_[b.session].epoch = epoch
    /\ b.boot = boot

Consume(b, seq) ==
    /\ Len(ledger) < MaxLedger
    /\ sessions_' = [sessions_ EXCEPT ![b.session].last_request_seq = seq]
    /\ ledger' = Append(ledger, [binding |-> b, request_seq |-> seq, by |-> boot])
    /\ UNCHANGED <<enable_durability, phase, boot, epoch, header, next_session_,
                   entering, shutdown_, bindings>>

AuthoriseRepeated(b, seq) ==
    /\ phase = "running" /\ ~entering
    /\ Current(b)
    /\ seq >= sessions_[b.session].last_request_seq
    /\ Consume(b, seq)

\* SessionRegistry::authorise.  It is not refused after shutdown().
authorise(b, seq) ==
    /\ phase = "running" /\ ~entering
    /\ Current(b)
    /\ seq > sessions_[b.session].last_request_seq
    /\ Consume(b, seq)

\* shutdown(): first the flag, with no mutex held ...
shutdown ==
    /\ phase = "running"
    /\ shutdown_ = "no"
    /\ shutdown_' = "stopped"
    /\ UNCHANGED <<enable_durability, phase, boot, epoch, header, sessions_,
                   next_session_, entering, bindings, ledger>>

\* ... then the sessions.
close_all ==
    /\ phase = "running"
    /\ shutdown_ = "stopped"
    /\ shutdown_' = "done"
    /\ sessions_' = [id \in DOMAIN sessions_ |-> [sessions_[id] EXCEPT !.closed = TRUE]]
    /\ UNCHANGED <<enable_durability, phase, boot, epoch, header, next_session_,
                   entering, bindings, ledger>>
-----------------------------------------------------------------------------
Init ==
    /\ enable_durability \in BOOLEAN
    /\ phase = "down"
    /\ boot = 0
    /\ epoch = 0
    /\ header = 0
    /\ sessions_ = NoSessions
    /\ next_session_ = 1
    /\ entering = FALSE
    /\ shutdown_ = "no"
    /\ bindings = {}
    /\ ledger = <<>>

Next ==
    \/ Boot
    \/ Serve
    \/ Crash
    \/ open_session
    \/ open
    \/ \E id \in DOMAIN sessions_ : close(id)
    \/ \E b \in bindings, seq \in RequestSeqs : authorise(b, seq)
    \/ shutdown
    \/ close_all

Spec == Init /\ [][Next]_vars
-----------------------------------------------------------------------------
(* Properties. *)

\* However requests are delayed, repeated or reordered, and whatever restarts
\* lie in between, a request takes effect at most once, and the requests of one
\* session in the order of their numbers (session.hpp:22-26, session.cpp:66-70).
AuthorisedOnceInOrder ==
    \A i, j \in DOMAIN ledger :
        i < j /\ ledger[i].binding = ledger[j].binding =>
            ledger[i].request_seq < ledger[j].request_seq

\* No incarnation acts on a request bound to another one, although session
\* identities, and without durability epochs too, are used again after a restart
\* (session.hpp:43-46).
AuthorisedByIssuer ==
    \A i \in DOMAIN ledger : ledger[i].binding.boot = ledger[i].by

\* With durability, an epoch belongs to one incarnation that served clients,
\* whatever the instants at which the incarnations crashed: the StreamHeader is
\* durable before open() returns (coordinator.cpp:207-215, 254-259).
EpochNamesIncarnation ==
    enable_durability =>
        \A b, c \in bindings : b.epoch = c.epoch => b.boot = c.boot

\* shutdown() sets its flag without the state mutex, so an open_session already
\* past ensure_running adds its session after close_all(); but the mutex admits
\* one such call, and no more than one session outlives a shutdown
\* (coordinator.cpp:412-422, 488-507).
OneSessionOutlivesShutdown ==
    phase = "running" /\ shutdown_ = "done" =>
        \A i, j \in DOMAIN sessions_ :
            ~sessions_[i].closed /\ ~sessions_[j].closed => i = j
=============================================================================
