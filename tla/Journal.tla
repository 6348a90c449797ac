------------------------------ MODULE Journal ------------------------------
(***************************************************************************)
(* What the durable store promises its callers (store.hpp, the comment on  *)
(* class DurableStore): a log of published records.  A crash loses nothing *)
(* that was published, may or may not keep the one record whose append was *)
(* under way, and never shows a partial record.  Compaction drops a prefix *)
(* of the log.                                                             *)
(***************************************************************************)
EXTENDS Naturals, Sequences

CONSTANT RecordKinds

VARIABLES
    log,        \* the published records, each [seq, kind]
    inflight,   \* <<>>, or <<record>> while an append is under way
    up          \* a process has the store open

vars == <<log, inflight, up>>

Init == log = <<>> /\ inflight = <<>> /\ up = FALSE

\* Sequence numbers are contiguous (store.hpp:63-64); an empty log restarts at 1.
NextSeq == IF log = <<>> THEN 1 ELSE log[Len(log)].seq + 1

Begin(kind) ==
    /\ up
    /\ inflight = <<>>
    /\ inflight' = <<[seq |-> NextSeq, kind |-> kind]>>
    /\ UNCHANGED <<log, up>>

Publish ==
    /\ inflight # <<>>
    /\ log' = log \o inflight
    /\ inflight' = <<>>
    /\ UNCHANGED up

Crash ==
    /\ up' = FALSE
    /\ log' \in {log, log \o inflight}
    /\ inflight' = <<>>

Open == ~up /\ up' = TRUE /\ UNCHANGED <<log, inflight>>

Compact ==
    /\ up
    /\ inflight = <<>>
    /\ \E n \in 0..Len(log) : log' = SubSeq(log, n + 1, Len(log))
    /\ up' \in BOOLEAN
    /\ UNCHANGED inflight

Next == (\E kind \in RecordKinds : Begin(kind)) \/ Publish \/ Crash \/ Open \/ Compact

Spec == Init /\ [][Next]_vars
=============================================================================
