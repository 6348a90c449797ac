-------------------------------- MODULE Codec --------------------------------
(***************************************************************************)
(* The canonical documents of the program: frame payloads (src/transport/  *)
(* frame.cpp), journal payloads (src/persist/records.cpp), plans (src/     *)
(* plan/plan.cpp) and policies (src/runtime/policy.cpp), over ByteWriter   *)
(* and ByteReader (src/codec/bytes.cpp).                                   *)
(*                                                                         *)
(* A document is a sequence of words [w, v]: v is the value written, w the *)
(* bytes it takes.  A text is known by its length.  Each encoder and each  *)
(* decoder is the list of fields it writes or reads, in its own order; a   *)
(* field of an encoder has the range of values the program holds there,    *)
(* and a field of a decoder the range it accepts.                          *)
(***************************************************************************)
EXTENDS Integers, Sequences, FiniteSets, TLC, SequencesExt, FiniteSetsExt

CONSTANTS
    max_plan_steps,         \* Limits::max_plan_steps
    plan_writer_limit,      \* the writer limit of ReconstructionPlan::encode, 8 MiB
    max_explanation_terms,  \* Limits::max_explanation_terms
    UINT_TOP                \* stands for the largest value of an integer field

ASSUME CodecAssumption ==
    /\ max_plan_steps \in Nat \ {0}
    /\ plan_writer_limit \in Nat
    /\ max_explanation_terms \in Nat \ {0}
    /\ UINT_TOP \in Nat /\ UINT_TOP > 100

VARIABLE carried  \* <<>>, or <<the document on its way from an encoder to a decoder>>

kMaxMessageBytes == 512
kTextBudget == kMaxMessageBytes + 64
kFixedPayloadBudget == 256
kDefaultWriterLimit == 2^30
kDefaultElementLimit == 2^24
kHardMaxElements == 2^26

Code == 0..27
DependentKind == 1..4
EvidenceSource == 1..6
-----------------------------------------------------------------------------
(* Fields: <<name, [kind, w, lo, hi, of, min]>>. *)

Field(name, kind, w, lo, hi) ==
    <<name, [kind |-> kind, w |-> w, lo |-> lo, hi |-> hi, of |-> <<>>, min |-> 0]>>
U(name, w) == Field(name, "word", w, 0, UINT_TOP)
Id(name) == Field(name, "word", 8, 1, UINT_TOP)
Within(name, w, range) == Field(name, "word", w, Min(range), Max(range))
boolean(name) == Within(name, 1, 0..1)
Tag == Within("tag", 1, {1})
Bounded(name) == Field(name, "bounded", 4, 0, kMaxMessageBytes)
String(name) == Field(name, "string", 4, 0, kMaxMessageBytes)
List(name, schema, minimum) ==
    <<name, [kind |-> "list", w |-> 4, lo |-> 0, hi |-> 0, of |-> schema, min |-> minimum]>>

\* write_key and read_key, write_boot and read_boot, write_dependent and read_dependent.
write_key(name) == <<Id(name \o ".id"), Id(name \o ".generation")>>
read_key(name) == <<U(name \o ".id", 8), U(name \o ".generation", 8)>>
valid_key(name) == <<Id(name \o ".id"), Id(name \o ".generation")>>
write_boot == <<U("process_id", 8), U("boot_ordinal", 8), U("nonce_hi", 8), U("nonce_lo", 8)>>
read_bootMutant == <<U("boot_ordinal", 8), U("process_id", 8), U("nonce_hi", 8), U("nonce_lo", 8)>>
read_boot == <<U("process_id", 8), U("boot_ordinal", 8), U("nonce_hi", 8), U("nonce_lo", 8)>>
write_dependent == <<Within("kind", 1, DependentKind), Id("dependent")>>
read_dependent == <<Within("kind", 1, DependentKind), U("dependent", 8)>>
valid_dependent == <<Within("kind", 1, DependentKind), Id("dependent")>>
read_code(name) == <<Within(name, 2, Code)>>
write_code(name) == <<Within(name, 2, Code)>>
-----------------------------------------------------------------------------
(* ByteWriter. *)

\* string: the length and the text, of which nothing is written when it is empty.
text_words(n) == <<[w |-> 4, v |-> n]>> \o (IF n = 0 THEN <<>> ELSE <<[w |-> n, v |-> n]>>)

RECURSIVE field_words(_, _)
RECURSIVE list_words(_, _)
value_words(field, x) ==
    CASE field.kind = "word" -> <<[w |-> field.w, v |-> x]>>
      [] field.kind = "string" -> text_words(x)
      [] field.kind = "bounded" -> text_words(Min({x, kMaxMessageBytes}))
      [] field.kind = "list" -> <<[w |-> 4, v |-> Len(x)]>> \o list_words(field.of, x)
list_words(schema, x) ==
    IF x = <<>> THEN <<>> ELSE field_words(schema, Head(x)) \o list_words(schema, Tail(x))
field_words(schema, v) ==
    IF schema = <<>> THEN <<>>
    ELSE value_words(schema[1][2], v[schema[1][1]]) \o field_words(Tail(schema), v)

RECURSIVE size(_)
size(words) == IF words = <<>> THEN 0 ELSE words[1].w + size(Tail(words))

\* raw: a word is written whole or not at all, and nothing is written once a word did not fit.
RECURSIVE raw(_, _)
raw(words, limit) ==
    IF words = <<>> \/ words[1].w > limit THEN <<>>
    ELSE <<words[1]>> \o raw(Tail(words), limit - words[1].w)
-----------------------------------------------------------------------------
(* ByteReader: a read gives [ok, value, rest]; ok is lost for good at the first failure. *)

Refused == [ok |-> FALSE, value |-> <<>>, rest |-> <<>>]
Got(x, rest) == [ok |-> TRUE, value |-> x, rest |-> rest]

\* ensure: a word is there as a whole, or the read fails.
ensure(words, w) == words # <<>> /\ words[1].w = w

\* string: a length within the element limit, and as many bytes.
read_text(words, limit) ==
    LET n == words[1].v
        rest == Tail(words)
    IN  IF n > limit THEN Refused
        ELSE IF n = 0 THEN Got(0, rest)
        ELSE IF ensure(rest, n) THEN Got(n, Tail(rest)) ELSE Refused

list_countMutant(words, minimum, limit) ==
    words[1].v < limit /\ words[1].v * minimum <= size(Tail(words))

\* list_count: within the element limit, and affordable.
list_count(words, minimum, limit) ==
    words[1].v <= limit /\ words[1].v * minimum <= size(Tail(words))

RECURSIVE read_fields(_, _, _)
RECURSIVE read_elements(_, _, _, _)
read_field(field, words, limit) ==
    IF ~ensure(words, field.w) THEN Refused
    ELSE CASE field.kind = "word" ->
                IF words[1].v \in field.lo..field.hi THEN Got(words[1].v, Tail(words)) ELSE Refused
           [] field.kind = "string" -> read_text(words, limit)
           [] field.kind = "list" ->
                IF list_count(words, field.min, limit)
                THEN read_elements(field.of, words[1].v, Tail(words), limit) ELSE Refused
read_elements(schema, count, words, limit) ==
    IF count = 0 THEN Got(<<>>, words)
    ELSE LET first == read_fields(schema, words, limit)
             others == read_elements(schema, count - 1, first.rest, limit)
         IN  IF first.ok /\ others.ok THEN Got(<<first.value>> \o others.value, others.rest)
             ELSE Refused
read_fields(schema, words, limit) ==
    IF schema = <<>> THEN Got(<<>>, words)
    ELSE LET first == read_field(schema[1][2], words, limit)
             others == read_fields(Tail(schema), first.rest, limit)
         IN  IF first.ok /\ others.ok
             THEN Got((schema[1][1] :> first.value) @@ others.value, others.rest) ELSE Refused

\* require_end: nothing may be left.
require_end(reader) == reader.ok /\ reader.rest = <<>>
-----------------------------------------------------------------------------
(* Frame payloads. *)

encode_hello_request == <<U("format_version", 2), Bounded("principal")>>
decode_hello_request == <<U("format_version", 2), String("principal")>>
encode_hello_response ==
    write_code("outcome") \o <<U("session", 8), U("epoch", 8), U("boot_digest", 8),
                               U("format_version", 4), U("max_payload", 4)>>
decode_hello_response ==
    read_code("outcome") \o <<U("session", 8), U("epoch", 8), U("boot_digest", 8),
                              U("format_version", 4), U("max_payload", 4)>>
encode_authority_query == write_dependent
decode_authority_query == valid_dependent
encode_authority_response ==
    write_code("outcome") \o write_code("reason")
    \o <<boolean("has_authority"), U("active", 8), U("withdrawn", 8), U("fenced", 8), U("digest", 8)>>
decode_authority_response ==
    read_code("outcome") \o read_code("reason")
    \o <<boolean("has_authority"), U("active", 8), U("withdrawn", 8), U("fenced", 8), U("digest", 8)>>
encode_failover_request ==
    write_key("subject") \o <<Within("source", 1, EvidenceSource), U("observed_at_ns", 8),
                              U("valid_for_ns", 8), Bounded("reason")>>
decode_failover_request ==
    valid_key("subject") \o <<Within("source", 1, EvidenceSource), U("observed_at_ns", 8),
                              U("valid_for_ns", 8), String("reason")>>
encode_failover_response ==
    write_code("outcome") \o <<U("fence_id", 8), U("fence_scope", 4), boolean("closure_complete"),
                               U("closure_members", 8), U("grants_fenced", 8), U("closure_digest", 8)>>
decode_failover_response ==
    read_code("outcome") \o <<U("fence_id", 8), U("fence_scope", 4), boolean("closure_complete"),
                              U("closure_members", 8), U("grants_fenced", 8), U("closure_digest", 8)>>
encode_restore_response ==
    write_code("outcome") \o write_code("reason")
    \o <<boolean("may_restore"), boolean("effect_verified"), U("blocking_generations", 8)>>
decode_restore_response ==
    read_code("outcome") \o read_code("reason")
    \o <<boolean("may_restore"), boolean("effect_verified"), U("blocking_generations", 8)>>
encode_snapshot_response ==
    write_code("outcome") \o <<U("epoch", 8), U("boot_ordinal", 8), U("switches", 8), U("fences", 8),
                               U("failures", 8), U("active_grants", 8), U("retained_events", 8),
                               boolean("durability_enabled")>>
decode_snapshot_response ==
    read_code("outcome") \o <<U("epoch", 8), U("boot_ordinal", 8), U("switches", 8), U("fences", 8),
                              U("failures", 8), U("active_grants", 8), U("retained_events", 8),
                              boolean("durability_enabled")>>
encode_error_payload == write_code("code") \o <<Bounded("detail")>>
decode_error_payload == read_code("code") \o <<String("detail")>>
-----------------------------------------------------------------------------
(* Journal payloads.  Canonical vectors are written sorted and read back as they are. *)

encode_stream_header ==
    <<Tag, U("format_version", 2), U("boot_ordinal", 8), U("process_id", 8), U("epoch", 8),
      U("nonce_hi", 8), U("nonce_lo", 8)>>
decode_stream_header ==
    <<U("tag", 1), U("format_version", 2), U("boot_ordinal", 8), U("process_id", 8), U("epoch", 8),
      U("nonce_hi", 8), U("nonce_lo", 8)>>
encode_u64_payload == <<Tag, U("value", 8)>>
decode_u64_payload == <<Tag, U("value", 8)>>
encode_failure_record ==
    <<Tag>> \o write_key("subject") \o <<U("evidence", 8), U("epoch", 8)>> \o write_boot
    \o <<Id("observed_at_ns"), U("recorded_at_ns", 8), String("reason")>>
decode_failure_record ==
    <<Tag>> \o valid_key("subject") \o <<U("evidence", 8), U("epoch", 8)>> \o read_boot
    \o <<Id("observed_at_ns"), U("recorded_at_ns", 8), String("reason")>>
encode_fence_record ==
    <<Tag, U("id", 8)>> \o write_key("subject") \o <<U("epoch", 8)>> \o write_boot
    \o <<U("created_at_ns", 8), Within("scope_state", 1, 0..2), U("closure_digest", 8),
         U("closure_members", 8), U("fenced_grants", 8), U("omitted_dependents", 8), String("reason")>>
decode_fence_record ==
    <<Tag, U("id", 8)>> \o valid_key("subject") \o <<U("epoch", 8)>> \o read_boot
    \o <<U("created_at_ns", 8), Within("scope_state", 1, 0..2), U("closure_digest", 8),
         U("closure_members", 8), U("fenced_grants", 8), U("omitted_dependents", 8), String("reason")>>
encode_grant_record ==
    <<Tag, Id("id")>> \o write_dependent \o <<List("bound", write_key("key"), 0), U("epoch", 8)>>
    \o write_boot \o <<U("attempt", 8), U("granted_at_ns", 8), U("expires_at_ns", 8),
                       Within("state", 1, 0..5), Within("cause", 1, 0..7), String("detail")>>
decode_grant_record ==
    <<Tag, Id("id")>> \o valid_dependent \o <<List("bound", read_key("key"), 16), U("epoch", 8)>>
    \o read_boot \o <<U("attempt", 8), U("granted_at_ns", 8), U("expires_at_ns", 8),
                      Within("state", 1, 0..5), Within("cause", 1, 0..7), String("detail")>>
encode_withdraw_record == <<Tag, Id("grant"), Within("cause", 1, 0..7), String("detail")>>
decode_withdraw_record == <<Tag, Id("grant"), Within("cause", 1, 0..7), String("detail")>>
encode_apply_receipt ==
    <<Tag, U("plan", 8), U("epoch", 8)>> \o write_boot
    \o <<List("steps", write_dependent \o write_key("replacement")
                       \o <<Within("state", 1, 0..4), U("attempt", 8), U("verification", 8),
                            String("detail")>>, 0),
         U("applied", 8), U("verified", 8), U("failed", 8), U("unverified", 8), boolean("complete"),
         Within("outcome", 2, Code)>>
decode_apply_receipt ==
    <<Tag, U("plan", 8), U("epoch", 8)>> \o read_boot
    \o <<List("steps", read_dependent \o read_key("replacement")
                       \o <<Within("state", 1, 0..4), U("attempt", 8), U("verification", 8),
                            String("detail")>>, 32),
         U("applied", 8), U("verified", 8), U("failed", 8), U("unverified", 8), boolean("complete"),
         U("outcome", 2)>>
write_explanation ==
    <<List("terms", <<String("key"), String("value")>>, 0), boolean("truncated")>>
read_explanation ==
    <<List("terms", <<String("key"), String("value")>>, 8), boolean("truncated")>>
encode_restore_decision ==
    <<Tag>> \o write_dependent \o write_code("outcome") \o write_code("reason")
    \o <<boolean("may_restore"), boolean("effect_verified"), List("bound", write_key("key"), 0),
         U("plan", 8), List("grants", <<U("id", 8)>>, 0), List("blocking", write_key("key"), 0)>>
    \o write_explanation
decode_restore_decision ==
    <<Tag>> \o read_dependent
    \o <<U("outcome", 2), U("reason", 2), boolean("may_restore"), boolean("effect_verified"),
         List("bound", read_key("key"), 16), U("plan", 8), List("grants", <<U("id", 8)>>, 8),
         List("blocking", read_key("key"), 16)>>
    \o read_explanation
-----------------------------------------------------------------------------
(* ReconstructionPlan::encode and decode, Policy::encode and decode. *)

encode_plan ==
    <<Tag, U("id", 8), U("epoch", 8)>> \o write_boot
    \o <<List("failed_generations", write_key("key"), 0),
         List("fences", write_key("failed")
                        \o <<U("closure_digest", 8), Within("closure_state", 1, 0..2),
                             U("closure_members", 8), U("omitted_dependents", 8)>>, 0),
         List("restores", write_dependent \o write_key("covers_failed")
                          \o <<Within("action", 1, 0..1)>> \o write_key("replacement")
                          \o <<List("hops", write_key("key"), 0), List("links", <<U("id", 8)>>, 0),
                               U("cost", 4), U("evidence", 8)>>, 0),
         List("unresolved", write_dependent \o write_key("covers_failed")
                            \o <<Within("reason", 1, 0..12), String("detail")>>, 0),
         Within("feasibility", 1, 0..5), Within("state", 1, 0..8), boolean("closure_complete"),
         boolean("service_withheld"), U("topology_digest", 8), U("policy_digest", 8)>>
decode_plan ==
    <<Tag, U("id", 8), U("epoch", 8)>> \o read_boot
    \o <<List("failed_generations", read_key("key"), 16),
         List("fences", read_key("failed")
                        \o <<U("closure_digest", 8), Within("closure_state", 1, 0..2),
                             U("closure_members", 8), U("omitted_dependents", 8)>>, 16 + 8 + 1 + 8 + 8),
         List("restores", read_dependent \o read_key("covers_failed")
                          \o <<Within("action", 1, 0..1)>> \o read_key("replacement")
                          \o <<List("hops", read_key("key"), 16), List("links", <<U("id", 8)>>, 8),
                               U("cost", 4), U("evidence", 8)>>, 9 + 16 + 1 + 16 + 4),
         List("unresolved", read_dependent \o read_key("covers_failed")
                            \o <<Within("reason", 1, 0..12), String("detail")>>, 9 + 16 + 1),
         Within("feasibility", 1, 0..5), Within("state", 1, 0..8), boolean("closure_complete"),
         boolean("service_withheld"), U("topology_digest", 8), U("policy_digest", 8)>>

PlanningPolicy ==
    <<boolean("allow_replacement_in_same_failure_domain"), boolean("require_capability_superset"),
      boolean("require_authoritative_candidate_evidence"), boolean("allow_withhold_on_unresolved"),
      boolean("planning.allow_restore_when_closure_truncated")>>
AssessmentPolicy ==
    <<boolean("fence_on_authoritative_conflict"), boolean("fence_on_missing_health"),
      boolean("allow_same_generation_recovery"), boolean("require_authoritative_failure_evidence"),
      U("future_skew_tolerance_ns", 8)>>
RestorePolicy ==
    <<boolean("require_verified_effect_for_restore"), boolean("allow_acknowledgement_restore"),
      boolean("allow_restore_when_closure_truncated"), boolean("fence_on_restart")>>
encode_policy ==
    <<Tag, Within("format_version", 4, {1})>> \o AssessmentPolicy \o PlanningPolicy
    \o <<Field("max_candidates_per_dependent", "word", 4, 1, UINT_TOP)>> \o RestorePolicy
    \o <<Id("grant_ttl_ns"), Id("max_retained_plans")>>
decode_policy ==
    <<Tag, U("format_version", 4)>> \o AssessmentPolicy \o PlanningPolicy
    \o <<U("max_candidates_per_dependent", 4)>> \o RestorePolicy
    \o <<U("grant_ttl_ns", 8), U("max_retained_plans", 8)>>

\* Policy::validate.
validate_policy(v) ==
    /\ v["format_version"] = 1
    /\ v["grant_ttl_ns"] # 0
    /\ v["max_retained_plans"] \in 1..kHardMaxElements
    /\ v["max_candidates_per_dependent"] \in 1..kHardMaxElements
    /\ ~(v["allow_acknowledgement_restore"] = 1 /\ v["require_verified_effect_for_restore"] = 1)
-----------------------------------------------------------------------------
(* The documents: encoder, decoder, limit of the writer, element limit of  *)
(* the reader, and whether the reader insists on the end.                  *)

Document(write, read, budget, elements) ==
    [write |-> write, read |-> read, budget |-> budget, elements |-> elements, whole |-> TRUE]
Payload(write, read) == Document(write, read, kFixedPayloadBudget, kDefaultElementLimit)
TextPayload(write, read) == Document(write, read, kTextBudget, kMaxMessageBytes)
JournalPayload(write, read) == Document(write, read, kDefaultWriterLimit, kDefaultElementLimit)
VectorPayload(write, read) == Document(write, read, kDefaultWriterLimit, 2^20)

Documents == [
    hello_request |-> TextPayload(encode_hello_request, decode_hello_request),
    hello_response |-> Payload(encode_hello_response, decode_hello_response),
    authority_query |-> Payload(encode_authority_query, decode_authority_query),
    authority_response |-> Payload(encode_authority_response, decode_authority_response),
    failover_request |-> TextPayload(encode_failover_request, decode_failover_request),
    failover_response |-> Payload(encode_failover_response, decode_failover_response),
    restore_response |-> Payload(encode_restore_response, decode_restore_response),
    snapshot_response |-> Payload(encode_snapshot_response, decode_snapshot_response),
    error |-> TextPayload(encode_error_payload, decode_error_payload),
    stream_header |-> [JournalPayload(encode_stream_header, decode_stream_header)
                          EXCEPT !.whole = FALSE],
    u64 |-> JournalPayload(encode_u64_payload, decode_u64_payload),
    failure |-> JournalPayload(encode_failure_record, decode_failure_record),
    fence |-> JournalPayload(encode_fence_record, decode_fence_record),
    grant |-> VectorPayload(encode_grant_record, decode_grant_record),
    withdraw |-> JournalPayload(encode_withdraw_record, decode_withdraw_record),
    apply_receipt |-> VectorPayload(encode_apply_receipt, decode_apply_receipt),
    restore_decision |-> VectorPayload(encode_restore_decision, decode_restore_decision),
    policy |-> JournalPayload(encode_policy, decode_policy),
    plan |-> Document(encode_plan, decode_plan, plan_writer_limit, max_plan_steps)]

\* What a decoder checks of the fields together.
Accepts(name, v) ==
    CASE name = "hello_response" -> v["outcome"] = 0 => v["session"] # 0 /\ v["epoch"] # 0
      [] name = "apply_receipt" ->
            v["applied"] + v["verified"] + v["failed"] + v["unverified"] <= 2 * Len(v["steps"])
      [] name = "policy" -> validate_policy(v)
      [] name = "plan" -> v["id"] # 0 \/ \E list \in {"failed_generations", "fences", "restores",
                                                      "unresolved"} : v[list] # <<>>
      [] OTHER -> TRUE

\* Explanation::add at its limit, and read_explanation, which repeats the mark as a term.
Explained(v) ==
    LET terms == IF v["truncated"] = 1
                 THEN Append(v["terms"], "key" :> 13 @@ "value" :> 4) ELSE v["terms"]
    IN  [v EXCEPT !["terms"] = SubSeq(terms, 1, Min({Len(terms), max_explanation_terms})),
                  !["truncated"] = IF Len(terms) > max_explanation_terms THEN 1 ELSE 0]

\* What an encoder writes; it does not look at the writer's failure.
encode(document, v) == raw(field_words(document.write, v), document.budget)

\* The value a document decodes to, in a sequence, or the empty sequence.
decode(name, document, words) ==
    LET reader == read_fields(document.read, words, document.elements)
        ended == IF document.whole THEN require_end(reader) ELSE reader.ok
    IN  IF ~ended THEN <<>>
        ELSE IF ~Accepts(name, reader.value) THEN <<>>
        ELSE <<IF name = "restore_decision" THEN Explained(reader.value) ELSE reader.value>>
-----------------------------------------------------------------------------
(* Sample values: a default in which every field differs from its          *)
(* neighbours, and every change of one field to a bound of its range or of *)
(* one list to another length.                                             *)

RECURSIVE Default(_)
Default(schema) ==
    [name \in {f[1] : f \in ToSet(schema)} |->
        LET i == CHOOSE i \in DOMAIN schema : schema[i][1] = name
            field == schema[i][2]
        IN  IF field.kind = "list" THEN <<Default(field.of)>>
            ELSE IF field.kind = "word" THEN Max({field.lo, Min({i, field.hi})})
            ELSE 1]

RECURSIVE Samples(_)
Variants(field) ==
    CASE field.kind = "word" -> {field.lo, field.hi}
      [] field.kind = "string" -> {0, kMaxMessageBytes}
      [] field.kind = "bounded" -> {0, kMaxMessageBytes, kMaxMessageBytes + 1}
      [] field.kind = "list" -> {[i \in 1..n |-> Default(field.of)] : n \in {0, 2, 3}}
                                \cup {<<element>> : element \in Samples(field.of)}
Samples(schema) ==
    {Default(schema)}
    \cup UNION {{[Default(schema) EXCEPT ![f[1]] = x] : x \in Variants(f[2])} : f \in ToSet(schema)}

\* What the program guarantees of a value it encodes.
Genuine(name, v) ==
    CASE name = "hello_response" -> (v["outcome"] = 0) = (v["session"] # 0) /\ v["epoch"] # 0
      [] name = "apply_receipt" ->
            /\ v["applied"] + v["failed"] <= Len(v["steps"])
            /\ v["verified"] + v["unverified"] <= v["applied"]
      [] name = "restore_decision" ->
            /\ Len(v["terms"]) <= max_explanation_terms
            /\ v["truncated"] = 1 => Len(v["terms"]) = max_explanation_terms
      [] name = "policy" -> validate_policy(v)
      [] OTHER -> TRUE
-----------------------------------------------------------------------------
(* A document is written, may be damaged on its way, and is read.          *)

Write(name, v) ==
    /\ carried = <<>>
    /\ Genuine(name, v)
    /\ carried' = <<[name |-> name, value |-> v, words |-> encode(Documents[name], v),
                     state |-> "whole", result |-> <<>>]>>

Unread(state) == carried # <<>> /\ carried[1].result = <<>> /\ carried[1].state = state

\* The end is lost, behind word n or within it.
Shorten(n, within) ==
    /\ Unread("whole")
    /\ LET words == carried[1].words
           kept == SubSeq(words, 1, n)
       IN  /\ IF within THEN n > 0 ELSE n < Len(words)
           /\ carried' = [carried EXCEPT ![1].state = "short",
                             ![1].words = IF within THEN [kept EXCEPT ![n].w = @ - 1] ELSE kept]

\* A byte follows the document.
Lengthen ==
    /\ Unread("whole")
    /\ carried' = [carried EXCEPT ![1].state = "long", ![1].words = Append(@, [w |-> 1, v |-> 0])]

Read ==
    /\ \E state \in {"whole", "short", "long"} : Unread(state)
    /\ LET c == carried[1]
       IN  carried' = [carried EXCEPT ![1].result = <<decode(c.name, Documents[c.name], c.words)>>]

CodecInit == carried = <<>>
CodecNext ==
    \/ /\ carried = <<>>
       /\ \E name \in DOMAIN Documents : \E v \in Samples(Documents[name].write) : Write(name, v)
    \/ Unread("whole") /\ \E n \in 0..Len(carried[1].words), within \in BOOLEAN : Shorten(n, within)
    \/ Lengthen
    \/ Read
-----------------------------------------------------------------------------
(* Properties. *)

\* A value with its texts cut to the message bound, as the encoders of frame payloads cut them.
Cut(schema, v) ==
    [name \in DOMAIN v |->
        IF \E f \in ToSet(schema) : f[1] = name /\ f[2].kind = "bounded"
        THEN Min({v[name], kMaxMessageBytes}) ELSE v[name]]

\* Whether a plan is within the bounds its encoder and its decoder put on it: the writer limit, at
\* which encode stops silently, and max_plan_steps, by which decode bounds every list and every text.
PlanFits(v) ==
    LET lists == {v["failed_generations"], v["fences"], v["restores"], v["unresolved"]}
                 \cup UNION {{s["hops"], s["links"]} : s \in ToSet(v["restores"])}
    IN  /\ size(field_words(encode_plan, v)) <= plan_writer_limit
        /\ \A list \in lists : Len(list) <= max_plan_steps
        /\ \A entry \in ToSet(v["unresolved"]) : entry["detail"] <= max_plan_steps

\* The writer and the reader of a document are kept apart by hand.  A decoder takes what its encoder
\* wrote, whole, for the value that was encoded, its text cut to the message bound: field orders
\* agree and every document but a plan fits the budget of its writer.  A document that lost its end,
\* between two fields or within one, or gained a byte, decodes to nothing; only the reader of the
\* stream header does not look for the end.  A plan beyond its bounds decodes to nothing and never to
\* another plan; what that means for the comment at failover.cpp:487, that the plan must survive a
\* crash, is PlanSurvivesCrash of Failover.
DecodesWhatWasEncoded ==
    \A c \in ToSet(carried) : c.result # <<>> =>
        LET document == Documents[c.name]
            taken == /\ c.state = "whole" \/ (c.state = "long" /\ ~document.whole)
                     /\ c.name = "plan" => PlanFits(c.value)
        IN  c.result[1] = IF taken THEN <<Cut(document.write, c.value)>> ELSE <<>>
=============================================================================
