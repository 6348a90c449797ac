SPECIFICATION MCSpec
CONSTANTS
    Subjects = {s1}
    EvidenceIds = {1, 2, 3}
    Windows = {1}
    Policies <- MCPolicies
    EvidenceTimeMax = 3
    TimestampModulus = 4
    kPerSubjectRetention = 2
    max_evidence_records = 3
    kFutureSanityBoundNs = 1
    future_skew_tolerance_ns = 0
    d1 = d1
    d2 = d2
    k1 = k1
    k2 = k2
    Dependents <- MCDependents
    Keys <- MCKeys
    LineageIds <- MCLineageIds
    CallerCauses <- MCCauses
    Ttl = 1
    TimeMax = 2
    max_authority_grants = 2
    max_fences = 2
    max_sessions = 2
    RequestSeqs = {0, 1, 2}
    MaxBoots = 3
    MaxLedger = 3
    max_plan_steps = 2
    plan_writer_limit = 320
    max_explanation_terms = 2
    UINT_TOP = 1000
SYMMETRY Symmetry
INVARIANTS
    DurableFailureHolds
    UsableIffAffirmed
    NoActiveGrantOnFencedGeneration
    QueryMatchesContract
    AuthorisedOnceInOrder
    EpochNamesIncarnation
    OneSessionOutlivesShutdown
    DecodesWhatWasEncoded
PROPERTIES
    WithdrawnStaysWithdrawn
    MintsFreshIdentity
CHECK_DEADLOCK FALSE
