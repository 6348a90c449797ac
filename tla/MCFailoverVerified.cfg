SPECIFICATION Spec
CONSTANTS
    Keys = {1, 2, 3}
    d1 = d1
    d2 = d2
    Dependents = {d1}
    Topologies <- MCTopologies
    Candidates <- MCCandidates
    Bounds <- MCNoBounds
    Targets = {{1}}
    Reports = {}
    max_fences = 1
    max_authority_grants = 3
    max_retained_plans = 2
    allow_acknowledgement_restore = FALSE
    MaxPlans = 2
    max_plan_steps = 2
    Fits = {TRUE}
    MaxEpoch = 1
    FaultyEpochs = {}
INVARIANT VerifiedEffectIsCurrent
CHECK_DEADLOCK FALSE
