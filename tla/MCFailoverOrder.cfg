SPECIFICATION Spec
CONSTANTS
    Keys = {1, 2}
    d1 = d1
    d2 = d2
    Dependents = {d1}
    Topologies <- MCTopologies
    Candidates <- MCCandidates
    Bounds <- MCBounds
    Targets = {{1}, {2}}
    Reports = {}
    max_fences = 2
    max_authority_grants = 3
    max_retained_plans = 2
    allow_acknowledgement_restore = FALSE
    MaxPlans = 1
    max_plan_steps = 2
    Fits = {TRUE}
    MaxEpoch = 2
    FaultyEpochs = {1}
INVARIANT FenceDurableBeforeReconstruction
CHECK_DEADLOCK FALSE
