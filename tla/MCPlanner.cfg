SPECIFICATION Spec
CONSTANTS
    Keys = {1, 2, 3, 4, 5}
    IdentityOf <- MCIdentity
    Scenarios <- MCScenarios
    Topologies <- MCTopologies
    Supplies <- MCSupplies
    Verdicts = {"usable", "failing", "conflict"}
    UINT64_MAX = 4
    MaxChanges = 2
INVARIANTS
    AcceptedPlanIsAdmissibleNow
PROPERTIES
    BudgetOnlyHelps
    ProvenPlanIsOptimal
    PlannerOutputValidates
    CertificatesHold
CHECK_DEADLOCK FALSE
