SPECIFICATION Spec
CONSTANTS
  s1 = s1
  s2 = s2
  link = link
  path = path
  service = service
  SwitchKeys <- MCSwitchKeys
  Dependents <- MCDependents
  Definitions <- MCDefinitions
  Budgets <- MCBudgets
  RootSets <- MCRootSets
INVARIANTS
  NoSilentOmission
  BudgetsHold
  TruncatedOnlyAtABound
PROPERTY
  ClosureReturns
CHECK_DEADLOCK FALSE
