CONSTANTS
  a1 = a1
  a2 = a2
  c1 = c1
  None = None
  Agent = {a1, a2}
  Child = {c1}
  LeaseTTL = 2
  MaxEpoch = 2
  MaxVersion = 2
  MaxCalls = 2
SPECIFICATION FairSpec
CHECK_DEADLOCK FALSE
INVARIANTS
  NoResultIsForgotten
  SuccessorOwnsThePlan
PROPERTIES
  PlanOnlyGrows
  DeadLeadIsReplaced
