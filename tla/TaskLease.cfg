SPECIFICATION FairSpec
CONSTANTS
  root = root
  human = human
  child = child
  a1 = a1
  a2 = a2
  Task <- MCTask
  InitTask <- MCInit
  HumanTask <- MCHuman
  Agent <- MCAgent
  Unreliable <- MCAgent1
  NoTask = NoTask
  NoAgent = NoAgent
  MaxLease = 2
  MaxAttempts = 1
CHECK_DEADLOCK FALSE
INVARIANTS
  TypeOK
  ActiveLeaseIsCurrent
  ExecutionIsLeased
  ResultFromYoungestLease
PROPERTIES
  ImplementsExclusiveExecution
  AbandonedLeaseIsReclaimed
