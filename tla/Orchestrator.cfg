SPECIFICATION Spec
CONSTANTS
  a = a
  b = b
  join = join
  leaf = leaf
  child = child
  h1 = h1
  h2 = h2
  Task <- MCLead
  Delegated <- MCChild
  Deps <- MCLeadDeps
  Waits <- MCWaits
  Handler <- MCHandlers
  Sweeper = sweeper
  NoTask = NoTask
  MaxAttempts = 1
  MaxCrash = 0
SYMMETRY HandlerSymmetry
INVARIANTS
  TypeOK
  NoEarlyStart
  SucceededMissionIsComplete
  PrunedHasFailedUpstream
  RetryIsDue
