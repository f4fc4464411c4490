SPECIFICATION Spec
CONSTANTS
  lead = lead
  c1 = c1
  c2 = c2
  c3 = c3
  k1 = k1
  k2 = k2
  k3 = k3
  k4 = k4
  k5 = k5
  h1 = h1
  h2 = h2
  plan = plan
  out = out
  a = a
  b = b
  doc = doc
  Space = {plan, out}
  Entry = {a, b}
  Tool = {}
  Artifact = {doc}
  RootGrants <- MCRootGrants
  NoTask = NoTask
  NoRequest = NoRequest
  Root <- MCRoot
  Child <- MCChild
  Request <- MCRequest
  Key <- MCKey
  Usage <- MCUsage
  Handler <- MCHandlers
  Total = 5
  MaxDepth = 2
  MaxFanout = 2
  MaxRework = 1
  MaxAttempts = 1
SYMMETRY HandlerSymmetry
CHECK_DEADLOCK FALSE
INVARIANTS
  BudgetBalances
  HoldFollowsTask
  OneChildPerKey
  DelegationBounded
  ContextWithinRootGrants
