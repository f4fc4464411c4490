SPECIFICATION RepFairSpec
CONSTANTS
  t1 = t1
  go = go
  ops = ops
  x1 = x1
  p1 = p1
  h1 = h1
  h2 = h2
  sweeper = sweeper
  NoOne = NoOne
  Task = {t1}
  Skill = {go, ops}
  Needs <- MCNeeds
  Known = {go}
  Artifact = {x1}
  Producer <- MCProducer
  Appeal = {p1}
  Against <- MCAgainst
  Caller = {h1, h2}
  Sweeper = sweeper
  MaxAttempts = 1
  MaxFault = 2
CHECK_DEADLOCK FALSE
INVARIANTS
  RowsAreWhole
  SignalsAreTrue
PROPERTIES
  EndIsCounted
