CONSTANTS
  x = x
  y = y
  z = z
  m1 = m1
  m2 = m2
  k1 = k1
  k2 = k2
  h1 = h1
  h2 = h2
  person = person
  outsider = outsider
  None = None
  Key = {k1, k2}
  Mission = {m1, m2}
  Name = {x, y, z}
  Request <- MCRequests
  Scoped = {person}
  Handler = {h1, h2}
  MaxCrash = 2
SPECIFICATION FairSpec
CHECK_DEADLOCK FALSE
INVARIANTS
  AnsweredIsUnderWay
  MissionsCanFinish
PROPERTIES
  KeepsPromise
  KeyIsNeverStuck
