SPECIFICATION Spec
CONSTANTS
  gate = gate
  work = work
  o1 = o1
  o2 = o2
  h1 = h1
  Task <- MCWork
  Human <- MCNone
  Rules = {}
  Opener <- MCNone
  Handler <- MCHandlers
  Sweeper = sweeper
  MaxDecisions = 2
  MaxCrash = 0
PROPERTY
  ReplayIsIdempotent
