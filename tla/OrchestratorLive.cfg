SPECIFICATION FairSpec
CONSTANTS
  a = a
  b = b
  join = join
  leaf = leaf
  child = child
  h1 = h1
  h2 = h2
  Task <- MCJoin
  Delegated <- MCNone
  Deps <- MCJoinDeps
  Waits <- MCNone
  Handler <- MCHandler
  Sweeper = sweeper
  NoTask = NoTask
  MaxAttempts = 0
  MaxCrash = 1
PROPERTIES
  ReadyTaskIsActivated
  CompletionIsNoticed
