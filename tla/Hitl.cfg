SPECIFICATION FairSpec
CONSTANTS
  gate = gate
  work = work
  o1 = o1
  o2 = o2
  h1 = h1
  Task <- MCBoth
  Human <- MCGate
  Rules = {"never", "none", "auto_approve", "auto_reject"}
  Opener <- MCReplicas
  Handler <- MCHandlers
  Sweeper = sweeper
  MaxDecisions = 2
  MaxCrash = 1
INVARIANTS
  HumanNodeFollowsItsDecision
PROPERTIES
  DecidedIsFinal
  AnswerIsApplied
