CONSTANTS
  plan = plan
  out = out
  a = a
  done = done
  other = other
  t1 = t1
  s1 = s1
  w1 = w1
  h1 = h1
  c1 = c1
  None = None
  Dynamic = Dynamic
  Task = {t1}
  Namespace = {out}
  Name = {a}
  Request <- MCLiveRequests
  EventType = {done, other}
  Written = {"yes", "big"}
  Sweeper = {s1}
  Writer = {w1}
  Waker = {}
  Caller = {c1}
  PageSize = 1
  MaxEvents = 2
  MaxTime = 2
  MaxVersion = 2
  MaxCrash = 1
SPECIFICATION FairSpec
CHECK_DEADLOCK FALSE
PROPERTIES
  DueWaitEnds
