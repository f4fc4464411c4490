CONSTANTS
  plan = plan
  out = out
  a = a
  done = done
  other = other
  t1 = t1
  s1 = s1
  w1 = w1
  h1 = h1
  c1 = c1
  None = None
  Dynamic = Dynamic
  Task = {t1}
  Namespace = {out,plan}
  Name = {a}
  Request <- MCRequests
  EventType = {done}
  Written = {"yes", "no"}
  Sweeper = {s1}
  Writer = {w1}
  Waker = {h1}
  Caller = {c1}
  PageSize = 1
  MaxEvents = 1
  MaxTime = 2
  MaxVersion = 4
  MaxCrash = 0
SPECIFICATION Spec
CHECK_DEADLOCK FALSE
INVARIANTS
  AnEventWakesOnce
PROPERTIES
  WakeIsJustified
  WriteIsNoticed
