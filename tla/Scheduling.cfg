SPECIFICATION FairSpec
CONSTANTS
  odd = odd
  t1 = t1
  t2 = t2
  a1 = a1
  r1 = r1
  r2 = r2
  NoOne = NoOne
  Task <- MCTask
  Agent = {a1}
  Replica = {r1, r2}
  Human = {}
  Order <- MCOrder
  Fits <- MCFits
  Room <- MCRoom
  Batch = 3
  Stale = 0
CHECK_DEADLOCK FALSE
INVARIANTS
  ReplicaKeepsToRoom
PROPERTIES
  PriorityTakesRoomFirst
  RoomIsUsed
  HealthIsFollowed
