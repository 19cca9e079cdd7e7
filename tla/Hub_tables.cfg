SPECIFICATION LiveSpec
CONSTANTS
  p1 = p1
  p2 = p2
  p3 = p3
  a = a
  b = b
  mesh1 = mesh1
  Pres = {p1, p2, p3}
  MeshOf <- OneMesh
  MemberOf <- TwoMembers
  Daemon = {p1, p2}
  Watch = {w1}
  Publish = {u1}
  Call = {c1}
  Object = {o1, o2, o3}
  None = None
  MaxPage = 2
  Scene <- Tables
INVARIANTS TypeOK EvictedLeavesNothing ClockTicksForSomebody PublishReachesSubscribers
PROPERTY WatchSettles
CHECK_DEADLOCK FALSE
