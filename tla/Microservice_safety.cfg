SPECIFICATION Spec
CONSTANTS
  c1 = c1  c2 = c2  bad = bad  anon = anon
  l1 = l1  l2 = l2  badlog = badlog  t1 = t1  t2 = t2
  Calls = {c1, c2, bad}
  Loggers = {l1, l2, badlog}
  Stats = {}
  Consumer <- MCConsumer
  Method <- MCMethod
  Acl <- MCAcl
  NoStream = NoStream
SYMMETRY Symmetry
INVARIANTS
  TypeOK
  ListStableWhileRead
  DeliveredInOrder
  NoticesFollowTheListAsRead
  LoggedAndCountedOnce
  ClosedInListOrder
  RefusedLeavesNoTrace
PROPERTIES
  LogHubIsBroadcast
CHECK_DEADLOCK FALSE
