SPECIFICATION FairSpec
CONSTANTS
  c1 = c1  c2 = c2  bad = bad  anon = anon
  l1 = l1  l2 = l2  badlog = badlog  t1 = t1  t2 = t2
  Calls = {c1}
  Loggers = {l1}
  Stats = {t1, t2}
  Consumer <- MCConsumer
  Method <- MCMethod
  Acl <- MCAcl
  NoStream = NoStream
PROPERTIES
  StatHubIsBroadcast
  StopsIfNoStreamIsOpening
CHECK_DEADLOCK FALSE
