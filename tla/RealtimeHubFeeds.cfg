\* One instance behind Redis, two subscriptions, room for one of two events.
CONSTANTS
  Instances = {i1}
  Topics = {t1}
  Subs = {s1, s2}
  Publishers = {p1, p2}
  Events = {e1, e2}
  Buffer = 1
  WithRedis = TRUE
  None = None
SPECIFICATION FairSpec
INVARIANTS
  TypeOK
  NoSilentGap
  ClosedOnce
PROPERTIES
  CloseReturns
  ShutdownEndsStreams
CHECK_DEADLOCK FALSE
