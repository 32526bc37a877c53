SPECIFICATION FairSpec
CONSTANTS
  m1 = m1  c1 = c1  w1 = w1  k1 = k1  d1 = d1  d2 = d2
  NoKey = NoKey  Nobody = Nobody
  Message = {m1}
  Client = {c1}
  Workspace = {w1}
  Owner = {o1}
  Key = {k1}
  Envelope <- OneContinue
  Trim <- Identity
  Limits = {2}
  Filters <- AnyFilter
  AttemptCap = 3
  Drain = {d1}
  QueryLimit = 2
  RunCap = 2
  CrashCap = 1
  Edge = c1
  LeaseOwner = o1
  StrayCap = 0
PROPERTIES EveryMessageTried EveryRunReported
CHECK_DEADLOCK FALSE
