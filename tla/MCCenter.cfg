SPECIFICATION CenterSpec
CONSTANTS
  m1 = m1  m2 = m2  m3 = m3
  c1 = c1  w1 = w1  w2 = w2  k1 = k1
  NoKey = NoKey  Nobody = Nobody
  Message = {m1, m2, m3}
  Client = {c1}
  Workspace = {w1, w2}
  Owner = {o1}
  Key = {k1}
  Envelope <- Rows
  Trim <- Identity
  Limits = {1, 2}
  Filters <- AnyFilter
  AttemptCap = 3
  Askers = 1
  a = a  b = b
  Keys = {a, b}
  Drafts <- MCDrafts
  Workers = {x1, x2}
  NoWorker = NoWorker
  MaxParallel = 1
  MaxRetries = 2
  MaxReplans = 1
  MaxCalls = 1
  PlanCap = 2
  EventCap = 1
  HumanCap = 2
  e1 = e1  e2 = e2  ping = ping  bus = bus  hand = hand  j1 = j1  j2 = j2
  Event = {e1, e2}
  Ping = ping
  Bus = bus
  Hand = hand
  Job = {j1, j2}
  MaxAttempts = 3
  Keep = 3
  HandCap = 1
  CrashCap = 1
SYMMETRY Perms
INVARIANTS
  SerialExclusion RetryBudget OneRowPerKey AuditTruth AckReleasesEvent
  GoalTypeOK SeenIsCurrent WorkIsApproved EveryRecoveryOrdered DependenciesFirst ParallelLimits
  ChainUnbroken DeadReceiverIsCut
PROPERTIES FinalStays TerminalStays
CHECK_DEADLOCK FALSE
