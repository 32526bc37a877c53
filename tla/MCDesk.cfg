SPECIFICATION DeskSpec
CONSTANTS
  u1 = u1  u2 = u2  x1 = x1  b1 = b1  k1 = k1  timer = timer  hand = hand
  Mutation = {u1, u2, x1, b1}
  Deletes = {x1}
  Malformed = {b1}
  Spaced = TRUE
  LastSecond = 4
  CrashCap = 1
  Key = {k1}
  Cap = 2
  Run = {timer, hand}
  Scheduled = timer
  MaxDispatchRetries = 5
  MaxAegisRetries = 3
  ActCap = 1
  RestartCap = 1
SYMMETRY Updates
INVARIANTS AppliedOnce RequestTypeOK EdgeFollows DangerousByHuman SendBudget SignedOff
PROPERTIES NoLostUpdate CenterFinal OfflineDecisionKept
CHECK_DEADLOCK FALSE
