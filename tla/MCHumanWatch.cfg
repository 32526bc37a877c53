SPECIFICATION PolledSpec
CONSTANTS
  Fingerprint = {f1}
  Dangerous = {}
  None = None
  Operator = {o1, o2}
  RateLimit = 1
  SuccessLimit = 1
  SkipLimit = 1
  Cap = 2
INVARIANTS TypeOK ClosedForCause
PROPERTIES OneAnswerer ClosedByHuman LimitStops WaitingIsHandled
