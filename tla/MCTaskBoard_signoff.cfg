SPECIFICATION BoardSpec
CONSTANTS
  timer = timer  hand = hand
  Run = {timer, hand}
  Scheduled = timer
  MaxDispatchRetries = 5
  MaxAegisRetries = 3
  ActCap = 1
  RestartCap = 1
PROPERTY OnlySignedOff
CHECK_DEADLOCK FALSE
