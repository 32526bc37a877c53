SPECIFICATION Spec
CONSTANTS
  u1 = u1  u2 = u2  x1 = x1  b1 = b1
  Mutation = {u1, u2}
  Deletes = {}
  Malformed = {}
  Spaced = FALSE
  LastSecond = 2
  CrashCap = 0
PROPERTY NoLostUpdate
CHECK_DEADLOCK FALSE
