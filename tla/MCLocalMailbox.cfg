SPECIFICATION Spec
CONSTANTS
  m1 = m1  m2 = m2  c1 = c1  k1 = k1  d1 = d1  d2 = d2
  NoKey = NoKey
  Message = {m1, m2}
  Drain = {d1, d2}
  Envelope <- Rows
  Trim <- Identity
  QueryLimit = 2
  RunCap = 2
  CrashCap = 1
SYMMETRY DrainSymmetry
INVARIANTS TypeOK SerialExecution KeysHeld AckBacked ReceiptForOutcome
PROPERTY NoRunAfterRecord
