\* Two workers claiming two rows, one with odd statuses and one mismatched, each
\* for two recipients; two attempts, two faults.
CONSTANTS
  Item = {i1, i2}
  Recipient = {r1, r2}
  Worker = {w1, w2}
  Nobody = Nobody
  NoMessage = NoMessage
  NoItem = NoItem
  Mismatched = {i2}
  Odd = {i1}
  Limit = 2
  MaxAttempts = 2
  MaxFaults = 2
SYMMETRY Symmetric
SPECIFICATION Spec
INVARIANTS
  LocalIsTrue
  AttemptsAreLeft
PROPERTY Promised
\* All items may be settled.
CHECK_DEADLOCK FALSE
