\* Two rows, the message of one with odd statuses or not, and a claim of one.
CONSTANTS
  Item = {i1, i2}
  Recipient = {r1}
  Worker = {w1}
  Nobody = Nobody
  NoMessage = NoMessage
  NoItem = NoItem
  Mismatched = {}
  Odd = {i2}
  Limit = 1
  MaxAttempts = 2
  MaxFaults = 2
SPECIFICATION FairSpec
PROPERTIES
  Settled
  Reconciled
CHECK_DEADLOCK FALSE
