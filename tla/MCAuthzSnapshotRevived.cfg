\* Two workers: a pull that began before the event rearms the row.
CONSTANTS
  Proc = {p1, p2}
  Slot = {s1}
  MaxGrant = 2
  MaxCatalog = 1
  MaxCrash = 0
  AdminPulls = FALSE
  NoThread = NoThread
SPECIFICATION Spec
INVARIANT
  FailedEventFailsClosed
