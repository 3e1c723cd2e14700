\* One worker with two request threads and a restart: every pull takes the lock.
CONSTANTS
  Proc = {p1}
  Slot = {s1, s2}
  MaxGrant = 2
  MaxCatalog = 1
  MaxCrash = 1
  AdminPulls = FALSE
  NoThread = NoThread
SPECIFICATION FairSpec
INVARIANTS
  FailedEventFailsClosed
  OnePullPerOccasion
PROPERTIES
  OldGrantsEnd
  OperationEnds
