\* Two uvicorn workers and an administrator: pulls interleave without a common lock.
CONSTANTS
  Proc = {p1, p2}
  Slot = {s1}
  MaxGrant = 2
  MaxCatalog = 2
  MaxCrash = 0
  AdminPulls = TRUE
  NoThread = NoThread
SYMMETRY Symmetric
VIEW WithoutFailed
SPECIFICATION Spec
INVARIANTS
  LiveRowMeetsFloor
  AckedGrantIsStored
PROPERTY
  NeverRegresses
