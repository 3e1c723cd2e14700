\* Two loaders and two saves, the floor box loading the easyauth box.
CONSTANTS
  easyauth = easyauth
  floor = floor
  Thread = {t1, t2}
  Writer = {w1}
  Box = {easyauth, floor}
  Inner <- FloorFromEasyauth
  NoBox = NoBox
  NoThread = NoThread
  MaxWrites = 2
SPECIFICATION FairSpec
INVARIANTS
  CachedIsCurrent
  SingleFlight
PROPERTY LoadEnds
\* All may be idle with every write made.
CHECK_DEADLOCK FALSE
