\* Three threads, three calls, and failures that may use up the two attempts
\* of a _spawn loop.
CONSTANTS
  Thread = {t1, t2, t3}
  Attempts = 2
  MaxCalls = 3
  MaxFailures = 3
SPECIFICATION FairSpec
INVARIANTS
  OneRunAtATime
  NoteIsFound
PROPERTIES
  CallIsServed
  Quiesces
\* All calls are made and served: the scheduler rests.
CHECK_DEADLOCK FALSE
