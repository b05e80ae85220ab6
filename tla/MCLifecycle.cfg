SPECIFICATION Spec
CONSTANTS
  t1 = t1
  t2 = t2
  j1 = j1
  j2 = j2
  r1 = r1
  r2 = r2
  Null = Null
  Thread <- Threads
  Job <- Jobs
  Ref <- Refs
INVARIANTS
  CallbackRefLive
  OnlyReleaseFreesInUse
PROPERTIES
  ReleaseLeavesNothing
SYMMETRY Symmetric
\* After the use of what was freed, or the unloading, nothing more is done.
CHECK_DEADLOCK FALSE
