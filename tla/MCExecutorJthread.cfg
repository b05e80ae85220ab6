\* A build whose standard library has std::jthread: one worker, one task.
CONSTANTS
  c1 = c1
  c2 = c2
  t1 = t1
  t2 = t2
  t3 = t3
  Task = {t1}
  Client = {c1}
  PoolCapacity = 0
  CpuCores = 1
  HasJthread = TRUE
  NoOne = NoOne
SPECIFICATION FairSpec
PROPERTY DestructorReturns
