\* Two clients and running tasks submit three tasks to a pool of two workers.
CONSTANTS
  c1 = c1
  c2 = c2
  t1 = t1
  t2 = t2
  t3 = t3
  Task = {t1, t2, t3}
  Client = {c1, c2}
  PoolCapacity = 0
  CpuCores = 2
  HasJthread = FALSE
  NoOne = NoOne
SPECIFICATION FairSpec
INVARIANTS TypeOK NoLostWakeup IndexInPool
PROPERTIES ImplementsTaskPool EveryTaskRuns DestructorReturns
