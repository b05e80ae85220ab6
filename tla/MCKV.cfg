\* Three threads of one process, so that two readers overlap while a writer
\* waits, and two keys; another process writes, but removes nothing.
CONSTANTS
  t1 = t1
  t2 = t2
  t3 = t3
  k1 = k1
  k2 = k2
  v1 = v1
  v2 = v2
  Thread = {t1, t2, t3}
  Key = {k1, k2}
  Val = {v1, v2}
  Default = Default
  Missing = Missing
  Pending = Pending
  OutsideVal = {v2}
SPECIFICATION FairSpec
INVARIANT TypeOK
PROPERTIES ImplementsAtomicKV EveryCallReturns
