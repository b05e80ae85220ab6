\* Two application threads, one worker, two promises, calls nested two deep.
\* A nested call that awaits may stop every thread for good.
CONSTANTS
  h1 = h1
  h2 = h2
  p1 = p1
  p2 = p2
  Host = {h1, h2}
  Workers = 1
  Promise = {p1, p2}
  MaxDepth = 2
  MaxNested = 1
  NoOne = NoOne
SPECIFICATION FairSpec
INVARIANTS TypeOK LockBalanced RecordOutlivesNewPromise
PROPERTIES NestedAwaitNeverEnds EveryCallReturns EveryPromiseSettles
CHECK_DEADLOCK FALSE
