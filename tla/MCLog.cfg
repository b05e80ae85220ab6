\* Two threads print two messages of up to three blocks.
CONSTANTS
  t1 = t1
  t2 = t2
  cb = cb
  Thread = {t1, t2}
  Callback = {cb}
  MaxLen = 2
  Length = {2, 5}
  PrintLevel = {4, 7}
  SetLevel = {3, 7, 9}
  MaxPrints = 2
  Null = Null
SPECIFICATION FairSpec
INVARIANTS TypeOK BlocksTile
PROPERTIES DeliveredWithinLevel EveryCallReturns
