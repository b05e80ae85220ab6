SPECIFICATION Spec
CONSTANTS
  Langs <- JsOnly
  Topics <- SqliteOnly
  MaxTrail = 0
INVARIANTS
  QueriesTheOpenConnection
CHECK_DEADLOCK FALSE
