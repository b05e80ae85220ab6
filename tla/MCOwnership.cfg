SPECIFICATION CallSpec
CONSTANTS
  Platforms <- AllPlatforms
INVARIANTS
  GivesBackAll
  FreesOnlyItsOwn
  ReadsNoNull
  PlatformsAgree
\* A call that frees or reads what it must not goes no further.
CHECK_DEADLOCK FALSE
