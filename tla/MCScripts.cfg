SPECIFICATION Spec
CONSTANTS
  Langs <- AllLangs
  Topics <- AllTopics
  MaxTrail = 4
INVARIANTS
  TypeOK
  ArgumentsArrive
  ThrowsOnlyOnNonNumbers
  DeadOnlyIfEmptyOrClosed
  StreamReleases
PROPERTIES
  RoundTrips
\* A script ends.
CHECK_DEADLOCK FALSE
