SPECIFICATION Spec
CONSTANTS
  Partitions = {"p1", "p2", "p3"}
  CrashPlaces = {"list"}
INVARIANT PassProvesAll
CHECK_DEADLOCK FALSE
