SPECIFICATION Spec
CONSTANTS
  Partitions = {"p1", "p2", "p3"}
  CrashPlaces = {"start", "prove", "mark", "exit"}
INVARIANTS PassProvesAll DisproofIsReported
CHECK_DEADLOCK FALSE
