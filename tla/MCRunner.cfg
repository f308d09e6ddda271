SPECIFICATION FairSpec
CONSTANTS
  Tool = "tool"
  Children = {"yosys", "abc"}
  Outlive = FALSE
INVARIANTS NobodyLeft PassIsEarned
PROPERTY EveryRunIsBounded
CHECK_DEADLOCK FALSE
