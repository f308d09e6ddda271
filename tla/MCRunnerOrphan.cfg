SPECIFICATION FairSpec
CONSTANTS
  Tool = "tool"
  Children = {"yosys"}
  Outlive = TRUE
PROPERTY EveryRunIsBounded
CHECK_DEADLOCK FALSE
