SPECIFICATION Spec
CONSTANTS
  Processes = {"e1", "e2"}
  Patches = {"h1", "h2"}
  MaxIterations = 2
  Seconds = 2
  Overlap = TRUE
  Kills = FALSE
INVARIANTS LedgerKeepsEveryAttempt RunDirectoriesAreOwned TestsItsOwnTrees
CHECK_DEADLOCK FALSE
