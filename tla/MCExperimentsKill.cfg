SPECIFICATION Spec
CONSTANTS
  Processes = {"e1"}
  Patches = {"h1", "h2"}
  MaxIterations = 2
  Seconds = 2
  Overlap = FALSE
  Kills = TRUE
INVARIANT LedgerKeepsEveryAttempt
CHECK_DEADLOCK FALSE
