SPECIFICATION Spec
CONSTANTS
  Unmeasured = Unmeasured
  TiesUp = {}
  None = None
  MaxIterations = 3
  Hashes = {h1, h2}
  Netlists = {n1, n2}
  Settings = {"frozen", "edited"}
  Reverts = TRUE
  ScreenSlacks <- MCScreenSlacks
  Figures <- MCFigures
  BaseScreenWns <- MCBaseScreenWns
  BaseRun <- MCBaseRun
  Guard <- MCGuard
INVARIANTS AcceptedUnderBaselineSettings RepeatsWereMeasured IterationReturnsItsRecord
CHECK_DEADLOCK FALSE
