SPECIFICATION FairSpec
CONSTANTS
  Unmeasured = Unmeasured
  TiesUp = {}
  None = None
  MaxIterations = 3
  Hashes = {h1, h2}
  Netlists = {n1, n2}
  Settings = {"frozen", "edited"}
  Reverts = FALSE
  ScreenSlacks <- MCScreenSlacks
  Figures <- MCFigures
  BaseScreenWns <- MCBaseScreenWns
  BaseRun <- MCBaseRun
  Guard <- MCGuard
INVARIANTS TypeOK NeverOffTheTable NoPatchBuiltTwice AttemptsAreOnRecord NoNetlistProvedTwice FailuresAreExplained OnlyRepeatsAreUnclassified StopReasonTellsCycle AcceptedUnderBaselineSettings
PROPERTIES WalksTheTable LoopEnds
CHECK_DEADLOCK FALSE
