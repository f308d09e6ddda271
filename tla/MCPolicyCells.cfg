SPECIFICATION PolicySpec
CONSTANTS
  Unmeasured = Unmeasured
  TiesUp <- MCTiesUp
  Slacks <- MCSlacks
  BaseAreas = {0, 200000, Unmeasured}
  CandAreas = {190000, 200000, 210000, 210001, 210002, Unmeasured}
  BaseCells = {0, 40000, Unmeasured}
  CandCells = {30000, 42000, 42001, Unmeasured}
  Clocks = {"clk_a", "clk_b"}
  AreaLimit = 5000
  CellLimit = 5002
INVARIANTS AcceptedCellsWithinLimit
CHECK_DEADLOCK FALSE
