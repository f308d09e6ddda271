SPECIFICATION Spec
CONSTANTS
  FileList <- McFileList
  Meaning <- McMeaning
  Trees <- McTrees
  Baselines <- McBaselines
  Protected = {"cdc"}
  Allowlists = {{}}
  MaxFiles = 2
  Margin = 0
  InRtlDir <- PartlyInRtlDir
  Base <- McBase
  Hunks <- McHunks
  MaxHunks = 2
  LikeHeader <- McLikeHeader
  MaxLines = 2
  Top = "b"
INVARIANTS HighestConfidenceWins TargetIsShown TargetIsTheMeasured TheWorstIsShown CellsOnThePathAreLinked PatchStaysInContext
CHECK_DEADLOCK FALSE
