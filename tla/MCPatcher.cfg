SPECIFICATION Spec
CONSTANTS
  FileList <- McFileList
  Meaning <- McMeaning
  Trees <- McTrees
  Baselines <- McBaselines
  Protected = {"cdc"}
  Allowlists = {{}, {"core"}}
  MaxFiles = 2
  Margin = 0
  InRtlDir <- McInRtlDir
  Base <- McBase
  Hunks <- McHunks
  MaxHunks = 2
  LikeHeader <- McLikeHeader
  MaxLines = 2
  Top = "b"
INVARIANTS TargetIsShown MappedPathsComeWithSource AdmittedPathsAreAllowed AdmittedFilesAreConnected CandidateWithinBudget OthersStayAsTheyAre HashTellsTheLines
CHECK_DEADLOCK FALSE
