SPECIFICATION Spec
CONSTANTS
  FileList <- McFileList
  Meaning <- McMeaning
  Trees <- McTrees
  Baselines <- McBaselines
  Protected = {"cdc"}
  Allowlists = {{}}
  MaxFiles = 2
  Margin = 0
  InRtlDir <- McInRtlDir
  Base <- CollidingBase
  Hunks <- McHunks
  MaxHunks = 2
  LikeHeader <- McLikeHeader
  MaxLines = 2
  Top = "b"
INVARIANTS OthersStayAsTheyAre HashTellsEveryLine
PROPERTIES AmbiguousHunksAreRefused AppliedHunksTakeEffect ContextKeepsItsBytes
CHECK_DEADLOCK FALSE
