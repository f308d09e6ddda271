SPECIFICATION Spec
CONSTANTS
  Rtls = {"rtl", "edited_rtl"}
  Settings = {"frozen", "one_clock", "other_lef"}
  SettingsHash <- McHash
  ClocksOf <- McClocks
  Declarations <- McDeclarations
  Reverts = FALSE
  None = None
INVARIANTS ReusedFromOneInput BaselineHasItsClocks
CHECK_DEADLOCK FALSE
