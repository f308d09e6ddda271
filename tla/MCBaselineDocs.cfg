SPECIFICATION Spec
CONSTANTS
  Rtls = {"rtl", "edited_rtl"}
  Settings = {"frozen", "one_clock", "other_lef"}
  SettingsHash <- McHash
  ClocksOf <- McClocks
  Declarations <- McDeclarations
  Reverts = FALSE
  None = None
INVARIANTS DeclaredClocksArePresent GoldIsTheBaseline ComparableRunsShareSettings OnlyTheRtlDiffers
CHECK_DEADLOCK FALSE
