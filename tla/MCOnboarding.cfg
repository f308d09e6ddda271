SPECIFICATION FairSpec
CONSTANTS
  Modules = {"m1", "m2", "m3"}
  FileOf <- McFileOf
  MaxRuns = 2
INVARIANT InstantiatedFilesComeFirst
PROPERTIES ReviewedWorkIsKept OnboardingEnds
CHECK_DEADLOCK FALSE
