SPECIFICATION FairFixture
CONSTANTS
  Words = {"zero", "word"}
  Zero = "zero"
  Nothing = "nothing"
  MaxRatio = 2
  Ratios <- McRatios
  Patient = TRUE
INVARIANT OffersAreTaken
PROPERTIES ImplementsChannel ClocksRun RunningFixtureDelivers RunningFixtureRecovers
