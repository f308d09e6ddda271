SPECIFICATION FairFixture
CONSTANTS
  Words = {"zero", "word"}
  Zero = "zero"
  Nothing = "nothing"
  MaxRatio = 2
  Ratios <- McRatios
  Patient = FALSE
INVARIANT OffersAreTaken
PROPERTY AnyRatioRuns
