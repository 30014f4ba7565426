SPECIFICATION ReleaseSpec
CONSTANTS
  N = 2
  MaxContents = 2
  MaxEdits = 2
  MaxFaults = 1
  MaxCrashes = 1
  Overlap = FALSE
INVARIANTS TypeOK ReleaseTypeOK CalmBuildPasses PackagesAreSound
PROPERTIES BuildVouches ImagesBelong PackageSurvives
