SPECIFICATION FairSpec
CONSTANTS
  Models <- MCModels
  MaxRuns = 3
INVARIANTS NoTmpFileLeft LogLeftByFailure LaterStepsIntact
PROPERTIES RunEnds
