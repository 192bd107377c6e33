CONSTANTS
  r1 = r1
  r2 = r2
  Runner = {r1, r2}
  Suite <- MCSuite
  MaxRequests = 2
  MaxEdits = 1
  Broken <- MCBroken
  None = None
SPECIFICATION FairSpec
INVARIANTS QualityTypeOK ExitZeroIsComplete RefusedThenNotRun 
PROPERTIES ImplementsEvidence RunEnds
CHECK_DEADLOCK FALSE
