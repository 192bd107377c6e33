CONSTANTS
  mar5 = mar5
  mar5to9 = mar5to9
  n4 = n4
  four = four
  mandarin = mandarin
  chinese = chinese
  Flexible = Flexible
  Undecided = Undecided
  InvalidDate = InvalidDate
  None = None
  Normal <- MCNormal
  Within <- MCWithin
  ImpossibleDate <- MCImpossible
  RegionOf <- MCRegionOf
  Chunk <- MCChunk
  Message <- MCMessage
  Understanding <- MCUnderstanding
  Retrieval <- MCRetrieval
  MaxTurns = 3
SPECIFICATION Spec
INVARIANTS MemoryTypeOK FactsAsShown  SourceScope
PROPERTIES NoSilentChange ScoreKeepsUp 
CHECK_DEADLOCK FALSE
