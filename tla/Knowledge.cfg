CONSTANTS
  intro = intro
  extra = extra
  note = note
  None = None
  Fake = Fake
  Torn = Torn
  Order <- MCOrder
  KindOf <- MCKindOf
  Draft <- MCDraft
  Titles <- MCTitles
  Manifest <- MCManifest
  MaxRetry = 1
  MaxPages = 6
  MaxRuns = 3
  MaxWork = 2
SPECIFICATION Spec
INVARIANTS  SavedMapIsWhole 
PROPERTIES DiscoveryEnds
