SPECIFICATION Spec
CHECK_DEADLOCK FALSE
CONSTANTS
  Clusters <- Five
  FatSector <- Halves
  PerSector = 2
  MaxDepth = 3
  Cases <- AllCases
  Studied <- StudiedCases
  MaxRuns = 3
INVARIANTS ClaimedOnce TrueAndWhole SalvageRepeats
PROPERTIES PayloadsKept
