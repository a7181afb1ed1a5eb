SPECIFICATION FairDualSpec
CONSTANTS
  First = 1
  Last = 2
  fA = fA
  Floppies = {fA}
  MaxGeneration = 2
  MaxCaptures = 1
  Capacity = 1
CONSTRAINT EnvironmentBound
INVARIANTS WorkersServeReading BeginCommits EverySealedQueued
PROPERTIES DrainEnds
