SPECIFICATION FairSpec
CONSTANTS
  fA = fA
  fB = fB
  Floppies = {fA, fB}
  Regions = {1, 2}
  Shared = {1}
  Passes = 3
  Budget = 2
  Patience = 1
  MaxFaults = 2
  MaxSlots = 5
CONSTRAINT FirstIsA
INVARIANTS BudgetHeld ImageOfOneFloppy GivesUpForCause
PROPERTIES SealedKept RecoveryEnds
CHECK_DEADLOCK FALSE
