SPECIFICATION FairSpec
CONSTANTS
  p1 = p1
  p2 = p2
  First = 1
  Last = 2
  Obtained <- Batches
  MaxReseats = 2
  Procs = {p1, p2}
  MaxRaws = 2
  MaxFaults = 1
  MaxExpert = 2
  MaxEdits = 1
INVARIANTS RecordsTrue CompletedQueued
PROPERTIES DeliveredAtLast
CHECK_DEADLOCK FALSE
