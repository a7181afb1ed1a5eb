SPECIFICATION FairQueueSpec
CONSTANTS
  t1 = t1
  t2 = t2
  t3 = t3
  Tasks = {t1, t2, t3}
INVARIANTS DrainLeavesNothing
PROPERTIES FinishedStays FinishEnds
