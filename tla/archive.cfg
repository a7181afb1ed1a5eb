SPECIFICATION FairSpec
CONSTANTS
  c1 = c1
  c2 = c2
  w = w
  op = op
  rd = rd
  Nobody = Nobody
  Captures = {c1, c2}
  Worker = w
  Operators = {op}
  Readers = {rd}
  MaxDamage = 2
CONSTRAINT EnvironmentBound
INVARIANTS EvidenceSurvives ReadersUndisturbed NothingForgotten
PROPERTIES FinishDrains
