SPECIFICATION Spec
CONSTANTS
  o1 = o1
  o2 = o2
  x = x
  y = y
  Outputs = {o1, o2}
  Bytes = {x, y}
  Generations = {1, 2}
  Workers = 2
  MaxRuns = 3
  MaxEdits = 1
SYMMETRY Symmetry
INVARIANTS OneSealedCopy PublishedRecognised
PROPERTIES NothingOverwritten
