SPECIFICATION FairSpec
CONSTANTS
  s1 = s1
  s2 = s2
  p1 = p1
  Runs = {1, 2, 3}
  Stops = {s1, s2}
  Probes = {p1}
INVARIANTS OldRequestsHarmless
PROPERTIES AcceptedStopEnds
