SPECIFICATION FairWorkSpec
CONSTANTS
  r1 = r1
  k1 = k1
  o1 = o1
  o2 = o2
  pipe = pipe
  Reads = {r1}
  Packings = {k1}
  Offices = {o1, o2}
  Pipe = pipe
  Cpus = 3
  MaxScarce = 1
PROPERTIES EverybodyEnds
