\* Two chaos scripts, two rounds each, over a mesh of three.
SPECIFICATION Spec
CONSTANTS
  sound = sound  malformed = malformed
  f1 = f1  f3 = f3
  Node = {1, 2, 3}
  Entry = {sound, malformed}
  Own <- MCOwn
  Sound = {sound}
  Driver = {f1, f3}
  Victim = {1}
  MaxRounds = 2
SYMMETRY Drivers
INVARIANTS TypeOK RoundCatchesUp PartitionStops
PROPERTY IsGrowOnlySet
CHECK_DEADLOCK FALSE
