\* Two chaos scripts, one round each.
SPECIFICATION Spec
CONSTANTS
  sound = sound  malformed = malformed
  f1 = f1  f3 = f3
  Node = {1, 2, 3}
  Entry = {sound, malformed}
  Own <- MCOwn
  Sound = {sound}
  Driver = {f1, f3}
  Victim = {1}
  MaxRounds = 1
SYMMETRY Drivers
INVARIANT AnyRoundCatchesUp
CHECK_DEADLOCK FALSE
