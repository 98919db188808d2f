\* All tables over three points, four offers at most.
SPECIFICATION FairSpec
CONSTANTS
  Point <- MCPoint
  Midpoint = 2
  NoPoint = NoPoint
  MaxUtility = 2
  EPS = 1
  DELTA = 0
  R_MAX = 4
INVARIANTS TypeOK NeverWalksBack CapUnreached WarmStartOneRound WarmStartNoWorse
           AgreementIsEfficient
PROPERTY Terminates
CHECK_DEADLOCK FALSE
