\* Two sessions in a row, short delays and long ones, any envelope lost.
SPECIFICATION Spec
CONSTANTS
  Domain <- MCDomain
  GRID_K = 3
  INSPECTION_COST <- MCCost
  BASE_LATENCY = 2
  THROUGHPUT_CEILING = 3
  THROUGHPUT_COST = 1
  Profile <- MCProfile
  NoPoint = NoPoint
  Sessions = 2
  Delays = {1, 4}
  Gaps = {1}
  TIMEOUT_MS = 12
  MSG_WAIT = 2
  R_MAX = 2
INVARIANTS TypeOK NothingElseCounts BudgetKept JustifiedRefusal RelaxedNeverSettles
           LossIsFinal
PROPERTY IsAgreement
CHECK_DEADLOCK FALSE
