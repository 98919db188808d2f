\* Two runs, stepped or not, with a tab that comes and goes or a chaos button.
SPECIFICATION FairSpec
CONSTANTS
  Runs = 2
  Tasks <- MCTasks
  Tab = {c1}
  ChaosThread = {t1}
  Casts = {{c1}, {t1}}
  HISTORY = 2
  MaxPresses = 1
  MaxQueue = 1
  NoMsg = NoMsg
INVARIANTS TypeOK CatchesUp HistoryIsOfThisRun PressPays NeverStranded
PROPERTY RunEnds
CHECK_DEADLOCK FALSE
