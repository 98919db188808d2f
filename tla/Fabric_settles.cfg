\* One sound insight through faults on n3, and pruning.
SPECIFICATION FairSpec
CONSTANTS
  n1 = n1  n2 = n2  n3 = n3  n4 = n4
  good = good  bad = bad  child = child
  t1 = t1  t2 = t2
  Node = {n1, n2, n3}
  Insight = {good}
  Rogue = {}
  RogueBody <- NoBodies
  Initiator = {}
  Victim = {n3}
  Prunable = {good}
  Hash <- MCHash
  Reason <- MCReason
  QUORUM = 2
  Place <- MCPlace
  Driver = {t1}
  DerivedFrom <- MCDerivedFrom
  DiscoveredBy <- MCDiscoveredBy
  Scope <- MCScope
  Improves <- MCImproves
  Claimed <- MCClaimed
  Measured <- MCMeasured
  Verdict <- MCVerdict
  RATE_LIMIT_N = 5
  RATE_LIMIT_WINDOW = 1
  PROBATION_N = 3
  PROBATION_FAIL = 2
  MaxSeq <- MaxSeqSmall
  MaxNow = 1
PROPERTY SoundInsightSettles
CHECK_DEADLOCK FALSE
