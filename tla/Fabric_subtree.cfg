\* Probation on the two initiators of an insight and the one derived from it.
SPECIFICATION Spec
CONSTANTS
  n1 = n1  n2 = n2  n3 = n3  n4 = n4
  good = good  bad = bad  child = child
  t1 = t1  t2 = t2
  Node = {n1, n2, n3}
  Insight = {good, child}
  Rogue = {}
  RogueBody <- NoBodies
  Initiator = {n1, n3}
  Victim = {}
  Prunable = {}
  Hash <- MCHash
  Reason <- MCReason
  QUORUM = 2
  Place <- MCPlace
  Driver = {t1}
  DerivedFrom <- MCDerivedFrom
  DiscoveredBy <- MCDiscoveredBy
  Scope <- MCScope
  Improves <- MCImproves
  Claimed <- MCClaimed
  Measured <- MCMeasured
  Verdict <- MCVerdict
  RATE_LIMIT_N = 5
  RATE_LIMIT_WINDOW = 1
  PROBATION_N = 2
  PROBATION_FAIL = 2
  MaxSeq <- MaxSeqOne
  MaxNow = 0
INVARIANT RevocationIsEarned
CHECK_DEADLOCK FALSE
