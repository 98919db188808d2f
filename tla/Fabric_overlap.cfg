\* Two threads run attest rounds on one mesh, through limiters with room for one.
SPECIFICATION Spec
CONSTANTS
  n1 = n1  n2 = n2  n3 = n3  n4 = n4
  good = good  bad = bad  child = child
  t1 = t1  t2 = t2
  Node = {n1, n2, n3, n4}
  Insight = {good}
  Rogue = {n3}
  RogueBody <- SpoilerBody
  Initiator = {}
  Victim = {}
  Prunable = {}
  Hash <- MCHash
  Reason <- MCReason
  QUORUM = 2
  Place <- MCPlace
  Driver = {t1, t2}
  DerivedFrom <- MCDerivedFrom
  DiscoveredBy <- MCDiscoveredBy
  Scope <- MCScope
  Improves <- MCImproves
  Claimed <- MCClaimed
  Measured <- MCMeasured
  Verdict <- MCVerdict
  RATE_LIMIT_N = 1
  RATE_LIMIT_WINDOW = 0
  PROBATION_N = 3
  PROBATION_FAIL = 2
  MaxSeq <- MaxSeqOne
  MaxNow = 0
SYMMETRY Threads
INVARIANTS OneRulingPerDriver LimiterDenialsAreEarned
PROPERTY HonestQuorumSticks
CHECK_DEADLOCK FALSE
