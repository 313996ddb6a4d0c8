SPECIFICATION FairSpec
CONSTANTS
  p1 = p1  p2 = p2  w1 = w1  w2 = w2  d1 = d1  d2 = d2  i1 = i1  n1 = n1
  Procs = {p1, p2}
  Workers = {w1, w2}
  ProcOf <- TwoProcs
  Requests = {d1, i1, n1}
  KindOf <- MCKindOf
  NoReq = NoReq
  Unkeyed = {n1}
  MaxAttempts = 2
  Delay <- MCDelay
  MaxJobs = 2
  MaxFaults = 2
  MaxStops = 1
  MaxTrouble = 1
  SlackTime = 1
CHECK_DEADLOCK FALSE
INVARIANTS LeaseExclusive TriesBounded DeadLetterJustified DoneMeansAnswered StuckOnlyByFault
PROPERTIES RefusedNotRetried Implements EveryJobEnds
