SPECIFICATION FairSpec
CONSTANTS
  p1 = p1  p2 = p2  w1 = w1  w2 = w2  d1 = d1  d2 = d2  i1 = i1  n1 = n1
  Procs = {p1}
  Workers = {w1, w2}
  ProcOf <- OneProc
  Requests = {d1, i1}
  KindOf <- MCKindOf
  NoReq = NoReq
  Unkeyed = {}
  MaxAttempts = 2
  Delay <- MCDelay
  MaxJobs = 1
  MaxFaults = 0
  MaxStops = 1
  MaxTrouble = 1
  SlackTime = 0
CHECK_DEADLOCK FALSE
PROPERTIES FailedDeliverySettles
