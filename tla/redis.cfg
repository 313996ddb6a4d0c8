SPECIFICATION FairSpec
CONSTANTS
  p1 = p1  p2 = p2  w1 = w1  w2 = w2  w3 = w3
  Procs = {p1, p2}
  Workers = {w1, w2, w3}
  ProcOf <- MCProcOf
  Requests = {r1, r2}
  Sends = 2
  MaxFaults = 2
  MaxStops = 1
CHECK_DEADLOCK FALSE
INVARIANTS RunOncePerPush LostOnlyByFault
PROPERTIES Implements EveryJobTaken
