SPECIFICATION Spec
CONSTANTS
  p1 = p1  p2 = p2  w1 = w1  w2 = w2  w3 = w3
  Procs = {p1, p2}
  Workers = {w1, w3}
  ProcOf <- TwoProcs
  Requests = {r1, r2, r3}
  Sends = 1
  MaxFaults = 0
  MaxStops = 0
CHECK_DEADLOCK FALSE
PROPERTIES FirstInFirstOut
