SPECIFICATION Spec
CONSTANTS
  a = a  b = b  f = f  g = g  s = s  ta = ta  tb = tb  tc = tc  td = td  te = te
  ap = ap  aq = aq  ua = ua  ub = ub  v1 = v1  v2 = v2
  Nothing = Nothing
  Users = {a, b}
  MaxMedia = 2
  Req <- MCReq
  Bounds <- MCBounds
  Issued <- MCIssued
  Registered <- MCRegistered
  By <- MCBy
  Followers <- MCFollowers
CHECK_DEADLOCK FALSE
INVARIANT TypeOK
