SPECIFICATION FairSpec
CONSTANTS
  l = l  k = k  r = r  m = m  w1 = w1  w2 = w2  f1 = f1  f2 = f2
  g1 = g1  g2 = g2  g3 = g3  h1 = h1  u1 = u1  v1 = v1  z1 = z1  a1 = a1  a2 = a2
  c1 = c1  b1 = b1  b3 = b3  d1 = d1  x1 = x1  y1 = y1
  Locals = {l, k}
  Remotes = {r, m}
  Workers = {w1}
  FollowIds = {f1}
  Undos = {}
  Answers = {a1}
  Bounds <- F1Alone
  By <- MCBy
  Of <- MCOf
  Id <- MCId
  Verdict <- MCVerdict
  AcceptOf <- MCAcceptOf
  NoAct = NoAct
  FollowAutoAccept = TRUE
  MaxAttempts = 2
CHECK_DEADLOCK FALSE
PROPERTIES PendingEndsWithAccept
