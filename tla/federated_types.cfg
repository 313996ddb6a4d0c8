SPECIFICATION Spec
CONSTANTS
  r = r  m = m  o = o  e = e  ce = ce  pe = pe  cn = cn  cs = cs  ps = ps  w1 = w1  w2 = w2
  c1 = c1  c2 = c2  p1 = p1  p2 = p2  d1 = d1  cm = cm  pm = pm  dm = dm
  l1 = l1  l2 = l2  v1 = v1  v2 = v2  vm = vm  b1 = b1  vb = vb  k1 = k1  q1 = q1  q2 = q2  q3 = q3
  Actors = {r, m}
  Objects = {o, e}
  Workers = {w1, w2}
  Activities = {c1, c2, p1, p2, d1, cm, pm, dm, l1, l2, v1, v2, vm, b1, vb, k1, q1, q2, q3, ce, pe, cn, cs, ps}
  Kind <- MCKind
  By <- MCBy
  Of <- MCOf
  Embedded = {c1, p1, p2, cm, pm, ps, cs, ce, pe}
  Credit <- MCCredit
  Audience <- MCAudience
  Author <- MCAuthor
  Nobody = Nobody
  NoAct = NoAct
  Bounds <- MCBounds
CHECK_DEADLOCK FALSE
INVARIANT TypeOK
