SPECIFICATION Spec
CONSTANTS
  w1 = w1
  w2 = w2
  w3 = w3
  p1 = p1
  p2 = p2
  t1 = t1
  t2 = t2
  g1 = g1
  g2 = g2
  a1 = a1
  a2 = a2
  b1 = b1
  m1 = m1
  x1 = x1
  l1 = l1
  NoWorker = NoWorker
  NoRequest = NoRequest
  Workers = {w1, w2, w3}
  Processes = {p1, p2}
  Host <- HostThree
  Requests = {a1, a2, b1, m1, x1, l1}
  Attr <- AttrMixed
  Tenants = {t1, t2}
  Gates = {g1, g2}
SYMMETRY ThreadsAlike
VIEW WhatScheduleReads
INVARIANTS
  TypeOK
  ConflictExplained
  ListIsCurrent
