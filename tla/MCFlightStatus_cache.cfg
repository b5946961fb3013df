SPECIFICATION Spec
CONSTANTS
  u1 = u1
  u2 = u2
  u3 = u3
  u4 = u4
  p1 = p1
  p2 = p2
  f1 = f1
  f2 = f2
  g1 = g1
  g2 = g2
  t1 = t1
  t2 = t2
  Created = Created
  NoUpdate = NoUpdate
  Processes = {p1}
  Flights = {f1}
  Gates = {g1, g2}
  Tenants = {t1, t2}
  Owner <- MCOwner
  FirstGate <- MCFirstGate
  Updates = {u1, u2}
  Call <- CallsTwo
INVARIANTS
  CacheFollowsRow
