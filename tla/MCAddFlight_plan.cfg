SPECIFICATION Spec
CONSTANTS
  w1 = w1
  w2 = w2
  w3 = w3
  p1 = p1
  p2 = p2
  r1 = r1
  r2 = r2
  r3 = r3
  r4 = r4
  r5 = r5
  t1 = t1
  t2 = t2
  u1 = u1
  u2 = u2
  free = free
  starter = starter
  NoWorker = NoWorker
  NoRequest = NoRequest
  NoUser = NoUser
  Workers = {w1, w2, w3}
  Processes = {p1, p2}
  Host <- HostThree
  Requests = {r1, r2, r3, r4}
  Attr <- AttrSame
  Tenants = {t1}
  Users = {u1, u2}
  Roles = {"admin", "staff", "gate_agent"}
  Plans = {free, starter}
  PlanLimit <- MCPlanLimit
  Grants <- MCGrants
  Accepted <- AllStatements
SYMMETRY RequestsAlike
VIEW WhatPlanReads
INVARIANTS
  OvershootBounded
