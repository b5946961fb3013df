SPECIFICATION FairSpec
CONSTANTS
  p1 = p1
  t1 = t1
  t2 = t2
  e1 = e1
  e2 = e2
  c1 = c1
  c2 = c2
  c3 = c3
  Anonymous = Anonymous
  NoEvent = NoEvent
  Processes = {p1}
  Tenants = {t1, t2}
  Events = {e1, e2}
  EventTenant <- EventsSame
  Clients = {c1, c2, c3}
  Home <- HomeOne
  ClientTenant <- TenantsMixed
INVARIANTS
  TypeOK
  TenantIsolation
  NoGap
  InOrderOnce
PROPERTIES
  EventReachesClients
  ImplementsFeed
