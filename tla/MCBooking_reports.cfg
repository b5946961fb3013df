SPECIFICATION Spec
CONSTANTS
  w1 = w1
  w2 = w2
  w3 = w3
  p1 = p1
  p2 = p2
  t1 = t1
  t2 = t2
  t3 = t3
  b1 = b1
  b2 = b2
  s1 = s1
  s2 = s2
  seat = seat
  tag = tag
  NoWorker = NoWorker
  NoRequest = NoRequest
  Workers = {w1, w2}
  Processes = {p1, p2}
  Host <- HostTwo
  Requests = {t1, b1, b2, s1, s2}
  Attr <- AttrAll
  Seats = {seat}
  Tags = {tag}
SYMMETRY Alikes
INVARIANTS
  TypeOK
  LatestReportShown
  ReportTakesEffect
PROPERTIES
  ImplementsInventory
