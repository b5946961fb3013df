SPECIFICATION FairSpec
CONSTANTS
  p1 = p1
  p2 = p2
  p3 = p3
  i1 = i1
  i2 = i2
  i3 = i3
  i4 = i4
  i5 = i5
  NoId = NoId
  Processes = {p1, p2, p3}
  Ids = {i1, i2, i3, i4, i5}
  MaxFaults = 2
INVARIANTS
  TypeOK
  AirportComplete
  ServingHasAirport
PROPERTIES
  ImplementsFirstAirport
  EveryProcessServes

\* Once every process serves and the faults are used up, nothing is left to do.
CHECK_DEADLOCK FALSE
