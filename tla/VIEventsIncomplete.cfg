SPECIFICATION Spec
CONSTANTS
  d1 = d1  d2 = d2  root = root
  DC <- MCDC
  Root = root
  EventsIn <- MCEventsIn
  PageSize = 2
  Cap = 1
INVARIANT SuccessMeansComplete
