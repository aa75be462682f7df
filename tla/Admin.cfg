SPECIFICATION Spec
CONSTANTS
  m1 = m1
  m2 = m2
  c1 = c1
  c2 = c2
  None = None
  Models <- TwoModels
  Clients <- TwoClients
  Size <- Sizes
  Capacity = 2
  MaxRequests = 3
  MaxFaults = 1
SYMMETRY Symmetry
CHECK_DEADLOCK FALSE
INVARIANTS
  TypeOK
  QueueFits
PROPERTIES
  ReportIsTrue
  BannedIsConfirmed
  UnbannedOnceQueued
