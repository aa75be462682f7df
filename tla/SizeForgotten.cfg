SPECIFICATION Spec
CONSTANTS
  m1 = m1
  m2 = m2
  c1 = c1
  c2 = c2
  None = None
  Models <- TwoModels
  Clients <- OneClient
  Size <- Sizes
  Capacity = 2
  MaxRequests = 1
  MaxFaults = 1
CHECK_DEADLOCK FALSE
PROPERTIES
  SizeStands
