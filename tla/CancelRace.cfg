SPECIFICATION Spec
CONSTANTS
  m1 = m1
  m2 = m2
  c1 = c1
  c2 = c2
  NoModel = NoModel
  MaxId = 2
  Models <- TwoModels
  Clients <- OneClient
  Requests <- NoRetries
  MaxResumes = 1
  MaxBytes = 1
  MaxStamp = 3
  MaxRestarts = 0
  MaxOutages = 0
INVARIANT CancelledIsNotPulled
