SPECIFICATION FairSpec
CONSTANTS
  m1 = m1
  m2 = m2
  c1 = c1
  c2 = c2
  NoModel = NoModel
  MaxId = 2
  Models <- OneModel
  Clients <- OneClient
  Requests <- AllRequests
  MaxResumes = 1
  MaxBytes = 1
  MaxStamp = 3
  MaxRestarts = 1
  MaxOutages = 1
INVARIANTS
  OneRunning
  ResumesBounded
PROPERTIES
  CancelDecides
  KeepsPromise
  EveryDownloadSettles
