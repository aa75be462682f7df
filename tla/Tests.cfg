SPECIFICATION Spec
CONSTANTS
  m1 = m1
  m2 = m2
  c1 = c1
  c2 = c2
  NoModel = NoModel
  Models <- TwoModels
  MaxTest = 2
  Plans <- OnePlan
  Clients <- OneClient
  Shared = {}
  MaxRestarts = 1
  MaxRefusals = 0
INVARIANTS
  TypeOK
  OneTestRuns
  CancelStopsRuns
PROPERTIES
  KeepsPromise
