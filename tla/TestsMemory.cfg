SPECIFICATION FairSpec
CONSTANTS
  m1 = m1
  m2 = m2
  c1 = c1
  c2 = c2
  NoModel = NoModel
  Models <- TwoModels
  MaxTest = 1
  Plans <- TwoPlans
  Clients <- OneClient
  Shared <- TwoModels
  MaxRestarts = 1
  MaxRefusals = 1
INVARIANTS
  TakesTurns
PROPERTIES
  EveryTestSettles
