SPECIFICATION Spec
CONSTANTS
  m1 = m1
  m2 = m2
  Models <- OneModel
  KeepAlives <- ShortAndLong
  Interval = 3
  Slack = 1
  MaxTime = 8
  MaxStarts = 2
SYMMETRY Symmetry
INVARIANTS
  TypeOK
  TimeFits
  LoadsAreReal
  IdleIsNotCounted
  UseIsCaught
