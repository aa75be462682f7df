SPECIFICATION FairSpec
CONSTANTS
  visitor = visitor
  checker = checker
  first = first
  second = second
  tags = tags
  unknown = unknown
  None = None
  Visitors <- OneVisitor
  Checker = checker
  First = first
  Second = second
  Tags = tags
  Unknown = unknown
  Serves <- Breaking
  TTL <- Lives
  CheckEvery = 2
  MaxCached = 2
INVARIANTS
  TypeOK
  NeverOutlived
  NoFalseAlarm
PROPERTIES
  OutageNoticed
  RecoveryNoticed
