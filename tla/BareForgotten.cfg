SPECIFICATION Spec
CONSTANTS
  visitor = visitor
  checker = checker
  first = first
  second = second
  tags = tags
  unknown = unknown
  None = None
  Visitors = {}
  Checker = checker
  First = first
  Second = second
  Tags = tags
  Unknown = unknown
  Serves <- Redesign
  TTL <- Lives
  CheckEvery = 2
  MaxCached = 2
INVARIANTS
  BareIsReported
