CONSTANTS
  Arguments <- MCArguments
  MaxCalls = 4
  Value <- MCValue
  Depth <- MCDepth
SPECIFICATION Spec
CHECK_DEADLOCK FALSE
INVARIANTS
  TypeOK
  ReadyBetweenCalls
  ExitIsTruthful
  ReleasedAtExit
  AcceptedAfterRoundTrip
PROPERTIES
  ImplementsLifecycle
  CommandEnds
