SPECIFICATION FairSpec
CONSTANTS
  Servers <- SomeServers
  Refusals = {5, 29}
  MaxAttempts = 2
INVARIANTS
  TypeOK
  LoginRight
  ReasonTold
PROPERTIES
  LoginEnds
CHECK_DEADLOCK FALSE
