SPECIFICATION FairSpec
CONSTANTS
  Calls <- AllCalls
  MaxHops = 4
  Default = "*"
INVARIANTS
  TypeOK
  ArrivesIffReachable
  LimitMeansLoop
  PortRulesGoFirst
PROPERTIES
  FateDecided
CHECK_DEADLOCK FALSE
