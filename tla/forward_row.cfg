SPECIFICATION Spec
CONSTANTS
  Calls <- RowCalls
  MaxHops = 8
  Default = "*"
INVARIANTS
  TooManyHopsMeanLoop
