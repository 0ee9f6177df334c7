SPECIFICATION Spec
CONSTANTS
  Size = 4
  Delays = {1, 2}
INVARIANTS
  OnShortestRoute
  NoRoutingLoop
