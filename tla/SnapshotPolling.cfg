SPECIFICATION Spec
CONSTANTS
  Polls = {p1, p2}
  MaxUnits = 2
  MaxFaults = 1
INVARIANTS TypeOK
PROPERTIES NoFalseExhaustion PageFollowsServer
