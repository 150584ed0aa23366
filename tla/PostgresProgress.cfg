SPECIFICATION Spec
CONSTANTS
  alice = alice
  bob = bob
  k1 = k1
  k2 = k2
  r1 = r1
  r2 = r2
  g1 = g1
  g2 = g2
  Calls = {c1, c2, c3}
  Members <- TwoMembers
  Base <- TwoEach
  Terms <- Asked
  OpeningGrants <- BothLend
  Workload <- Waiting
PROPERTIES EveryCallEnds
CHECK_DEADLOCK FALSE
