SPECIFICATION Spec
CONSTANTS
  Members = {alice, bob}
  Keys = {k1, k2}
  Ids = {1}
  Amounts = {1, 2}
  MaxClock = 0
  LockWait = 0
  Share = 1
  WindowEnd = 1
  Base <- EqualShares
  ResetAt <- OneReset
SYMMETRY Symmetry
INVARIANTS NeverOversold
