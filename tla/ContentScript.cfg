SPECIFICATION Spec
CONSTANTS
  Buttons = {b1, b2}
  Inputs = {i1}
  None = none
INVARIANTS TypeOK OneSendPerOverride WarningFitsSnapshot
PROPERTIES ButtonFollowsSnapshot
