SPECIFICATION Spec
CONSTANTS
  Sessions = {s1, s2}
  NoText = NoText
  Messages <- MCMessages
  NoUsage = NoUsage
  Identities = {"local", "remote"}
  SignalSets <- AllVersions
  Guarantees = {1, 2}
  MaxTurns = 2
  MaxEntries = 2
  MaxFires = 1
INVARIANTS TypeOK ChargesFitTurns
PROPERTIES CheckFitsUse StopHookEnds
CHECK_DEADLOCK FALSE
