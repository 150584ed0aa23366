SPECIFICATION Spec
CONSTANTS
  Members = {alice, bob, carol}
  Keys = {k1, k2}
  Ids = {1, 2}
  Amounts = {1, 2}
  MaxClock = 1
  LockWait = 1
  Share = 2
  WindowEnd = 1
  Base <- EqualShares
  ResetAt <- OneReset
SYMMETRY Symmetry
INVARIANTS TypeOK LedgerBalance OffersWithinBase GuaranteeConserved LifetimeCeiling
 UsageWithinEntitlement GrantsMatchApprovals NoNeedlessRefusal AuditInv
PROPERTIES DecisionsFinal OnlyLiveGrantsPay OwnerPriority PromiseSpec
