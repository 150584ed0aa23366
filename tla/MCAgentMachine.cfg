SPECIFICATION Spec
CONSTANTS
  a = a
  b = b
  u0 = u0
  u1 = u1
  u2 = u2
  m0 = m0
  m1 = m1
  m2 = m2
  lint = lint
  log = log
  None = None
  Empty = Empty
  Torn = Torn
  NoHooks = NoHooks
  HookCommands <- Hooks
  Machines = {a, b}
  Processes = {p, q}
  Owner <- OwnerOnServer
  LocalOwner <- OwnerLocally
  Base = 1
  Commands <- Entered
  InitialDb <- Registered12
  InitialConfig <- Joined
  InitialSettings <- Mixed
  MaxCommands = 3
INVARIANTS TypeOK SavedIdentityHolds RetryHarmless OnlyOwnersAct HooksAllOrNone
SYMMETRY Alike
CHECK_DEADLOCK FALSE
