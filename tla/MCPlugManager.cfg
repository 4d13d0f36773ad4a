\* What follows a print: the plug, the spools and the maintenance reminders.
SPECIFICATION MCSpec
CONSTANTS
  l1 = l1
  l2 = l2
  h1 = h1
  Loops = {l1, l2}
  Hands = {h1}
  Cfgs <- MCCfgs
  NoCfg = NoCfg
  MaxPrints = 2
  MaxSyncs = 1
  StoreFirst = TRUE
  SlowLook = FALSE
  SlowRecord = FALSE
  s1 = s1
  s2 = s2
  u1 = u1
  u2 = u2
  Servers = {s1, s2}
  NoServer = NoServer
  Uses = {u1, u2}
  Tries = 2
  SpoolLogSize = 1
  MaxSettings = 2
  MaxServerMoods = 2
  Tasks = {1, 2}
  Interval = 2
  MaxRecords = 4
  MaxUserSteps = 2
  MaxMishaps = 1
INVARIANTS BookedRight RemindersAreRight
PROPERTY CutsAreRight
PROPERTY WaitEndsIfScheduled
CHECK_DEADLOCK FALSE
