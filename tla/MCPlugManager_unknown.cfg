\* The look right before the automatic off.
SPECIFICATION OneSpec
CONSTANTS
  l1 = l1
  l2 = l2
  h1 = h1
  Loops = {l1}
  Hands = {}
  Cfgs <- MCAuto
  NoCfg = NoCfg
  MaxPrints = 1
  MaxSyncs = 0
  StoreFirst = TRUE
  SlowLook = FALSE
  SlowRecord = FALSE
  s1 = s1
  s2 = s2
  u1 = u1
  u2 = u2
  Servers = {s1, s2}
  NoServer = NoServer
  Uses = {u1, u2}
  Tries = 2
  SpoolLogSize = 1
  MaxSettings = 2
  MaxServerMoods = 2
  Tasks = {1, 2}
  Interval = 2
  MaxRecords = 4
  MaxUserSteps = 2
  MaxMishaps = 1
PROPERTY UnknownStaysOn
CHECK_DEADLOCK FALSE
