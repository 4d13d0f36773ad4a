\* Commands for one printer with an unreliable FoxTrack; jobs for two printers that end.
SPECIFICATION MCSpec
CONSTANTS
  c1 = c1  c2 = c2  c3 = c3  d1 = d1  d2 = d2  d3 = d3
  p1 = p1  p2 = p2  f1 = f1  f2 = f2
  Cmds = {c1, c2, c3, d1, d2, d3}
  Printers = {p1, p2}
  Files = {f1, f2}
  Kind <- MCKind
  PrinterOf <- MCPrinterOf
  FileOf <- MCFileOf
  MaxTries = 2
  CacheMax = 1
  OtherBridge = TRUE
  MaxCrashes = 1
  MaxHours = 1
  k1 = k1  k2 = k2  q1 = q1  q2 = q2
  Requests = {q1, q2, q3}
  Clicks = {k1, k2}
  CommandOf <- MCCommandOf
INVARIANT CommandsAreRight
PROPERTY PairJobsEnd
CHECK_DEADLOCK FALSE
