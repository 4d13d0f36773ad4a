\* A browser that goes away while its skip waits for the printer.
CONSTANTS
    MaxJobs = 2
    MaxDrops = 2
    MaxEdits = 1
    MaxWire = 2
    StartCalls = {k1, k2}
    NoStart = NoStart
    Codes = {e1, e2}
    NoCode = NoCode
    MaxScreen = 1
    MaxBreaks = 1
    SkipRequests = {r1, r2}
    PrintNames = {n1}
    GcodeFiles = {g1, g2, z1}
    Archives = {z1}
    NoFile = NoFile
    MaxSkipPrints = 2
    v1 = v1
    a1 = a1
    Viewers = {v1, v2, v3}
    Snapshots = {s1, s2}
    Addresses = {a1, a2}
    NoAddress = NoAddress
    MaxAddresses = 1
    HeartbeatSec = 4
    GapWatched = 1
    GapIdle = 4
    WatchHold = 6
    PollSoon = 1
    PollLater = 2
    PollAfterError = 3
    PollAfterRefused = 8
    SnapGap = 2
    SnapGapIdle = 4
    SnapBackoff = 5
    SnapFailLimit = 3
    Silence = 6
    MaxBytes = 1
    MaxFile = 2
SPECIFICATION SkipSpec
INVARIANT ShownIsConfirmed
CHECK_DEADLOCK FALSE
