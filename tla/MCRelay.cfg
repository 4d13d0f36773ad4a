\* One printer: three calls with retries; twelve snapshots; four turns; two exported printers.
CONSTANTS
    Keys = {current}
    Current = {current}
    MaxCalls = 3
    MaxPending = 2
    MaxAttempts = 2
    MaxSnapshots = 12
    MaxForgets = 3
    MaxPosts = 4
    MaxRemovals = 2
    HistoryPosts = {h1, h2}
    MaxWaiting = 1
    MaxAge = 1
    MaxMoods = 2
    MaxHistoryRestarts = 1
    ExportPrinters = {p1, p2}
    MaxExportPosts = 2
    MaxPrinterChanges = 2
    MaxExportMishaps = 1
SPECIFICATION MCSpec
PROPERTY ImplementsRegister
PROPERTY QueueImplementsFeed
PROPERTY FollowsFeed
PROPERTY PostsEnd
PROPERTY HistorySettles
PROPERTY DiscoverySettles
CHECK_DEADLOCK FALSE
