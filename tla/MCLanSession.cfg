\* Two prints, two loops, two outages under two names; the watcher of one
\* printer with two prints, that is offline after two looks.
CONSTANTS
    Names = {a, b}
    First = a
    PollGrace = 1
    MaxJobs = 2
    MaxLoops = 2
    MaxOutages = 2
    OfflineAfter = 2
    QuietAgain = 2
    WatchPrints = 2
    WatchOutages = 1
    WatchFlips = 2
    WatchChanges = 1
SPECIFICATION MCSpec
INVARIANT RecordedOnceIfWhole
INVARIANT RemovedIsGone
PROPERTY SwitchClosesPrint
PROPERTY TrackedPrintIsRecorded
PROPERTY StartsAreNews
CHECK_DEADLOCK FALSE
