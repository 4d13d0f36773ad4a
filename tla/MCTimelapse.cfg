\* Two prints; two pictures make a video, three are thinned.
CONSTANTS
    MinFrames = 2
    MaxFrames = 3
    QueueSize = 1
    MaxPrints = 2
    MaxFolders = 2
    MaxSwitches = 2
    MaxFailures = 1
    MaxRestarts = 1
SPECIFICATION MCSpec
INVARIANT RecordingsAreRight
PROPERTY FilmsAreKept
CHECK_DEADLOCK FALSE
PROPERTY FilmIsMade
