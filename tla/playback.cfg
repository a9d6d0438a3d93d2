SPECIFICATION PlaybackSpec
CONSTANTS
    Players = {p1, p2, p3}
    Nothing = Nothing
    MaxFrames = 4
    SkipBy = 2
    MaxPresses = 5
INVARIANTS
    PlaybackTypeOK
    TimersOwned
PROPERTIES
    PlaybackEnds
CHECK_DEADLOCK FALSE
