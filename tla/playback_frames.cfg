SPECIFICATION PlaybackSpec
CONSTANTS
    Players = {p1, p2, p3}
    Nothing = Nothing
    MaxFrames = 4
    SkipBy = 2
    MaxPresses = 5
INVARIANTS
    PlaysAll
CHECK_DEADLOCK FALSE
