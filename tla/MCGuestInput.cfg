\* One millisecond of the model stands for some 50 of the code.  The device may fail.
CONSTANTS
    b = b
    Devices = {b}
    Failing = {b}
    SCROLL_TTL = 2
    BLUR_TTL = 1
    Width = 4
    RequestCap = 2
    OwnLag = 1
    RoutedLag = 1
    Pause = 1
    Prompt = TRUE
    MaxMoves = 2
    MaxTime = 11
    Deltas <- SomeDeltas
    MaxValue = 1900
SPECIFICATION Spec
INVARIANTS TypeOK ReleasesInTime FrameIsConsistent
PROPERTY KeepsTheScroll
\* The clock is bounded.
CHECK_DEADLOCK FALSE
