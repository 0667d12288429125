\* Guests get scroll events and others; no notification overtakes an answer.
CONSTANTS
    d1 = d1  d2 = d2
    Host = Host  NoPeer = NoPeer
    Dests <- TwoDests
    ScrollDestinations <- TwoDests
    WithSource <- TwoDests
    QueueCap = 2
    MaxClock = 16
    MaxStarts = 1
    MaxStray = 0
    Faults = {}
    OtherEvents = TRUE
    Overtaking = FALSE
    MaxMoves = 2
SPECIFICATION FocusSpec
INVARIANTS HolderIsAware EveryoneIsTold
PROPERTIES ScrollFollowsFocus HostFocusReleases
\* With the focus on the host for good and nothing granted, nothing happens.
CHECK_DEADLOCK FALSE
