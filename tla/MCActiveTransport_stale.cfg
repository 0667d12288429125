\* Nothing fails, and still a late answer replaces a newer state.
CONSTANTS
    d1 = d1  d2 = d2
    Host = Host  NoPeer = NoPeer
    Dests <- TwoDests
    ScrollDestinations <- TwoDests
    WithSource <- TwoDests
    QueueCap = 1
    MaxClock = 2
    MaxStarts = 1
    MaxStray = 0
    Faults = {}
SPECIFICATION Spec

PROPERTY StaleStateIsIgnored
