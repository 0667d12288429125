\* Two destinations and d3, which the source does not list; destinations restart,
\* calls fail and may execute later, notifications are lost.
CONSTANTS
    d1 = d1  d2 = d2  d3 = d3
    Host = Host  NoPeer = NoPeer
    Dests <- ThreeDests
    ScrollDestinations <- TwoDests
    WithSource <- ThreeDests
    QueueCap = 1
    MaxClock = 3
    MaxStarts = 1
    MaxStray = 1
    Faults = {"lose", "fail", "dest"}
SPECIFICATION HSpec
SYMMETRY Symmetry
INVARIANT OnlyListedHold
PROPERTY ImplementsGrantLog
