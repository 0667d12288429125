\* Source and destinations restart, calls fail and may execute later, notifications
\* are lost; d2 is not listed by the source.
CONSTANTS
    d1 = d1  d2 = d2
    Host = Host  NoPeer = NoPeer
    Dests <- TwoDests
    ScrollDestinations = {d1}
    WithSource <- TwoDests
    QueueCap = 1
    MaxClock = 3
    MaxStarts = 2
    MaxStray = 2
    Faults = {"lose", "fail", "source", "dest"}
SPECIFICATION Spec
INVARIANTS TypeOK GrantsAgree
