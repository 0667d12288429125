SPECIFICATION Spec
SYMMETRY Symmetry
CONSTANTS
    Procs = {p, q}
    Peers = {m}
    Names = {mouse}
    CutPeer = CutPeer
    Absent = Absent
    Empty = Empty
    Broken = Broken
    Default = Default
    MaxPeers = 2
    MaxDevices = 2
    MaxKeys = 3
    MaxStarts = 3
    MaxEdits = 1
INVARIANTS TypeOK KeysMatch ShownKeyIsKept
PROPERTY UnreadableIsLeftAlone
CHECK_DEADLOCK FALSE
