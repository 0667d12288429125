\* Two entries, of two destinations or of one; channels hold one event.
CONSTANTS
    p1 = p1  p2 = p2  k1 = k1  k2 = k2
    NoPeer = NoPeer
    Peers <- TwoPeers
    Keys = {k1, k2}
    Configs <- SomeConfigs
    Capacity = 1
    MaxEvents = 2
    MaxStreams = 2
SPECIFICATION Spec
INVARIANTS TypeOK AtMostOnce InOrderPerStream ConnectedHasStream
PROPERTIES Reconnects Drains
