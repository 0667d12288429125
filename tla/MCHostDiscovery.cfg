\* Entries has no "y": an empty line says the same.
CONSTANTS
    Me = "me"
    Others <- OneOther
    ValidKeys = {"me", "h"}
    Addresses <- TheirAddresses
    WithPort <- Ports
    Own = "me:1"
    Where <- Places
    Nobody = "nobody"
    Existing <- OldPeers
    Entries = {"n", "me:1", "h:2", "h"}
    MaxAhead = 1
    MaxQueued = 1
SPECIFICATION Spec
INVARIANTS TypeOK OwnKeyIsNoPeer PeersAreDistinct SavedIsMerged
PROPERTIES AskedOnce AnnouncedIsDealtWith
\* The dialogue ends.
CHECK_DEADLOCK FALSE
