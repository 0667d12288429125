\* Two machines send to each other, both users copy, anything may fail.
CONSTANTS
    m1 = m1  m2 = m2  m3 = m3
    Machines <- TwoMachines
    Links <- BothWays
    Users <- TwoMachines
    SendCap = 1
    MaxCopies = 3
    Prompt = TRUE
    JustStarted = TRUE
    SetsInOrder = FALSE
    Late = TRUE
    Failures = TRUE
SPECIFICATION Spec
INVARIANTS TypeOK ReadsFollowCopies
PROPERTY Quiesces
\* Once nobody copies any more, the system rests.
CHECK_DEADLOCK FALSE
