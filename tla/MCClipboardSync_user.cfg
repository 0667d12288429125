\* Three machines send to each other, one user copies, nothing fails.
CONSTANTS
    m1 = m1  m2 = m2  m3 = m3
    Machines <- ThreeMachines
    Links <- AllWays
    Users = {m1}
    SendCap = 6
    MaxCopies = 3
    Prompt = TRUE
    JustStarted = FALSE
    SetsInOrder = TRUE
    Late = FALSE
    Failures = FALSE
SPECIFICATION Spec
INVARIANT LastCopyIsUnderWay
PROPERTIES NewestWins LastCopyArrives
\* Once nobody copies any more, the system rests.
CHECK_DEADLOCK FALSE
