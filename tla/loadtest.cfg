CONSTANTS
    p1 = p1
    p2 = p2
    Calls = {p1, p2}
    Failing = {p2}
    Concurrency = 1
    MaxFaults = 2
SPECIFICATION FairSpec
INVARIANTS TypeOK AcceptedIsReadable SettledIsFinal VerdictSound
PROPERTIES RunEnds
CHECK_DEADLOCK FALSE
