CONSTANTS
    n1 = n1
    NoEntry = NoEntry
    Notifications = {n1}
    Copies = 2
    MaxRetries = 1
    MaxFaults = 1
SPECIFICATION FairSpec
INVARIANTS ClosedForCause ResultApplied
PROPERTIES Monotonic ProcessingEnds ResultCloses
