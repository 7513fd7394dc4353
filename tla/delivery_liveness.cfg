CONSTANTS
    e1 = e1
    e2 = e2
    e3 = e3
    e4 = e4
    e5 = e5
    Garbage = Garbage
    Rejected = "smtp_rejected"
    Events = {e1, e2, e3, e4, e5}
    Ours = {e1, e2, e3, e4}
    Payload <- MCAllKinds
    BatchSize = 2
    MaxRetries = 2
    MaxEntries = 3
    MaxFaults = 1
SPECIFICATION MCFairSpec
PROPERTIES EntryResolved
CHECK_DEADLOCK FALSE
