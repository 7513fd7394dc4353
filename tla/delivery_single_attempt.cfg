CONSTANTS
    e1 = e1
    e2 = e2
    e3 = e3
    e4 = e4
    e5 = e5
    Garbage = Garbage
    Rejected = "smtp_rejected"
    Events = {e1}
    Ours = {e1}
    Payload <- MCReserved
    BatchSize = 2
    MaxRetries = 2
    MaxEntries = 1
    MaxFaults = 0
SPECIFICATION Spec
INVARIANTS AtMostOneAttempt
CHECK_DEADLOCK FALSE
