CONSTANTS
    e1 = e1
    e2 = e2
    e3 = e3
    e4 = e4
    e5 = e5
    Garbage = Garbage
    Rejected = "smtp_rejected"
    Events = {e1, e2}
    Ours = {e1, e2}
    Payload <- MCMalformed
    BatchSize = 2
    MaxRetries = 2
    MaxEntries = 2
    MaxFaults = 1
SPECIFICATION Spec
INVARIANTS TypeOK OneOutcome NothingLost GiveUpAfterMaxRetries RetriesBounded SendsBounded DeliveredWasSent
PROPERTIES OutcomeFinal ExactlyOnceOutcome
CHECK_DEADLOCK FALSE
