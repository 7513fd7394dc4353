CONSTANTS
    e1 = e1
    e2 = e2
    Garbage = Garbage
    Rejected = "telegram_rejected"
    Events = {e1, e2}
    Ours = {e1, e2}
    Payload <- MCMixed
    StatusCodes = {200, 400, 429, 500}
    BatchSize = 2
    MaxRetries = 1
    MaxEntries = 2
    MaxFaults = 0
SPECIFICATION TelegramFairSpec
INVARIANTS OutcomeWasAnswered
PROPERTIES ImplementsDelivery ImplementsFairDelivery
CHECK_DEADLOCK FALSE
