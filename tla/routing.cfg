CONSTANTS
    e1 = e1
    e2 = e2
    email = email
    Garbage = Garbage
    Events = {e1, e2}
    Ours = {e1, e2}
    Complete = {e1}
    Channels = {email}
    ChannelOf <- MCNamed
    BatchSize = 1
    MaxRetries = 1
    MaxEntries = 2
    MaxFaults = 1
SPECIFICATION FairSpec
INVARIANTS TypeOK OneDecision DecisionWasAnswered ForwardedIsDeliverable
PROPERTIES ExactlyOnceDecision EventuallyDecided
CHECK_DEADLOCK FALSE
