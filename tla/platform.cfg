CONSTANTS
    n1 = n1
    NoEntry = NoEntry
    Notifications = {n1}
    Copies = 1
    MaxRetries = 1
    MaxFaults = 1
SPECIFICATION PlatformFairSpec
INVARIANTS PlatformTypeOK Agreement NoResultDropped
PROPERTIES ImplementsNotification ImplementsLifecycle EventuallySettled
