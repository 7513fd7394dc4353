CONSTANTS
    n1 = n1
    n2 = n2
    email = email
    Notifications = {n1, n2}
    Channels = {email}
    SCENARIOS <- MCScenarios
    MaxFaults = 1
SPECIFICATION Spec
INVARIANTS ReenabledOnlyOnceSettled
CHECK_DEADLOCK FALSE
