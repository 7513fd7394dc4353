CONSTANTS
    p1 = p1
    p2 = p2
    Calls = {p1}
    Failing = {}
    Concurrency = 1
    MaxFaults = 1
SPECIFICATION Spec
INVARIANTS BadGatewayMeansUnreached
CHECK_DEADLOCK FALSE
