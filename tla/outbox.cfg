CONSTANTS
    MaxRows = 4
    BatchSize = 2
    MaxFaults = 3
SPECIFICATION FairSpec
INVARIANTS TypeOK DuplicatesBounded RepeatsBounded
PROPERTIES AtLeastOnceDelivery EventuallyPublished
CHECK_DEADLOCK FALSE
