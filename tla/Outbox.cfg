SPECIFICATION FairSpec
CONSTANTS
    Messages = {m1, m2}
    Workers = {w1, w2}
    MaxAttempts = 2
    BatchSize = 2
    MaxFaults = 2
CHECK_DEADLOCK FALSE
INVARIANTS
    PublishedIsQueued
    DeadAfterMaxAttempts
PROPERTIES
    SettledStays
    DispatchSpec
    EventuallySettled
